----------------------------- MODULE AgentProofs -----------------------------
(***************************************************************************)
(* Theorems about the agent and its adapters, each for every value of its  *)
(* constants: AgentDispatch and AgentAnswers, WebMcpRegistration,          *)
(* A2aTasks, AgentContract, McpSessions.                                   *)
(***************************************************************************)
EXTENDS AgentParts, SequenceTheorems, FunctionTheorems, FiniteSetTheorems, NaturalsInduction, TLAPS

(***************************************************************************)
(* AgentDispatch: the inductive invariant.                                 *)
(***************************************************************************)

\* c's operation, or for an uncorrelated completion one of the same
\* capability, finished with status.
Reached(c, status) ==
  IF target[c] \in Correlated THEN finished[c] = status
  ELSE \E d \in Call : target[d] = target[c] /\ finished[d] = status

\* Where a dispatch stands fixes what was handed to the host and who listens.
Staged(c) ==
  /\ stage[c] = "idle" => target[c] = Nothing
  /\ stage[c] \in {"idle", "authorizing"} => host[c] = "none" /\ delivery[c] = "none"
  /\ stage[c] \in {"idle", "authorizing", "sending"} => woken[c] = Nothing
  /\ stage[c] \in {"authorizing", "sending", "waiting"} => target[c] \in Capability
  /\ stage[c] = "sending" => host[c] = "holds" /\ delivery[c] = "attempted"
  /\ stage[c] = "waiting" => host[c] = "accepted" /\ delivery[c] = "sent" /\ target[c] \in Completes
  /\ stage[c] \in {"sending", "waiting"} /\ target[c] \in Completes => c \in listening

\* What the host finished it was handed, a live waiter has taken it, and what a
\* waiter took, or woke up with, was reached.
Waited(c) ==
  /\ finished[c] # Nothing => host[c] # "none" /\ target[c] # Nothing
  /\ stage[c] \in {"sending", "waiting"} /\ finished[c] # Nothing => settled[c] # Nothing
  /\ stage[c] = "waiting" /\ settled[c] # Nothing => woken[c] # Nothing
  /\ settled[c] # Nothing => target[c] # Nothing /\ Reached(c, settled[c])
  /\ woken[c] \in Status => Reached(c, woken[c])

Refusals == {"unknown capability", "unavailable", "invalid", "denied", "cancelled"}

\* A record tells the end of a dispatch that is over, and tells it truly.
Accounted(entry) ==
  /\ stage[entry.call] = "done"
  /\ entry.decision = "refused" => host[entry.call] = "none"
  /\ entry.decision = "dispatched" => host[entry.call] = "accepted"
  /\ entry.decision = "unknown" => host[entry.call] # "none"
  /\ entry.outcome \in Refusals => entry.decision = "refused"
  /\ entry.outcome \in Status \cup {"dispatched", "timeout", "cancelled waiting"} => entry.decision = "dispatched"
  /\ entry.outcome \in Status => Reached(entry.call, entry.outcome)

IInv ==
  /\ TypeOK
  /\ \A c \in Call : Staged(c) /\ Waited(c)
  /\ \A i \in DOMAIN ended : Accounted(ended[i])
  /\ AuditKeepsNewest

(***************************************************************************)
(* AgentDispatch: the audit log.                                           *)
(***************************************************************************)

Newest(s) == SubSeq(s, IF Len(s) > Capacity THEN Len(s) - Capacity + 1 ELSE 1, Len(s))

\* The slice of n elements after the first k.
LEMMA SliceProperties ==
  ASSUME NEW S, NEW s \in Seq(S), NEW k \in Nat, NEW n \in Nat \ {0}, k + n = Len(s)
  PROVE  /\ SubSeq(s, k + 1, Len(s)) \in Seq(S) /\ Len(SubSeq(s, k + 1, Len(s))) = n
         /\ \A i \in 1 .. n : SubSeq(s, k + 1, Len(s))[i] = s[k + i]
<1> DEFINE lo == k + 1
           hi == Len(s)
<1>1. lo \in Int /\ hi \in Int /\ lo <= hi /\ (hi - lo) + 1 = n
  BY LenProperties
<1>2. \A i \in lo .. hi : s[i] \in S
  BY ElementOfSeq
<1>3. \A i \in 1 .. n : lo + i - 1 = k + i
  OBVIOUS
<1> HIDE DEF lo, hi
<1>4. /\ SubSeq(s, lo, hi) \in Seq(S) /\ Len(SubSeq(s, lo, hi)) = n
      /\ \A i \in 1 .. n : SubSeq(s, lo, hi)[i] = s[lo + i - 1]
  BY <1>1, <1>2, SubSeqProperties
<1> QED BY <1>3, <1>4 DEF lo, hi

\* Adding an entry to the newest ones keeps the newest ones: audit.ts drops one
\* entry when the log is full.
LEMMA NewestKept ==
  ASSUME NEW S, NEW e \in S, NEW s \in Seq(S)
  PROVE  Kept(Append(Newest(s), e)) = Newest(Append(s, e))
<1> DEFINE n == Len(s)
           a == Newest(s)
           t == Append(s, e)
           b == Append(a, e)
<1>0. n \in Nat /\ Capacity \in Nat \ {0}
  BY DispatchAssumption, LenProperties
<1>1. t \in Seq(S) /\ Len(t) = n + 1 /\ t[n + 1] = e /\ \A i \in 1 .. n : t[i] = s[i]
  BY AppendProperties
<1>2. CASE n < Capacity
  <2>1. a = SubSeq(s, 1, Len(s))
    <3>1. ~(Len(s) > Capacity)
      BY <1>0, <1>2
    <3> QED BY <3>1, Zenon DEF Newest
  <2>2. Newest(t) = SubSeq(t, 1, Len(t))
    <3>1. ~(Len(t) > Capacity)
      BY <1>0, <1>1, <1>2
    <3> QED BY <3>1, Zenon DEF Newest
  <2>2a. a = s /\ Newest(t) = t
    BY <2>1, <2>2, <1>1, SubSeqFull, Zenon
  <2>3. Len(b) = n + 1 /\ ~(n + 1 > Capacity) /\ b = t
    BY <2>2a, <1>1, <1>0, <1>2
  <2> QED BY <2>2a, <2>3 DEF Kept
<1>3. CASE n >= Capacity
  <2> DEFINE k == n - Capacity
  <2>0. k \in Nat /\ k + Capacity = n
    BY <1>0, <1>3
  <2>1. a = SubSeq(s, k + 1, n)
    <3>1. CASE n > Capacity
      BY <3>1, <1>0 DEF Newest
    <3>2. CASE n = Capacity
      BY <3>2, <1>0 DEF Newest
    <3> QED BY <3>1, <3>2, <1>3, <1>0
  <2>2. a \in Seq(S) /\ Len(a) = Capacity /\ \A i \in 1 .. Capacity : a[i] = s[k + i]
    <3> HIDE DEF k
    <3> QED BY <2>1, <2>0, <1>0, SliceProperties
  <2>3. Newest(t) = SubSeq(t, k + 2, n + 1)
    <3>1. n + 1 > Capacity /\ (n + 1) - Capacity + 1 = k + 2
      BY <1>0, <1>3
    <3> QED BY <3>1, <1>1 DEF Newest
  <2>4. Newest(t) \in Seq(S) /\ Len(Newest(t)) = Capacity /\ \A i \in 1 .. Capacity : Newest(t)[i] = t[k + 1 + i]
    <3> DEFINE j == k + 1
    <3>1. Newest(t) = SubSeq(t, j + 1, Len(t)) /\ j \in Nat /\ j + Capacity = Len(t)
      BY <2>3, <2>0, <1>0, <1>1
    <3> HIDE DEF j, k, n, t
    <3>2. t \in Seq(S) /\ Capacity \in Nat \ {0}
      BY <1>0, <1>1
    <3>3. /\ SubSeq(t, j + 1, Len(t)) \in Seq(S) /\ Len(SubSeq(t, j + 1, Len(t))) = Capacity
          /\ \A i \in 1 .. Capacity : SubSeq(t, j + 1, Len(t))[i] = t[j + i]
      BY <3>1, <3>2, SliceProperties
    <3> QED BY <3>1, <3>3, Zenon DEF j
  <2>5. b \in Seq(S) /\ Len(b) = Capacity + 1 /\ b[Capacity + 1] = e /\ \A i \in 1 .. Capacity : b[i] = a[i]
    BY <2>2, AppendProperties
  <2>6. Kept(b) = Tail(b)
    BY <2>5, <1>0 DEF Kept
  <2>7. b # <<>>
    BY <2>5, <1>0
  <2>8. Tail(b) \in Seq(S) /\ Len(Tail(b)) = Capacity /\ \A i \in 1 .. Capacity : Tail(b)[i] = b[i + 1]
    BY <2>5, <2>7, <1>0, HeadTailProperties
  <2> HIDE DEF k, a, b, t, n
  <2>9. ASSUME NEW i \in 1 .. Capacity PROVE Tail(b)[i] = Newest(t)[i]
    <3>1. CASE i = Capacity
      <4>1. k + 1 + i = n + 1 /\ i \in 1 .. Capacity
        BY <3>1, <2>0, <1>0
      <4>2. Newest(t)[i] = e
        BY <4>1, <2>4, <1>1
      <4>3. Tail(b)[i] = e
        BY <3>1, <4>1, <2>5, <2>8
      <4> QED BY <4>2, <4>3
    <3>2. CASE i < Capacity
      <4>1. i + 1 \in 1 .. Capacity /\ k + (i + 1) \in 1 .. n /\ k + 1 + i = k + (i + 1)
        BY <3>2, <2>0, <1>0
      <4>2. Newest(t)[i] = s[k + (i + 1)]
        BY <4>1, <2>4, <1>1
      <4>3. Tail(b)[i] = s[k + (i + 1)]
        BY <4>1, <2>2, <2>5, <2>8
      <4> QED BY <4>2, <4>3
    <3>3. i = Capacity \/ i < Capacity
      BY <1>0
    <3> QED BY <3>1, <3>2, <3>3, Zenon
  <2>10. Tail(b) = Newest(t)
    BY <2>4, <2>8, <2>9, SeqEqual
  <2> QED BY <2>6, <2>10 DEF a, b, t
<1> QED BY <1>0, <1>2, <1>3

(***************************************************************************)
(* AgentDispatch: types.                                                   *)
(***************************************************************************)

\* What a dispatch leaves behind when it exits.
LEMMA ExitTypes ==
  ASSUME TypeOK, NEW c \in Call, NEW progress \in {"none", "attempted", "sent"}, NEW how \in Endings,
         Exit(c, progress, how)
  PROVE  /\ stage' \in [Call -> {"idle", "authorizing", "sending", "waiting", "done"}]
         /\ delivery' \in [Call -> {"none", "attempted", "sent"}]
         /\ listening' \subseteq {d \in Call : stage'[d] \in {"sending", "waiting"}}
         /\ audit' \in Seq(Entry) /\ ended' \in Seq(Entry)
         /\ [call |-> c, decision |-> DecisionOf(progress), outcome |-> how] \in Entry
<1> DEFINE entry == [call |-> c, decision |-> DecisionOf(progress), outcome |-> how]
<1>1. entry \in Entry
  BY DEF Entry, DecisionOf
<1>2. stage' = [stage EXCEPT ![c] = "done"] /\ delivery' = [delivery EXCEPT ![c] = progress]
  BY DEF Exit
<1>3. listening' = listening \ {c}
  BY DEF Exit
<1>4. audit' = Kept(Append(audit, entry)) /\ ended' = Append(ended, entry)
  BY DEF Exit
<1> HIDE DEF entry
<1>5. Append(audit, entry) \in Seq(Entry) /\ ended' \in Seq(Entry)
  BY <1>1, <1>4, AppendProperties DEF TypeOK
<1>6. audit' \in Seq(Entry)
  <2>1. Append(audit, entry) # <<>>
    <3>1. audit \in Seq(Entry)
      BY DEF TypeOK
    <3>2. Len(Append(audit, entry)) = Len(audit) + 1 /\ Len(audit) \in Nat
      BY <1>1, <3>1, AppendProperties, LenProperties
    <3>3. Len(<<>>) = 0
      BY EmptySeq
    <3>4. Len(Append(audit, entry)) # 0
      BY <3>2
    <3> QED BY <3>3, <3>4, Zenon
  <2>2. Tail(Append(audit, entry)) \in Seq(Entry)
    BY <1>5, <2>1, HeadTailProperties
  <2> QED BY <1>4, <1>5, <2>2 DEF Kept
<1>7. listening' \subseteq {d \in Call : stage'[d] \in {"sending", "waiting"}}
  BY <1>2, <1>3 DEF TypeOK
<1> QED BY <1>1, <1>2, <1>5, <1>6, <1>7 DEF TypeOK, entry

\* The rest of TypeOK, which an exit leaves to its action.
OtherTypes ==
  /\ offered \subseteq Capability /\ target \in [Call -> Capability \cup {Nothing}] /\ aborted \subseteq Call
  /\ host \in [Call -> {"none", "holds", "accepted", "raised"}]
  /\ settled \in [Call -> Status \cup {Nothing}]
  /\ woken \in [Call -> Status \cup {"timeout", "cancelled waiting", Nothing}]
  /\ finished \in [Call -> Status \cup {Nothing}]

LEMMA HandTypes ==
  ASSUME TypeOK, NEW c \in Call, NEW k, stage[c] \in {"idle", "authorizing"}, Hand(c, k)
  PROVE  /\ stage' \in [Call -> {"idle", "authorizing", "sending", "waiting", "done"}]
         /\ delivery' \in [Call -> {"none", "attempted", "sent"}]
         /\ host' \in [Call -> {"none", "holds", "accepted", "raised"}]
         /\ listening' \subseteq {d \in Call : stage'[d] \in {"sending", "waiting"}}
         /\ audit' \in Seq(Entry) /\ ended' \in Seq(Entry)
<1>1. listening' \subseteq listening \cup {c} /\ stage' = [stage EXCEPT ![c] = "sending"]
  BY DEF Hand
<1>2. listening' \subseteq {d \in Call : stage'[d] \in {"sending", "waiting"}}
  BY <1>1 DEF TypeOK
<1> QED BY <1>1, <1>2 DEF Hand, TypeOK

\* A refused dispatch exits without the host.
LEMMA RefuseTypes ==
  ASSUME TypeOK, NEW c \in Call, NEW why \in Refusals \cup {"defect"}, Refuse(c, why)
  PROVE  /\ stage' \in [Call -> {"idle", "authorizing", "sending", "waiting", "done"}]
         /\ delivery' \in [Call -> {"none", "attempted", "sent"}]
         /\ host' \in [Call -> {"none", "holds", "accepted", "raised"}]
         /\ listening' \subseteq {d \in Call : stage'[d] \in {"sending", "waiting"}}
         /\ audit' \in Seq(Entry) /\ ended' \in Seq(Entry)
<1>1. Exit(c, "none", why) /\ host' = host
  BY DEF Refuse
<1>2. why \in Endings
  BY DEF Refusals, Endings
<1> QED BY <1>1, <1>2, ExitTypes DEF TypeOK

\* How the send of a dispatch may go: refused, suspended, or handed over.
Sends(c, k) ==
  \/ \E why \in Refusals \cup {"defect"} : Refuse(c, why)
  \/ /\ k \in Suspends /\ stage[c] = "idle"
     /\ stage' = [stage EXCEPT ![c] = "authorizing"]
     /\ UNCHANGED <<delivery, host, listening, audit, ended>>
  \/ k \in Capability /\ c \notin aborted /\ Hand(c, k)

\* Dispatch and Authorized differ only in what they may refuse.
LEMMA DispatchSends ==
  ASSUME TypeOK, NEW c \in Call, NEW k \in Capability \cup {Nothing}, Dispatch(c, k)
  PROVE  /\ stage[c] = "idle" /\ target' = [target EXCEPT ![c] = k] /\ Sends(c, k)
         /\ k = Nothing => \E why \in Refusals \cup {"defect"} : Refuse(c, why)
         /\ UNCHANGED <<offered, aborted, settled, woken, finished>>
<1>1. stage[c] = "idle" /\ target' = [target EXCEPT ![c] = k] /\ UNCHANGED <<offered, aborted, settled, woken, finished>>
  BY DEF Dispatch
<1>2. CASE k = Nothing
  BY <1>1, <1>2 DEF Dispatch, Sends, Refusals
<1>3. CASE k # Nothing /\ c \in aborted
  BY <1>1, <1>3 DEF Dispatch, Sends, Refusals
<1>4. CASE k # Nothing /\ c \notin aborted /\ k \notin offered
  BY <1>1, <1>4 DEF Dispatch, Sends, Refusals
<1>5. CASE k # Nothing /\ c \notin aborted /\ k \in offered
  BY <1>1, <1>5 DEF Dispatch, Sends, Refusals
<1> QED BY <1>1, <1>2, <1>3, <1>4, <1>5

LEMMA AuthorizedSends ==
  ASSUME TypeOK, NEW c \in Call, target[c] \in Capability, Authorized(c)
  PROVE  /\ stage[c] = "authorizing" /\ Sends(c, target[c])
         /\ UNCHANGED <<offered, target, aborted, settled, woken, finished>>
BY DEF Authorized, Sends, Refusals

LEMMA SendsTypes ==
  ASSUME TypeOK, NEW c \in Call, NEW k, stage[c] \in {"idle", "authorizing"}, Sends(c, k),
         OtherTypes', UNCHANGED aborted
  PROVE  TypeOK'
<1>1. CASE \E why \in Refusals \cup {"defect"} : Refuse(c, why)
  BY <1>1, RefuseTypes DEF TypeOK, OtherTypes
<1>2. CASE /\ stage[c] = "idle" /\ stage' = [stage EXCEPT ![c] = "authorizing"]
           /\ UNCHANGED <<delivery, host, listening, audit, ended>>
  BY <1>2 DEF TypeOK, OtherTypes
<1>3. CASE Hand(c, k)
  <2>1. /\ stage' \in [Call -> {"idle", "authorizing", "sending", "waiting", "done"}]
        /\ delivery' \in [Call -> {"none", "attempted", "sent"}]
        /\ listening' \subseteq {d \in Call : stage'[d] \in {"sending", "waiting"}}
        /\ audit' \in Seq(Entry) /\ ended' \in Seq(Entry)
    BY <1>3, HandTypes
  <2> QED BY <2>1 DEF TypeOK, OtherTypes
<1> QED BY <1>1, <1>2, <1>3 DEF Sends

(***************************************************************************)
(* AgentDispatch: steps.                                                   *)
(***************************************************************************)

\* What no step takes back.
Steady ==
  \A d \in Call :
    /\ stage[d] # "idle" => target'[d] = target[d]
    /\ finished[d] # Nothing => finished'[d] = finished[d]
    /\ stage[d] = "done" => stage'[d] = "done" /\ (host[d] = "none" => host'[d] = "none")
    /\ host[d] = "accepted" => host'[d] = "accepted"
    /\ host[d] # "none" => host'[d] # "none"

\* A step ends at most one dispatch, and its record is true.
Logged ==
  \/ UNCHANGED <<audit, ended>>
  \/ \E entry \in Entry : /\ ended' = Append(ended, entry) /\ audit' = Kept(Append(audit, entry))
                          /\ Accounted(entry)'

Preserves == TypeOK' /\ Steady /\ (\A d \in Call : Staged(d)' /\ Waited(d)') /\ Logged

LEMMA ReachedStays ==
  ASSUME IInv, Steady, NEW c \in Call, NEW status \in Status, stage[c] # "idle", Reached(c, status)
  PROVE  Reached(c, status)'
<1>0. \A d \in Call : finished[d] = status => finished'[d] = status /\ target'[d] = target[d]
  <2> SUFFICES ASSUME NEW d \in Call, finished[d] = status PROVE finished'[d] = status /\ target'[d] = target[d]
    OBVIOUS
  <2>1. finished[d] # Nothing
    BY DispatchAssumption
  <2>2. stage[d] # "idle"
    BY <2>1 DEF IInv, Waited, Staged
  <2> QED BY <2>1, <2>2 DEF Steady
<1>1. target'[c] = target[c]
  BY DEF Steady
<1>2. CASE target[c] \in Correlated
  BY <1>0, <1>1, <1>2 DEF Reached
<1>3. CASE target[c] \notin Correlated
  <2>1. PICK d \in Call : target[d] = target[c] /\ finished[d] = status
    BY <1>3 DEF Reached
  <2>2. target'[d] = target'[c] /\ finished'[d] = status
    BY <1>0, <1>1, <2>1
  <2> QED BY <1>1, <1>3, <2>2 DEF Reached
<1> QED BY <1>2, <1>3

\* A step by which the host finishes nothing.
LEMMA WaitedStays ==
  ASSUME IInv, TypeOK', Steady, UNCHANGED <<settled, finished>>, NEW d \in Call,
         woken'[d] \in Status => woken'[d] \in {woken[d], settled[d]},
         stage'[d] \in {"sending", "waiting"} => stage[d] \in {"sending", "waiting"} \/ finished[d] = Nothing,
         stage'[d] = "waiting" /\ settled[d] # Nothing => woken'[d] # Nothing
  PROVE  Waited(d)'
<1>1. Waited(d) /\ Staged(d)
  BY DEF IInv
<1>2. (finished[d] # Nothing => host[d] # "none" /\ stage[d] # "idle") /\ (settled[d] # Nothing => stage[d] # "idle")
  BY <1>1 DEF Waited, Staged
<1>3. settled'[d] # Nothing => target'[d] # Nothing /\ Reached(d, settled[d])'
  <2> SUFFICES ASSUME settled[d] # Nothing PROVE target'[d] # Nothing /\ Reached(d, settled[d])'
    OBVIOUS
  <2>1. stage[d] # "idle" /\ target'[d] = target[d] /\ target[d] # Nothing /\ Reached(d, settled[d])
    BY <1>1, <1>2 DEF Waited, Steady
  <2> DEFINE status == settled[d]
  <2>2. status \in Status /\ Reached(d, status) /\ status' = status
    BY <2>1 DEF IInv, TypeOK
  <2> HIDE DEF status
  <2>3. Reached(d, status)'
    BY <2>1, <2>2, ReachedStays
  <2> QED BY <2>1, <2>3 DEF status
<1>4. woken'[d] \in Status => Reached(d, woken[d])'
  <2> SUFFICES ASSUME woken'[d] \in Status PROVE Reached(d, woken[d])'
    OBVIOUS
  <2>1. PICK status \in Status : status = woken'[d]
    OBVIOUS
  <2>2. Reached(d, status) /\ stage[d] # "idle"
    BY <2>1, <1>1, DispatchAssumption DEF Waited, Staged
  <2>3. Reached(d, status)'
    BY <2>2, ReachedStays
  <2> QED BY <2>1, <2>3
<1> QED BY <1>1, <1>2, <1>3, <1>4 DEF Waited, Steady

\* The end of a dispatch which its record tells truly.
LEMMA ExitLogged ==
  ASSUME NEW c \in Call, NEW progress, NEW how, Exit(c, progress, how),
         [call |-> c, decision |-> DecisionOf(progress), outcome |-> how] \in Entry,
         Accounted([call |-> c, decision |-> DecisionOf(progress), outcome |-> how])'
  PROVE  Logged
BY DEF Exit, Logged

(***************************************************************************)
(* AgentDispatch: the send.                                                *)
(***************************************************************************)

\* The end of a dispatch before or after its send, when nobody hears of it.
LEMMA ExitPreserves ==
  ASSUME IInv, OtherTypes', Steady, NEW c \in Call, NEW progress \in {"none", "attempted", "sent"}, NEW how \in Endings,
         Exit(c, progress, how), UNCHANGED <<settled, woken, finished>>,
         \A d \in Call \ {c} : target'[d] = target[d] /\ host'[d] = host[d],
         Accounted([call |-> c, decision |-> DecisionOf(progress), outcome |-> how])'
  PROVE  Preserves
<1>1. TypeOK'
  BY ExitTypes DEF IInv, TypeOK, OtherTypes
<1>2. Logged
  BY ExitTypes, ExitLogged DEF IInv
<1>3. /\ stage' = [stage EXCEPT ![c] = "done"] /\ delivery' = [delivery EXCEPT ![c] = progress]
      /\ listening' = listening \ {c}
  BY DEF Exit
<1>4. stage'[c] = "done" /\ \A d \in Call \ {c} : stage'[d] = stage[d] /\ delivery'[d] = delivery[d]
  BY <1>3 DEF IInv, TypeOK
<1>5. ASSUME NEW d \in Call PROVE Staged(d)'
  <2>1. Staged(d)
    BY DEF IInv
  <2>2. CASE d = c
    BY <1>4, <2>2 DEF Staged
  <2>3. CASE d # c
    BY <1>3, <1>4, <2>1, <2>3 DEF Staged
  <2> QED BY <2>2, <2>3
<1>6. ASSUME NEW d \in Call PROVE Waited(d)'
  <2>1. stage'[d] \in {"sending", "waiting"} => stage'[d] = stage[d]
    BY <1>4
  <2>2. stage'[d] = "waiting" /\ settled[d] # Nothing => woken'[d] # Nothing
    BY <2>1 DEF IInv, Waited
  <2> QED BY <1>1, <2>1, <2>2, WaitedStays
<1> QED BY <1>1, <1>2, <1>5, <1>6 DEF Preserves

\* A dispatch that goes on: handed to the host, or suspended in its hook.
LEMMA GoesOn ==
  ASSUME IInv, TypeOK', Steady, NEW c \in Call, NEW s \in {"authorizing", "sending"},
         stage[c] \in {"idle", "authorizing"}, target'[c] \in Capability,
         stage' = [stage EXCEPT ![c] = s], UNCHANGED <<settled, woken, finished, audit, ended>>,
         \A d \in Call \ {c} : /\ target'[d] = target[d] /\ host'[d] = host[d] /\ delivery'[d] = delivery[d]
                               /\ d \in listening => d \in listening',
         s = "authorizing" => host'[c] = "none" /\ delivery'[c] = "none",
         s = "sending" => /\ host'[c] = "holds" /\ delivery'[c] = "attempted"
                          /\ target'[c] \in Completes => c \in listening'
  PROVE  Preserves
<1>1. stage'[c] = s /\ \A d \in Call \ {c} : stage'[d] = stage[d]
  BY DEF IInv, TypeOK
<1>2. woken[c] = Nothing /\ finished[c] = Nothing
  BY DEF IInv, Staged, Waited
<1>3. ASSUME NEW d \in Call PROVE Staged(d)'
  <2>1. Staged(d)
    BY DEF IInv
  <2>2. CASE d = c
    BY <1>1, <1>2, <2>2 DEF Staged
  <2>3. CASE d # c
    BY <1>1, <2>1, <2>3 DEF Staged
  <2> QED BY <2>2, <2>3
<1>4. ASSUME NEW d \in Call PROVE Waited(d)'
  <2>1. stage'[d] \in {"sending", "waiting"} => stage[d] \in {"sending", "waiting"} \/ finished[d] = Nothing
    BY <1>1, <1>2
  <2>2. stage'[d] = "waiting" => stage[d] = "waiting"
    BY <1>1
  <2>3. stage'[d] = "waiting" /\ settled[d] # Nothing => woken'[d] # Nothing
    BY <2>2 DEF IInv, Waited
  <2> QED BY <2>1, <2>3, WaitedStays
<1> QED BY <1>3, <1>4 DEF Preserves, Logged

LEMMA SendsPreserves ==
  ASSUME IInv, OtherTypes', NEW c \in Call, NEW k \in Capability \cup {Nothing}, stage[c] \in {"idle", "authorizing"}, Sends(c, k),
         target' = [target EXCEPT ![c] = k], stage[c] = "idle" \/ target[c] = k,
         k \in Capability \/ \E why \in Refusals \cup {"defect"} : Refuse(c, why),
         UNCHANGED <<aborted, settled, woken, finished>>
  PROVE  Preserves
<1>0. /\ TypeOK /\ TypeOK' /\ Staged(c) /\ host[c] = "none" /\ delivery[c] = "none"
      /\ \A d \in Call \ {c} : target'[d] = target[d]
      /\ target'[c] = k
  <2>1. TypeOK'
    BY SendsTypes DEF IInv
  <2>2. TypeOK /\ Staged(c) /\ host[c] = "none" /\ delivery[c] = "none"
    BY DEF IInv, Staged
  <2>3. DOMAIN target = Call
    BY DEF IInv, TypeOK
  <2>4. target'[c] = k /\ \A d \in Call \ {c} : target'[d] = target[d]
    BY <2>3
  <2> QED BY <2>1, <2>2, <2>4
<1>1. CASE \E why \in Refusals \cup {"defect"} : Refuse(c, why)
  <2>1. PICK why \in Refusals \cup {"defect"} : Refuse(c, why)
    BY <1>1
  <2>2. Exit(c, "none", why) /\ host' = host /\ why \in Endings
    BY <2>1 DEF Refuse, Refusals, Endings
  <2>3. stage'[c] = "done" /\ \A d \in Call \ {c} : stage'[d] = stage[d]
    BY <1>0, <2>2 DEF Exit, TypeOK
  <2>4. Steady
    BY <1>0, <2>2, <2>3 DEF Steady
  <2>5. Accounted([call |-> c, decision |-> DecisionOf("none"), outcome |-> why])'
    BY <1>0, <2>1, <2>2, <2>3 DEF Accounted, DecisionOf, Refusals, Status
  <2> QED BY <1>0, <2>2, <2>4, <2>5, ExitPreserves
<1>2. CASE /\ stage[c] = "idle" /\ stage' = [stage EXCEPT ![c] = "authorizing"] /\ k \in Capability
           /\ UNCHANGED <<delivery, host, listening, audit, ended>>
  <2>1. Steady
    BY <1>0, <1>2 DEF Steady, TypeOK
  <2> QED BY <1>0, <1>2, <2>1, GoesOn
<1>3. CASE k \in Capability /\ Hand(c, k)
  <2>1. /\ stage' = [stage EXCEPT ![c] = "sending"] /\ UNCHANGED <<audit, ended>>
        /\ host'[c] = "holds" /\ delivery'[c] = "attempted" /\ (k \in Completes => c \in listening')
        /\ \A d \in Call \ {c} : host'[d] = host[d] /\ delivery'[d] = delivery[d] /\ (d \in listening => d \in listening')
    <3>1. /\ stage' = [stage EXCEPT ![c] = "sending"] /\ delivery' = [delivery EXCEPT ![c] = "attempted"]
          /\ host' = [host EXCEPT ![c] = "holds"] /\ UNCHANGED <<audit, ended>>
          /\ listening' = listening \cup (IF k \in Completes THEN {c} ELSE {})
      BY <1>3, Zenon DEF Hand
    <3>2. (k \in Completes => c \in listening') /\ \A d \in listening : d \in listening'
      BY <3>1
    <3>a. DOMAIN host = Call /\ DOMAIN delivery = Call
      BY <1>0 DEF TypeOK
    <3>3. /\ host'[c] = "holds" /\ delivery'[c] = "attempted"
          /\ \A d \in Call \ {c} : host'[d] = host[d] /\ delivery'[d] = delivery[d]
      BY <3>1, <3>a
    <3> QED BY <3>1, <3>2, <3>3
  <2>2. Steady
    BY <1>0, <2>1 DEF Steady, TypeOK
  <2> QED BY <1>0, <1>3, <2>1, <2>2, GoesOn
<1> QED BY <1>1, <1>2, <1>3 DEF Sends

LEMMA DispatchPreserves ==
  ASSUME IInv, NEW c \in Call, NEW k \in Capability \cup {Nothing}, Dispatch(c, k)
  PROVE  Preserves
<1>0. TypeOK
  BY DEF IInv
<1>1. /\ stage[c] = "idle" /\ target' = [target EXCEPT ![c] = k] /\ Sends(c, k)
      /\ k = Nothing => \E why \in Refusals \cup {"defect"} : Refuse(c, why)
      /\ UNCHANGED <<offered, aborted, settled, woken, finished>>
  BY <1>0, DispatchSends
<1>2. host' \in [Call -> {"none", "holds", "accepted", "raised"}]
  <2>1. CASE \E why \in Refusals \cup {"defect"} : Refuse(c, why)
    BY <1>0, <2>1, RefuseTypes
  <2>2. CASE UNCHANGED host
    BY <1>0, <2>2 DEF TypeOK
  <2>3. CASE Hand(c, k)
    BY <1>0, <1>1, <2>3, HandTypes
  <2> QED BY <1>1, <2>1, <2>2, <2>3 DEF Sends
<1>3. OtherTypes'
  BY <1>0, <1>1, <1>2 DEF TypeOK, OtherTypes
<1>4. k \in Capability \/ \E why \in Refusals \cup {"defect"} : Refuse(c, why)
  BY <1>1
<1>5. stage[c] \in {"idle", "authorizing"} /\ (stage[c] = "idle" \/ target[c] = k) /\ UNCHANGED <<aborted, settled, woken, finished>>
  BY <1>1
<1> QED BY <1>1, <1>3, <1>4, <1>5, SendsPreserves

LEMMA AuthorizedPreserves ==
  ASSUME IInv, NEW c \in Call, Authorized(c)
  PROVE  Preserves
<1>0. TypeOK /\ stage[c] = "authorizing" /\ target[c] \in Capability
  BY DEF Authorized, IInv, Staged
<1> PICK k \in Capability : k = target[c]
  BY <1>0
<1>1. stage[c] = "authorizing" /\ k \in Capability
  BY <1>0
<1>2. Sends(c, k) /\ UNCHANGED <<offered, target, aborted, settled, woken, finished>>
  BY <1>0, AuthorizedSends
<1>3. host' \in [Call -> {"none", "holds", "accepted", "raised"}]
  <2>1. CASE \E why \in Refusals \cup {"defect"} : Refuse(c, why)
    BY <1>0, <2>1, RefuseTypes
  <2>2. CASE UNCHANGED host
    BY <1>0, <2>2 DEF TypeOK
  <2>3. CASE Hand(c, k)
    BY <1>0, <1>1, <2>3, HandTypes
  <2> QED BY <1>2, <2>1, <2>2, <2>3 DEF Sends
<1>4. OtherTypes' /\ target' = [target EXCEPT ![c] = k] /\ target[c] = k
  BY <1>0, <1>2, <1>3 DEF TypeOK, OtherTypes
<1>5. stage[c] \in {"idle", "authorizing"} /\ UNCHANGED <<aborted, settled, woken, finished>>
  BY <1>1, <1>2
<1>6. k \in Capability \/ \E why \in Refusals \cup {"defect"} : Refuse(c, why)
  BY <1>1
<1> QED BY <1>1, <1>2, <1>4, <1>5, <1>6, SendsPreserves

(***************************************************************************)
(* AgentDispatch: the host and the wait.                                   *)
(***************************************************************************)

LEMMA HostAcceptsPreserves ==
  ASSUME IInv, NEW c \in Call, HostAccepts(c)
  PROVE  Preserves
<1>0. /\ TypeOK /\ Staged(c) /\ Waited(c)
      /\ host[c] = "holds" /\ host' = [host EXCEPT ![c] = "accepted"]
      /\ UNCHANGED <<offered, target, aborted, settled, finished>>
  BY DEF HostAccepts, IInv
<1>1. host'[c] = "accepted" /\ \A d \in Call \ {c} : host'[d] = host[d]
  BY <1>0 DEF TypeOK
<1>2. host' \in [Call -> {"none", "holds", "accepted", "raised"}]
  BY <1>0 DEF TypeOK
<1>3. CASE stage[c] # "sending"
  <2>1. UNCHANGED <<stage, delivery, listening, audit, ended, woken>>
    BY <1>3 DEF HostAccepts
  <2>2. TypeOK'
    BY <1>0, <1>2, <2>1 DEF TypeOK
  <2>3. Steady
    BY <1>0, <1>1, <2>1 DEF Steady
  <2>4. ASSUME NEW d \in Call PROVE Staged(d)'
    <3>1. Staged(d)
      BY DEF IInv
    <3>2. CASE d = c
      BY <3>1, <3>2, <1>0, <1>1, <1>3, <2>1 DEF Staged
    <3>3. CASE d # c
      BY <3>1, <3>3, <1>0, <1>1, <2>1 DEF Staged
    <3> QED BY <3>2, <3>3
  <2>5. ASSUME NEW d \in Call PROVE Waited(d)'
    <3>1. stage[d] = "waiting" /\ settled[d] # Nothing => woken[d] # Nothing
      BY DEF IInv, Waited
    <3> QED BY <3>1, <1>0, <2>1, <2>2, <2>3, WaitedStays
  <2> QED BY <2>1, <2>2, <2>3, <2>4, <2>5 DEF Preserves, Logged
<1>4. CASE stage[c] = "sending" /\ target[c] \in Completes
  <2> DEFINE why == IF settled[c] # Nothing THEN settled[c] ELSE IF c \in aborted THEN "cancelled waiting" ELSE Nothing
  <2>1. /\ stage' = [stage EXCEPT ![c] = "waiting"] /\ delivery' = [delivery EXCEPT ![c] = "sent"]
        /\ woken' = [woken EXCEPT ![c] = why] /\ UNCHANGED <<listening, audit, ended>>
    BY <1>4 DEF HostAccepts
  <2>2. why \in Status \cup {"cancelled waiting", Nothing} /\ (settled[c] # Nothing => why = settled[c])
        /\ (why \in Status => why = settled[c])
    BY <1>0, DispatchAssumption DEF TypeOK, Status
  <2> HIDE DEF why
  <2>3. DOMAIN stage = Call /\ DOMAIN delivery = Call /\ DOMAIN woken = Call
    BY <1>0 DEF TypeOK
  <2>4. /\ stage'[c] = "waiting" /\ delivery'[c] = "sent" /\ woken'[c] = why
        /\ \A d \in Call \ {c} : stage'[d] = stage[d] /\ delivery'[d] = delivery[d] /\ woken'[d] = woken[d]
    BY <2>1, <2>3
  <2>5. TypeOK'
    <3>1. listening \subseteq {d \in Call : stage'[d] \in {"sending", "waiting"}}
      BY <1>0, <1>4, <2>4 DEF TypeOK
    <3>2. stage' \in [Call -> {"idle", "authorizing", "sending", "waiting", "done"}]
          /\ delivery' \in [Call -> {"none", "attempted", "sent"}]
          /\ woken' \in [Call -> Status \cup {"timeout", "cancelled waiting", Nothing}]
      BY <1>0, <2>1, <2>2 DEF TypeOK
    <3> QED BY <1>0, <1>2, <2>1, <3>1, <3>2 DEF TypeOK
  <2>6. Steady
    BY <1>0, <1>1, <1>4, <2>4 DEF Steady
  <2>7. ASSUME NEW d \in Call PROVE Staged(d)'
    <3>1. Staged(d)
      BY DEF IInv
    <3>2. CASE d = c
      BY <3>1, <3>2, <1>0, <1>1, <1>4, <2>1, <2>4 DEF Staged
    <3>3. CASE d # c
      BY <3>1, <3>3, <1>0, <1>1, <2>1, <2>4 DEF Staged
    <3> QED BY <3>2, <3>3
  <2>8. ASSUME NEW d \in Call PROVE Waited(d)'
    <3>1. stage[d] = "waiting" /\ settled[d] # Nothing => woken[d] # Nothing
      BY DEF IInv, Waited
    <3>2. woken'[d] \in Status => woken'[d] \in {woken[d], settled[d]}
      BY <2>2, <2>4
    <3>3. stage'[d] \in {"sending", "waiting"} => stage[d] \in {"sending", "waiting"}
      BY <1>4, <2>4
    <3>4. stage'[d] = "waiting" /\ settled[d] # Nothing => woken'[d] # Nothing
      BY <2>2, <2>4, <3>1
    <3> QED BY <3>2, <3>3, <3>4, <1>0, <2>5, <2>6, WaitedStays
  <2> QED BY <2>1, <2>5, <2>6, <2>7, <2>8 DEF Preserves, Logged
<1>5. CASE stage[c] = "sending" /\ target[c] \notin Completes
  <2>1. Exit(c, "sent", "dispatched") /\ UNCHANGED woken
    BY <1>5 DEF HostAccepts
  <2>2. stage'[c] = "done" /\ \A d \in Call \ {c} : stage'[d] = stage[d]
    BY <1>0, <2>1 DEF Exit, TypeOK
  <2>3. Steady
    BY <1>0, <1>1, <1>5, <2>2 DEF Steady
  <2>4. Accounted([call |-> c, decision |-> DecisionOf("sent"), outcome |-> "dispatched"])'
    BY <1>1, <2>2 DEF Accounted, DecisionOf, Status, Refusals
  <2>5. OtherTypes'
    BY <1>0, <1>2, <2>1 DEF TypeOK, OtherTypes
  <2>6. "dispatched" \in Endings /\ "sent" \in {"none", "attempted", "sent"}
    BY DEF Endings
  <2> QED BY <1>0, <1>1, <2>1, <2>3, <2>4, <2>5, <2>6, ExitPreserves
<1> QED BY <1>3, <1>4, <1>5

LEMMA HostRaisesPreserves ==
  ASSUME IInv, NEW c \in Call, HostRaises(c)
  PROVE  Preserves
<1>0. /\ TypeOK /\ Staged(c) /\ Waited(c)
      /\ host[c] = "holds" /\ host' = [host EXCEPT ![c] = "raised"]
      /\ UNCHANGED <<offered, target, aborted, settled, woken, finished>>
  BY DEF HostRaises, IInv
<1>1. host'[c] = "raised" /\ \A d \in Call \ {c} : host'[d] = host[d]
  BY <1>0 DEF TypeOK
<1>2. host' \in [Call -> {"none", "holds", "accepted", "raised"}]
  BY <1>0 DEF TypeOK
<1>3. CASE stage[c] # "sending"
  <2>1. UNCHANGED <<stage, delivery, listening, audit, ended>>
    BY <1>3 DEF HostRaises
  <2>2. TypeOK'
    BY <1>0, <1>2, <2>1 DEF TypeOK
  <2>3. Steady
    BY <1>0, <1>1, <2>1 DEF Steady
  <2>4. ASSUME NEW d \in Call PROVE Staged(d)'
    <3>1. Staged(d)
      BY DEF IInv
    <3>2. CASE d = c
      BY <3>1, <3>2, <1>0, <1>1, <1>3, <2>1 DEF Staged
    <3>3. CASE d # c
      BY <3>1, <3>3, <1>0, <1>1, <2>1 DEF Staged
    <3> QED BY <3>2, <3>3
  <2>5. ASSUME NEW d \in Call PROVE Waited(d)'
    <3>1. stage[d] = "waiting" /\ settled[d] # Nothing => woken[d] # Nothing
      BY DEF IInv, Waited
    <3> QED BY <3>1, <1>0, <2>1, <2>2, <2>3, WaitedStays
  <2> QED BY <2>1, <2>2, <2>3, <2>4, <2>5 DEF Preserves, Logged
<1>4. CASE stage[c] = "sending"
  <2>1. Exit(c, "attempted", "defect")
    BY <1>0, <1>4 DEF HostRaises, Staged
  <2>2. stage'[c] = "done" /\ \A d \in Call \ {c} : stage'[d] = stage[d]
    BY <1>0, <2>1 DEF Exit, TypeOK
  <2>3. Steady
    BY <1>0, <1>1, <1>4, <2>2 DEF Steady
  <2>4. Accounted([call |-> c, decision |-> DecisionOf("attempted"), outcome |-> "defect"])'
    BY <1>1, <2>2 DEF Accounted, DecisionOf, Status, Refusals
  <2>5. OtherTypes'
    BY <1>0, <1>2, <2>1 DEF TypeOK, OtherTypes
  <2>6. "defect" \in Endings /\ "attempted" \in {"none", "attempted", "sent"}
    BY DEF Endings
  <2> QED BY <1>0, <1>1, <2>1, <2>3, <2>4, <2>5, <2>6, ExitPreserves
<1> QED BY <1>3, <1>4

LEMMA ReturnPreserves ==
  ASSUME IInv, NEW c \in Call, Return(c)
  PROVE  Preserves
<1>0. /\ TypeOK /\ Staged(c) /\ Waited(c) /\ stage[c] = "waiting" /\ host[c] = "accepted" /\ woken[c] # Nothing
      /\ Exit(c, "sent", woken[c]) /\ UNCHANGED <<offered, target, aborted, host, settled, woken, finished>>
  BY DEF Return, IInv, Staged
<1> PICK how \in Status \cup {"timeout", "cancelled waiting"} : how = woken[c]
  BY <1>0 DEF TypeOK
<1>1. Exit(c, "sent", how) /\ how \in Endings /\ "sent" \in {"none", "attempted", "sent"}
  BY <1>0 DEF Endings
<1>2. stage'[c] = "done" /\ \A d \in Call \ {c} : stage'[d] = stage[d]
  BY <1>0, <1>1 DEF Exit, TypeOK
<1>3. Steady
  BY <1>0, <1>2 DEF Steady
<1>4. how \in Status => Reached(c, how)'
  <2> SUFFICES ASSUME how \in Status PROVE Reached(c, how)'
    OBVIOUS
  <2>1. Reached(c, how) /\ stage[c] # "idle"
    BY <1>0 DEF Waited
  <2> QED BY <1>3, <2>1, ReachedStays
<1>5. Accounted([call |-> c, decision |-> DecisionOf("sent"), outcome |-> how])'
  BY <1>0, <1>2, <1>4 DEF Accounted, DecisionOf, Status, Refusals
<1>6. OtherTypes'
  BY <1>0 DEF TypeOK, OtherTypes
<1> QED BY <1>0, <1>1, <1>3, <1>5, <1>6, ExitPreserves

LEMMA InterruptPreserves ==
  ASSUME IInv, NEW c \in Call, Interrupt(c)
  PROVE  Preserves
<1>0. /\ TypeOK /\ Staged(c) /\ Waited(c) /\ stage[c] \in {"authorizing", "sending", "waiting"}
      /\ Exit(c, delivery[c], "interrupted") /\ UNCHANGED <<offered, target, aborted, host, settled, woken, finished>>
  BY DEF Interrupt, IInv
<1> PICK progress \in {"none", "attempted", "sent"} : progress = delivery[c]
  BY <1>0 DEF TypeOK
<1>1. Exit(c, progress, "interrupted") /\ "interrupted" \in Endings
  BY <1>0 DEF Endings
<1>2. stage'[c] = "done" /\ \A d \in Call \ {c} : stage'[d] = stage[d]
  BY <1>0, <1>1 DEF Exit, TypeOK
<1>3. Steady
  BY <1>0, <1>2 DEF Steady
<1>4. /\ progress = "none" => host[c] = "none"
      /\ progress = "attempted" => host[c] = "holds"
      /\ progress = "sent" => host[c] = "accepted"
  BY <1>0 DEF Staged
<1>5. Accounted([call |-> c, decision |-> DecisionOf(progress), outcome |-> "interrupted"])'
  BY <1>0, <1>2, <1>4 DEF Accounted, DecisionOf, Status, Refusals
<1>6. OtherTypes'
  BY <1>0 DEF TypeOK, OtherTypes
<1> QED BY <1>0, <1>1, <1>3, <1>5, <1>6, ExitPreserves

\* The deadline and the signal only wake the waiter.
LEMMA WakePreserves ==
  ASSUME IInv, NEW c \in Call, NEW why \in {"timeout", "cancelled waiting"}, stage[c] = "waiting", woken[c] = Nothing,
         woken' = [woken EXCEPT ![c] = why], aborted' \subseteq Call,
         UNCHANGED <<offered, target, stage, delivery, host, listening, settled, finished, audit, ended>>
  PROVE  Preserves
<1>0. TypeOK /\ TypeOK'
  BY DEF IInv, TypeOK
<1>1. woken'[c] = why /\ \A d \in Call \ {c} : woken'[d] = woken[d]
  BY <1>0 DEF TypeOK
<1>2. Steady
  BY DEF Steady
<1>3. ASSUME NEW d \in Call PROVE Staged(d)'
  BY <1>1 DEF IInv, Staged
<1>4. ASSUME NEW d \in Call PROVE Waited(d)'
  <2>1. (stage[d] = "waiting" /\ settled[d] # Nothing => woken[d] # Nothing) /\ why \notin Status
    BY DEF IInv, Waited, Status
  <2>2. woken'[d] \in Status => woken'[d] \in {woken[d], settled[d]}
    BY <1>1, <2>1
  <2>3. stage'[d] = "waiting" /\ settled[d] # Nothing => woken'[d] # Nothing
    BY <1>1, <2>1
  <2> QED BY <1>0, <1>2, <2>2, <2>3, WaitedStays
<1> QED BY <1>0, <1>2, <1>3, <1>4 DEF Preserves, Logged

\* The model, or a signal that finds no waiter, moves nothing of a dispatch.
LEMMA IdlePreserves ==
  ASSUME IInv, offered' \subseteq Capability, aborted' \subseteq Call,
         UNCHANGED <<target, stage, delivery, host, listening, settled, woken, finished, audit, ended>>
  PROVE  Preserves
<1>0. TypeOK /\ TypeOK'
  BY DEF IInv, TypeOK
<1>1. Steady
  BY DEF Steady
<1>2. ASSUME NEW d \in Call PROVE Staged(d)'
  BY DEF IInv, Staged
<1>3. ASSUME NEW d \in Call PROVE Waited(d)'
  <2>1. stage[d] = "waiting" /\ settled[d] # Nothing => woken[d] # Nothing
    BY DEF IInv, Waited
  <2> QED BY <1>0, <1>1, <2>1, WaitedStays
<1> QED BY <1>0, <1>1, <1>2, <1>3 DEF Preserves, Logged

LEMMA TimeoutPreserves ==
  ASSUME IInv, NEW c \in Call, Timeout(c)
  PROVE  Preserves
<1>1. /\ stage[c] = "waiting" /\ woken[c] = Nothing /\ woken' = [woken EXCEPT ![c] = "timeout"]
      /\ aborted' \subseteq Call
      /\ UNCHANGED <<offered, target, stage, delivery, host, listening, settled, finished, audit, ended>>
  BY DEF Timeout, IInv, TypeOK
<1> QED BY <1>1, WakePreserves

LEMMA AbortPreserves ==
  ASSUME IInv, NEW c \in Call, Abort(c)
  PROVE  Preserves
<1>0. aborted' \subseteq Call /\ offered' \subseteq Capability
      /\ UNCHANGED <<offered, target, stage, delivery, host, listening, settled, finished, audit, ended>>
  BY DEF Abort, IInv, TypeOK
<1>1. CASE stage[c] = "waiting" /\ woken[c] = Nothing
  <2>1. woken' = [woken EXCEPT ![c] = "cancelled waiting"]
    BY <1>1 DEF Abort
  <2> QED BY <1>0, <1>1, <2>1, WakePreserves
<1>2. CASE ~(stage[c] = "waiting" /\ woken[c] = Nothing)
  <2>1. woken' = woken
    BY <1>2 DEF Abort
  <2> QED BY <1>0, <2>1, IdlePreserves
<1> QED BY <1>1, <1>2

LEMMA OfferPreserves ==
  ASSUME IInv, NEW k \in Gated, Offer(k)
  PROVE  Preserves
<1>1. /\ offered' \subseteq Capability /\ aborted' \subseteq Call
      /\ UNCHANGED <<target, stage, delivery, host, listening, settled, woken, finished, audit, ended>>
  BY DispatchAssumption DEF Offer, IInv, TypeOK
<1> QED BY <1>1, IdlePreserves

LEMMA FinishesPreserves ==
  ASSUME IInv, NEW c \in Call, NEW status \in Status, Finishes(c, status)
  PROVE  Preserves
<1> DEFINE taken == {d \in listening : settled[d] = Nothing /\ Owns(d, c)}
<1>0. /\ TypeOK /\ Staged(c) /\ Waited(c) /\ status # Nothing
      /\ host[c] # "none" /\ target[c] \in Completes /\ target[c] # Nothing /\ finished[c] = Nothing
      /\ UNCHANGED <<offered, target, stage, aborted, delivery, host, listening, audit, ended>>
  BY DispatchAssumption DEF Finishes, IInv
<1>1. /\ finished' = [finished EXCEPT ![c] = status]
      /\ settled' = [d \in Call |-> IF d \in taken THEN status ELSE settled[d]]
      /\ woken' = [d \in Call |-> IF d \in taken /\ stage[d] = "waiting" /\ woken[d] = Nothing
                                  THEN status ELSE woken[d]]
  BY DEF Finishes
<1>2. finished'[c] = status /\ \A d \in Call \ {c} : finished'[d] = finished[d]
  BY <1>0, <1>1 DEF TypeOK
<1>3. \A d \in taken : target[d] = target[c] /\ (target[c] \in Correlated => d = c)
  BY DEF Owns
<1>4. c \in listening /\ settled[c] = Nothing => c \in taken
  BY DEF Owns
<1> HIDE DEF taken
<1>5. ASSUME NEW d \in Call
      PROVE  /\ d \in taken => settled'[d] = status
             /\ d \notin taken => settled'[d] = settled[d]
             /\ woken'[d] = woken[d] \/ (d \in taken /\ stage[d] = "waiting" /\ woken[d] = Nothing)
             /\ d \in taken /\ stage[d] = "waiting" /\ woken[d] = Nothing => woken'[d] = status
  <2>1. settled'[d] = IF d \in taken THEN status ELSE settled[d]
    BY <1>1
  <2>2. woken'[d] = IF d \in taken /\ stage[d] = "waiting" /\ woken[d] = Nothing THEN status ELSE woken[d]
    BY <1>1
  <2> QED BY <2>1, <2>2
<1>6. TypeOK'
  <2>1. finished' \in [Call -> Status \cup {Nothing}] /\ settled' \in [Call -> Status \cup {Nothing}]
    BY <1>0, <1>1 DEF TypeOK
  <2>2. woken' \in [Call -> Status \cup {"timeout", "cancelled waiting", Nothing}]
    BY <1>0, <1>1 DEF TypeOK
  <2> QED BY <1>0, <2>1, <2>2 DEF TypeOK
<1>7. Steady
  BY <1>0, <1>2 DEF Steady
<1>8. ASSUME NEW d \in Call PROVE Staged(d)'
  <2>1. Staged(d) /\ (woken'[d] # woken[d] => stage[d] = "waiting")
    BY <1>5 DEF IInv
  <2> QED BY <1>0, <2>1 DEF Staged
<1>9. \A d \in taken : d \in Call => Reached(d, status)'
  <2> SUFFICES ASSUME NEW d \in Call, d \in taken PROVE Reached(d, status)'
    OBVIOUS
  <2>1. target'[d] = target'[c] /\ finished'[c] = status /\ (target'[c] \in Correlated => d = c)
    BY <1>0, <1>2, <1>3
  <2> QED BY <2>1 DEF Reached
<1>10. ASSUME NEW d \in Call PROVE Waited(d)'
  <2>0. Staged(d) /\ Waited(d) /\ TypeOK
    BY DEF IInv
  <2>1. finished'[d] # Nothing => host'[d] # "none" /\ target'[d] # Nothing
    BY <1>0, <1>2, <2>0 DEF Waited
  <2>2. stage'[d] \in {"sending", "waiting"} /\ finished'[d] # Nothing => settled'[d] # Nothing
    <3>1. CASE d = c
      BY <3>1, <1>0, <1>4, <1>5, <2>0 DEF Staged
    <3>2. CASE d # c
      BY <3>2, <1>0, <1>2, <1>5, <2>0 DEF Waited
    <3> QED BY <3>1, <3>2
  <2>3. stage'[d] = "waiting" /\ settled'[d] # Nothing => woken'[d] # Nothing
    BY <1>0, <1>5, <2>0 DEF Waited
  <2>4. ASSUME NEW was \in Status, was \in {settled[d], woken[d]}
        PROVE  target'[d] = target[d] /\ Reached(d, was)'
    <3>1. Reached(d, was) /\ stage[d] # "idle"
      BY <2>0, <2>4, DispatchAssumption DEF Waited, Staged
    <3> QED BY <1>0, <1>7, <3>1, ReachedStays
  <2>5. settled'[d] # Nothing => target'[d] # Nothing /\ Reached(d, settled[d])'
    <3>1. CASE d \in taken
      BY <3>1, <1>0, <1>3, <1>5, <1>9
    <3>2. CASE d \notin taken
      <4> SUFFICES ASSUME settled'[d] # Nothing PROVE target'[d] # Nothing /\ Reached(d, settled[d])'
        OBVIOUS
      <4> PICK was \in Status : was = settled[d] /\ was = settled'[d]
        BY <3>2, <1>5, <2>0 DEF TypeOK
      <4>1. Reached(d, was)'
        BY <2>4
      <4> QED BY <4>1, <1>0, <2>0, <3>2, <1>5 DEF Waited
    <3> QED BY <3>1, <3>2
  <2>6. woken'[d] \in Status => Reached(d, woken[d])'
    <3>1. CASE woken'[d] = woken[d]
      <4> SUFFICES ASSUME woken'[d] \in Status PROVE Reached(d, woken[d])'
        OBVIOUS
      <4> PICK was \in Status : was = woken[d] /\ was = woken'[d]
        BY <3>1
      <4>1. Reached(d, was)'
        BY <2>4
      <4> QED BY <4>1
    <3>2. CASE woken'[d] # woken[d]
      <4>1. d \in taken /\ woken'[d] = status
        BY <3>2, <1>5
      <4> QED BY <4>1, <1>9
    <3> QED BY <3>1, <3>2
  <2> QED BY <2>1, <2>2, <2>3, <2>5, <2>6 DEF Waited
<1> QED BY <1>0, <1>6, <1>7, <1>8, <1>10 DEF Preserves, Logged

(***************************************************************************)
(* AgentDispatch: the invariant and the theorems.                          *)
(***************************************************************************)

LEMMA InitIInv == Init => IInv
<1> SUFFICES ASSUME Init PROVE IInv
  OBVIOUS
<1>1. TypeOK
  BY DispatchAssumption DEF Init, TypeOK
<1>2. \A c \in Call : Staged(c) /\ Waited(c)
  BY DispatchAssumption DEF Init, Staged, Waited, Status
<1>3. \A i \in DOMAIN ended : Accounted(ended[i])
  <2>1. ended = <<>>
    BY DEF Init
  <2>2. DOMAIN ended = {}
    BY <2>1
  <2> QED BY <2>2
<1>4. AuditKeepsNewest
  <2>1. audit = <<>> /\ ended = <<>> /\ Len(<<>>) = 0 /\ Capacity \in Nat \ {0}
    BY DispatchAssumption, EmptySeq DEF Init
  <2>2. SubSeq(<<>>, 1, 0) = <<>>
    BY SubSeqEmpty
  <2> QED BY <2>1, <2>2 DEF AuditKeepsNewest
<1> QED BY <1>1, <1>2, <1>3, <1>4 DEF IInv

LEMMA NextPreserves == IInv /\ Next => Preserves
<1> SUFFICES ASSUME IInv, Next PROVE Preserves
  OBVIOUS
<1>1. ASSUME NEW c \in Call, NEW k \in Capability \cup {Nothing}, Dispatch(c, k) PROVE Preserves
  BY <1>1, DispatchPreserves
<1>2. ASSUME NEW c \in Call, Authorized(c) PROVE Preserves
  BY <1>2, AuthorizedPreserves
<1>3. ASSUME NEW c \in Call, HostAccepts(c) PROVE Preserves
  BY <1>3, HostAcceptsPreserves
<1>4. ASSUME NEW c \in Call, HostRaises(c) PROVE Preserves
  BY <1>4, HostRaisesPreserves
<1>5. ASSUME NEW c \in Call, Timeout(c) PROVE Preserves
  BY <1>5, TimeoutPreserves
<1>6. ASSUME NEW c \in Call, Abort(c) PROVE Preserves
  BY <1>6, AbortPreserves
<1>7. ASSUME NEW c \in Call, Return(c) PROVE Preserves
  BY <1>7, ReturnPreserves
<1>8. ASSUME NEW c \in Call, Interrupt(c) PROVE Preserves
  BY <1>8, InterruptPreserves
<1>9. ASSUME NEW c \in Call, NEW status \in Status, Finishes(c, status) PROVE Preserves
  BY <1>9, FinishesPreserves
<1>10. ASSUME NEW k \in Gated, Offer(k) PROVE Preserves
  BY <1>10, OfferPreserves
<1> QED BY <1>1, <1>2, <1>3, <1>4, <1>5, <1>6, <1>7, <1>8, <1>9, <1>10 DEF Next

\* A record stays true: the dispatch it tells of is over, and what the host was
\* sent and did is never taken back.
LEMMA AccountedStays ==
  ASSUME IInv, Steady, NEW entry \in Entry, Accounted(entry)
  PROVE  Accounted(entry)'
<1> DEFINE c == entry.call
<1>1. c \in Call /\ stage[c] = "done"
  BY DEF Entry, Accounted
<1>2. /\ stage'[c] = "done" /\ (host[c] = "none" => host'[c] = "none")
      /\ (host[c] = "accepted" => host'[c] = "accepted") /\ (host[c] # "none" => host'[c] # "none")
  BY <1>1 DEF Steady
<1>3. ASSUME entry.outcome \in Status PROVE Reached(entry.call, entry.outcome)'
  <2> PICK d \in Call, status \in Status : d = entry.call /\ status = entry.outcome
    BY <1>1, <1>3
  <2>1. Reached(d, status) /\ stage[d] # "idle"
    BY <1>1, <1>3 DEF Accounted
  <2>2. Reached(d, status)'
    BY <2>1, ReachedStays
  <2> QED BY <2>2
<1> QED BY <1>2, <1>3 DEF Accounted

LEMMA InvariantStep == IInv /\ [Next]_vars => IInv'
<1> SUFFICES ASSUME IInv, [Next]_vars PROVE IInv'
  OBVIOUS
<1>1. CASE Next
  <2>1. TypeOK' /\ Steady /\ (\A d \in Call : Staged(d)' /\ Waited(d)') /\ Logged
    BY <1>1, NextPreserves DEF Preserves
  <2>2. ended \in Seq(Entry) /\ \A i \in DOMAIN ended : ended[i] \in Entry /\ Accounted(ended[i])
    <3>1. ended \in Seq(Entry)
      BY DEF IInv, TypeOK
    <3> QED BY <3>1, LenProperties, ElementOfSeq DEF IInv
  <2>3. CASE UNCHANGED <<audit, ended>>
    <3>1. AuditKeepsNewest'
      BY <2>3 DEF IInv, AuditKeepsNewest
    <3>2. ASSUME NEW i \in DOMAIN ended' PROVE Accounted(ended[i])'
      <4> PICK entry \in Entry : entry = ended[i] /\ entry = ended'[i] /\ Accounted(entry)
        BY <2>2, <2>3
      <4>1. Accounted(entry)'
        BY <2>1, AccountedStays
      <4> QED BY <4>1
    <3> QED BY <2>1, <3>1, <3>2 DEF IInv
  <2>4. CASE \E entry \in Entry : /\ ended' = Append(ended, entry) /\ audit' = Kept(Append(audit, entry))
                                  /\ Accounted(entry)'
    <3> PICK last \in Entry : /\ ended' = Append(ended, last) /\ audit' = Kept(Append(audit, last))
                              /\ Accounted(last)'
      BY <2>4
    <3>1. AuditKeepsNewest'
      <4>1. audit = Newest(ended)
        BY DEF IInv, AuditKeepsNewest, Newest
      <4>2. Kept(Append(Newest(ended), last)) = Newest(Append(ended, last))
        BY <2>2, NewestKept
      <4>3. audit' = Newest(ended')
        BY <4>1, <4>2
      <4> QED BY <4>3 DEF AuditKeepsNewest, Newest
    <3>2. ASSUME NEW i \in DOMAIN ended' PROVE Accounted(ended[i])'
      <4>0. /\ DOMAIN ended = 1 .. Len(ended) /\ DOMAIN ended' = 1 .. Len(ended) + 1 /\ Len(ended) \in Nat
            /\ ended'[Len(ended) + 1] = last /\ \A j \in 1 .. Len(ended) : ended'[j] = ended[j]
        <5>1. ended' \in Seq(Entry) /\ Len(ended') = Len(ended) + 1
          BY <2>2, AppendProperties
        <5>2. DOMAIN ended' = 1 .. Len(ended')
          BY <5>1, LenProperties
        <5> QED BY <2>2, <5>1, <5>2, AppendProperties, LenProperties
      <4>1. CASE i = Len(ended) + 1
        BY <4>0, <4>1
      <4>2. CASE i \in DOMAIN ended
        <5> PICK entry \in Entry : entry = ended[i] /\ entry = ended'[i] /\ Accounted(entry)
          BY <2>2, <4>0, <4>2
        <5>1. Accounted(entry)'
          BY <2>1, AccountedStays
        <5> QED BY <5>1
      <4> QED BY <4>0, <4>1, <4>2
    <3> QED BY <2>1, <3>1, <3>2 DEF IInv
  <2> QED BY <2>1, <2>3, <2>4 DEF Logged
<1>2. CASE UNCHANGED vars
  <2>1. UNCHANGED <<offered, target, stage, aborted, delivery, host, listening, settled, woken, finished, audit, ended>>
    BY <1>2 DEF vars
  <2>2. TypeOK'
    BY <2>1 DEF IInv, TypeOK
  <2>3. \A c \in Call : Staged(c)' /\ Waited(c)'
    BY <2>1 DEF IInv, Staged, Waited, Reached
  <2>4. (\A i \in DOMAIN ended : Accounted(ended[i]))'
    BY <2>1 DEF IInv, Accounted, Reached
  <2>5. AuditKeepsNewest'
    BY <2>1 DEF IInv, AuditKeepsNewest
  <2> QED BY <2>2, <2>3, <2>4, <2>5 DEF IInv
<1> QED BY <1>1, <1>2

THEOREM DispatchInvariant == Spec => []IInv
<1>1. Init => IInv
  BY InitIInv
<1>2. IInv /\ [Next]_vars => IInv'
  BY InvariantStep
<1> QED BY <1>1, <1>2, PTL DEF Spec

\* Types, and a waiter is subscribed only between the send and the end.
THEOREM DispatchTypeCorrect == Spec => []TypeOK
<1>1. IInv => TypeOK
  BY DEF IInv
<1> QED BY <1>1, DispatchInvariant, PTL

\* What the records say, of delivery and of outcomes, is what happened; a
\* waiter that still waits has missed nothing; the log keeps the newest.
LEMMA RecordsAreTrue ==
  ASSUME IInv
  PROVE  TypeOK /\ AuditIsTrue /\ AuditKeepsNewest /\ NoCompletionMissed /\ OutcomeHappened
<1>1. TypeOK /\ AuditKeepsNewest
  BY DEF IInv
<1>2. AuditIsTrue
  BY DEF IInv, AuditIsTrue, Accounted
<1>3. NoCompletionMissed
  BY DEF IInv, NoCompletionMissed, Waited
<1>4. OutcomeHappened
  BY DEF IInv, OutcomeHappened, Accounted, Reached
<1> QED BY <1>1, <1>2, <1>3, <1>4

\* Every adapter's answer to a true record is true.
LEMMA AnswersAreTrue ==
  ASSUME IInv
  PROVE  SuccessIsAgreed /\ RejectedWasNotSent
<1>0. ASSUME NEW i \in DOMAIN ended PROVE ended[i] \in Entry /\ Accounted(ended[i])
  <2>1. ended \in Seq(Entry)
    BY DEF IInv, TypeOK
  <2> QED BY <2>1, LenProperties, ElementOfSeq DEF IInv
<1>1. SuccessIsAgreed
  <2> SUFFICES ASSUME NEW i \in DOMAIN ended
               PROVE  LET how == ended[i].outcome
                          ok  == McpAnswer(how) = "result"
                      IN  /\ ok = (A2aState(how) = "completed") /\ ok = ~WebMcpError(how) /\ ok = NativeOk(how)
                          /\ ok => ended[i].decision = "dispatched" /\ host[ended[i].call] = "accepted" /\ how # "failed"
    BY DEF SuccessIsAgreed
  <2> DEFINE how == ended[i].outcome
  <2>1. how \in Endings /\ Accounted(ended[i])
    BY <1>0 DEF Entry
  <2>2. SummaryOk(how) => ended[i].decision = "dispatched" /\ host[ended[i].call] = "accepted"
    BY <2>1 DEF SummaryOk, Accounted, Status
  <2> HIDE DEF how
  <2>3. (McpAnswer(how) = "result") <=> SummaryOk(how)
    BY DEF McpAnswer, SummaryOk
  <2>4. (A2aState(how) = "completed") <=> SummaryOk(how)
    BY <2>1 DEF A2aState, Failures, SummaryOk, Endings, Status
  <2>5. (~WebMcpError(how)) <=> SummaryOk(how)
    BY DEF WebMcpError, Failures, SummaryOk
  <2>6. NativeOk(how) <=> SummaryOk(how)
    BY DEF NativeOk, Failures, SummaryOk
  <2>7. SummaryOk(how) => how # "failed"
    BY DEF SummaryOk
  <2>8. (McpAnswer(how) = "result") = (A2aState(how) = "completed")
    BY <2>3, <2>4
  <2>9. (McpAnswer(how) = "result") = ~WebMcpError(how)
    BY <2>3, <2>5, Zenon
  <2>10. (McpAnswer(how) = "result") = NativeOk(how)
    BY <2>3, <2>6, Zenon DEF NativeOk
  <2> QED BY <2>2, <2>3, <2>7, <2>8, <2>9, <2>10, Zenon DEF how
<1>2. RejectedWasNotSent
  <2> SUFFICES ASSUME NEW i \in DOMAIN ended
               PROVE  LET how  == ended[i].outcome
                          sent == host[ended[i].call] # "none"
                      IN  /\ A2aState(how) = "rejected" \/ McpAnswer(how) = "protocol error" => ~sent
                          /\ how = "cancelled" => ~sent
                          /\ how = "cancelled waiting" => sent
    BY DEF RejectedWasNotSent
  <2> DEFINE how == ended[i].outcome
  <2>1. how \in Endings /\ Accounted(ended[i])
    BY <1>0 DEF Entry
  <2>2. how \in Refusals => host[ended[i].call] = "none"
    BY <2>1 DEF Accounted
  <2>3. how = "cancelled waiting" => host[ended[i].call] # "none"
    BY <2>1 DEF Accounted
  <2> HIDE DEF how
  <2>4. A2aState(how) = "rejected" => how \in Refusals
    BY DEF A2aState, Failures, Refusals
  <2>5. McpAnswer(how) = "protocol error" => how \in Refusals
    BY DEF McpAnswer, Refusals
  <2>6. how = "cancelled" => how \in Refusals
    BY DEF Refusals
  <2> QED BY <2>2, <2>3, <2>4, <2>5, <2>6 DEF how
<1> QED BY <1>1, <1>2

\* A call cancelled before its Message was sent is never sent: both checks of
\* the signal come last before the send.
THEOREM CancelledNeverSent == Spec => CancelledIsNotSent
<1> DEFINE Holds == \A c \in Call : c \in aborted /\ host[c] = "none" => host'[c] = "none"
<1>1. ASSUME IInv, [Next]_vars PROVE Holds
  <2> SUFFICES ASSUME NEW c \in Call, c \in aborted, host[c] = "none", Next PROVE host'[c] = "none"
    BY <1>1 DEF vars
  <2>0. TypeOK /\ DOMAIN host = Call
    BY <1>1 DEF IInv, TypeOK
  <2>s. ASSUME NEW d \in Call, NEW k, Sends(d, k) PROVE host'[c] = "none"
    <3>1. CASE \E why \in Refusals \cup {"defect"} : Refuse(d, why)
      BY <3>1 DEF Refuse
    <3>2. CASE UNCHANGED host
      BY <3>2
    <3>3. CASE d \notin aborted /\ Hand(d, k)
      <4>1. d # c /\ host' = [host EXCEPT ![d] = "holds"]
        BY <3>3 DEF Hand
      <4> QED BY <4>1, <2>0
    <3> QED BY <2>s, <3>1, <3>2, <3>3 DEF Sends
  <2>1. ASSUME NEW d \in Call, NEW k \in Capability \cup {Nothing}, Dispatch(d, k) PROVE host'[c] = "none"
    BY <2>0, <2>1, <2>s, DispatchSends
  <2>2. ASSUME NEW d \in Call, Authorized(d) PROVE host'[c] = "none"
    <3>1. target[d] \in Capability
      BY <1>1, <2>2 DEF Authorized, IInv, Staged
    <3> PICK k \in Capability : k = target[d]
      BY <3>1
    <3>2. Sends(d, k)
      BY <2>0, <2>2, <3>1, AuthorizedSends
    <3> QED BY <3>2, <2>s
  <2>3. ASSUME NEW d \in Call, HostAccepts(d) \/ HostRaises(d) PROVE host'[c] = "none"
    <3>1. d # c /\ (host' = [host EXCEPT ![d] = "accepted"] \/ host' = [host EXCEPT ![d] = "raised"])
      BY <2>3 DEF HostAccepts, HostRaises
    <3> QED BY <3>1, <2>0
  <2>4. ASSUME NEW d \in Call, Timeout(d) \/ Abort(d) \/ Return(d) \/ Interrupt(d) PROVE host'[c] = "none"
    BY <2>4 DEF Timeout, Abort, Return, Interrupt
  <2>5. ASSUME NEW d \in Call, NEW status \in Status, Finishes(d, status) PROVE host'[c] = "none"
    BY <2>5 DEF Finishes
  <2>6. ASSUME NEW k \in Gated, Offer(k) PROVE host'[c] = "none"
    BY <2>6 DEF Offer
  <2> QED BY <2>1, <2>2, <2>3, <2>4, <2>5, <2>6 DEF Next
<1>2. IInv /\ [Next]_vars => [Holds]_vars
  BY <1>1
<1> HIDE DEF Holds
<1>3. Spec => [][Holds]_vars
  BY <1>2, DispatchInvariant, PTL DEF Spec
<1> QED BY <1>3 DEF CancelledIsNotSent, Holds

\* The record of every dispatch, and what each adapter answers, is true of what
\* the host was sent and of what it did, however completion, timeout,
\* cancellation and interruption interleave.
THEOREM DispatchAlwaysAccountable == Spec => DispatchIsAccountable
<1>1. IInv => /\ TypeOK /\ AuditIsTrue /\ AuditKeepsNewest /\ NoCompletionMissed /\ OutcomeHappened
              /\ SuccessIsAgreed /\ RejectedWasNotSent
  BY RecordsAreTrue, AnswersAreTrue
<1> QED BY <1>1, DispatchInvariant, CancelledNeverSent, PTL DEF DispatchIsAccountable

(***************************************************************************)
(* WebMcpRegistration.  The invariant says where every tool a reconcile    *)
(* wants stands: registered, still to do, awaited or refused.  That nobody *)
(* waits for a turn then means that it wants what the Model has now.       *)
(***************************************************************************)

ToolsTypeOK ==
  /\ current \in SUBSET Tool /\ controllers \in SUBSET Tool /\ browser \in [Tool -> Int]
  /\ queued \in Nat /\ job \in Tools!Job \cup {Nothing}

\* How far the reconcile that runs has come: what it wants is registered,
\* to do, awaited or was refused; while nobody waits it wants what is current.
ToolsJob ==
  job # Nothing =>
    /\ job.awaits \notin controllers \cup job.todo \cup job.refused
    /\ job.phase = "read" => job.awaits = Nothing /\ job.refused = {}
    /\ job.phase = "registering" /\ ~disposed =>
         /\ (controllers \cup job.todo) \cap job.refused = {}
         /\ controllers \cup job.todo \cup ({job.awaits} \cap Tool) \subseteq job.wanted
         /\ job.wanted \subseteq controllers \cup job.todo \cup {job.awaits} \cup job.refused
    /\ queued = 0 /\ ~disposed => job.wanted = current

\* Who is at rest after a read that succeeded has what the Model has;
\* unregister left nothing recorded.
ToolsRest ==
  /\ disposed => controllers = {}
  /\ ~disposed /\ job = Nothing /\ queued = 0 /\ ~unread => controllers = current \ failed

ToolsInv == ToolsTypeOK /\ Tools!RegisteredOnce /\ ToolsJob /\ ToolsRest

\* Nothing is registered before the first reconcile, which is queued.
LEMMA ToolsInitially == ASSUME Tools!Init PROVE ToolsInv
<1>1. ToolsTypeOK /\ job = Nothing /\ controllers = {} /\ queued = 1
  BY DEF ToolsTypeOK, Tools!Init
<1>2. Tools!RegisteredOnce
  BY <1>1 DEF Tools!Init, Tools!RegisteredOnce
<1> QED BY <1>1, <1>2 DEF ToolsInv, ToolsJob, ToolsRest

\* Each await of a reconcile, each change of the Model and unregister keep it.
LEMMA ToolsStep == ASSUME ToolsInv, [Tools!Next]_(Tools!vars) PROVE ToolsInv'
<1> USE ToolsAssumption DEF ToolsInv, ToolsTypeOK
<1>1. CASE Tools!Begin
  <2> USE <1>1 DEF Tools!Begin, Tools!Started
  <2>1. ToolsTypeOK'
    BY DEF Tools!Job
  <2>2. Tools!RegisteredOnce'
    BY DEF Tools!RegisteredOnce, ToolsJob, Tools!Job
  <2>3. ToolsJob'
    BY DEF ToolsJob, Tools!Job
  <2>4. ToolsRest'
    BY DEF ToolsJob, ToolsRest, Tools!Job
  <2> QED BY <2>1, <2>2, <2>3, <2>4
<1>2. CASE Tools!Withdraw
  <2>0. job \in Tools!Job /\ job.phase = "read" /\ UNCHANGED <<current, disposed, queued, failed, unread>>
    BY <1>2 DEF Tools!Withdraw, Tools!Job
  <2>1. job' = [wanted |-> job.wanted, todo |-> job.wanted, awaits |-> job.awaits,
                refused |-> job.refused, phase |-> "registering"]
    BY <1>2, <2>0 DEF Tools!Withdraw, Tools!Job
  <2>6. job' \in Tools!Job /\ job' # Nothing
    BY <2>0, <2>1 DEF Tools!Job
  <2>2. ToolsTypeOK'
    BY <1>2, <2>0, <2>1 DEF Tools!Withdraw, Tools!Aborted, Tools!Job
  <2>3. Tools!RegisteredOnce'
    BY <1>2, <2>0, <2>1 DEF Tools!Withdraw, Tools!Aborted, Tools!RegisteredOnce, ToolsJob
  <2>4. ToolsJob'
    BY <1>2, <2>0, <2>1 DEF Tools!Withdraw, ToolsJob, Tools!Job
  <2>5. ToolsRest'
    BY <1>2, <2>0, <2>6 DEF Tools!Withdraw, ToolsRest
  <2> QED BY <2>2, <2>3, <2>4, <2>5
<1>3. CASE Tools!Register
  <2> DEFINE left == job.todo \ controllers
  <2>0. /\ job \in Tools!Job /\ job # Nothing /\ job.wanted \subseteq Tool
        /\ job.awaits = Nothing /\ job.phase = "registering"
    BY <1>3 DEF Tools!Register, Tools!Job
  <2>1. CASE disposed \/ left = {}
    <3>1. job' = Nothing /\ failed' = job.refused /\ UNCHANGED <<current, controllers, browser, disposed, queued, unread>>
      BY <1>3, <2>1 DEF Tools!Register, Tools!Finished
    <3>2. ~disposed => controllers = job.wanted \ job.refused
      BY <2>0, <2>1 DEF ToolsJob
    <3>3. Tools!RegisteredOnce'
      BY <2>0, <3>1 DEF Tools!RegisteredOnce
    <3> QED BY <2>0, <3>1, <3>2, <3>3 DEF ToolsJob, ToolsRest
  <2>2. CASE ~(disposed \/ left = {})
    <3>1. PICK t \in Tool : t \in left /\ job' = [job EXCEPT !.awaits = t, !.todo = left \ {t}]
                           /\ browser' = [browser EXCEPT ![t] = @ + 1] /\ UNCHANGED failed
      BY <1>3, <2>2 DEF Tools!Register, Tools!First
    <3>2. job' = [wanted |-> job.wanted, todo |-> left \ {t}, awaits |-> t, refused |-> job.refused, phase |-> job.phase]
      BY <2>0, <3>1 DEF Tools!Job
    <3>3. ~disposed /\ UNCHANGED <<current, controllers, disposed, queued, unread>> /\ t \notin controllers
      BY <1>3, <2>2, <3>1 DEF Tools!Register
    <3>8. job' \in Tools!Job /\ job' # Nothing
      BY <2>0, <3>2 DEF Tools!Job
    <3>4. ToolsTypeOK'
      BY <2>0, <3>1, <3>2, <3>3 DEF Tools!Job
    <3>5. Tools!RegisteredOnce'
      <4>1. \A u \in Tool : browser'[u] = IF u = t THEN browser[t] + 1 ELSE browser[u]
        BY <3>1
      <4>2. browser[t] = 0
        BY <2>0, <3>3 DEF Tools!RegisteredOnce
      <4>3. \A u \in Tool : u # t => browser[u] = IF u \in controllers THEN 1 ELSE 0
        BY <2>0, <3>3 DEF Tools!RegisteredOnce
      <4> QED BY <3>2, <3>3, <3>8, <4>1, <4>2, <4>3 DEF Tools!RegisteredOnce
    <3>6. ToolsJob'
      BY <2>0, <3>1, <3>2, <3>3, <3>8 DEF ToolsJob
    <3>7. ToolsRest'
      BY <3>3, <3>8 DEF ToolsRest
    <3> QED BY <3>4, <3>5, <3>6, <3>7
  <2> QED BY <2>1, <2>2
<1>4. CASE Tools!Refused
  <2>0. job \in Tools!Job /\ job.awaits \in Tool /\ UNCHANGED <<current, controllers, disposed, queued, failed, unread>>
    BY <1>4 DEF Tools!Refused, Tools!Job
  <2>1. job' = [wanted |-> job.wanted, todo |-> job.todo, awaits |-> Nothing,
                refused |-> job.refused \cup {job.awaits}, phase |-> job.phase]
    BY <1>4, <2>0 DEF Tools!Refused, Tools!Job
  <2>6. job' \in Tools!Job /\ job' # Nothing
    BY <2>0, <2>1 DEF Tools!Job
  <2>2. ToolsTypeOK'
    BY <1>4, <2>0, <2>1 DEF Tools!Refused, Tools!Job
  <2>3. Tools!RegisteredOnce'
    BY <1>4, <2>0, <2>1 DEF Tools!Refused, Tools!RegisteredOnce, ToolsJob
  <2>4. ToolsJob'
    <3>1. job.phase = "registering"
      BY <2>0 DEF ToolsJob, Tools!Job
    <3> QED BY <2>0, <2>1, <2>6, <3>1 DEF ToolsJob, Tools!Job
  <2>5. ToolsRest'
    BY <2>0, <2>6 DEF ToolsRest
  <2> QED BY <2>2, <2>3, <2>4, <2>5
<1>5. CASE Tools!Accepted
  BY <1>5 DEF Tools!Accepted, Tools!Finished, Tools!Job, ToolsJob, ToolsRest, Tools!RegisteredOnce
<1>6. CASE Tools!Change
  BY <1>6 DEF Tools!Change, Tools!Enqueue, Tools!Job, ToolsJob, ToolsRest, Tools!RegisteredOnce
<1>7. CASE Tools!Unregister
  BY <1>7 DEF Tools!Unregister, Tools!Aborted, Tools!Job, ToolsJob, ToolsRest, Tools!RegisteredOnce
<1>8. CASE Tools!ReadRejected
  BY <1>8 DEF Tools!ReadRejected, Tools!Job, ToolsJob, ToolsRest, Tools!RegisteredOnce
<1>9. CASE Tools!Refresh
  BY <1>9 DEF Tools!Refresh, Tools!Enqueue, Tools!Job, ToolsJob, ToolsRest, Tools!RegisteredOnce
<1>10. CASE UNCHANGED Tools!vars
  BY <1>10 DEF Tools!vars, Tools!Job, ToolsJob, ToolsRest, Tools!RegisteredOnce
<1> QED BY <1>1, <1>2, <1>3, <1>4, <1>5, <1>6, <1>7, <1>8, <1>9, <1>10 DEF Tools!Next

\* For any tools, order of variants, changes of the Model, calls of refresh,
\* failed reads and refusals of the browser, wherever unregister falls
\* (register.ts runReconcile, refresh, unregister): no tool is registered twice,
\* every registration is recorded or awaited, and a registration at rest whose
\* last read succeeded offers the Model's tools but for those refused.
THEOREM ToolsAlwaysCurrent == Tools!Spec => []ToolsAreCurrent
<1>1. Tools!Init => ToolsInv
  BY ToolsInitially
<1>2. ToolsInv /\ [Tools!Next]_(Tools!vars) => ToolsInv'
  BY ToolsStep
<1>3. ToolsInv => ToolsAreCurrent
  BY ToolsAssumption DEF ToolsInv, ToolsTypeOK, ToolsRest, ToolsAreCurrent, Tools!SettledIsCurrent, Tools!Quiet, Tools!RegisteredOnce
<1> QED BY <1>1, <1>2, <1>3, PTL DEF Tools!Spec

(***************************************************************************)
(* A2aTasks.  The invariant: the table holds an id once, only of tasks     *)
(* that were sent, and says of each what its client was told last.         *)
(***************************************************************************)

TaskEntry == [id : Task, state : Tasks!State]

TaskTable == {s \in Seq(TaskEntry) : \A i, j \in DOMAIN s : s[i].id = s[j].id => i = j}

\* What the table says of a task is what its one entry says.
LEMMA EntryIsState ==
  ASSUME NEW s \in TaskTable, NEW i \in DOMAIN s PROVE Tasks!StateOf(s, s[i].id) = s[i].state
<1> DEFINE r == CHOOSE r \in Tasks!ToSet(s) : r.id = s[i].id
<1>1. s[i] \in Tasks!ToSet(s)
  BY DEF Tasks!ToSet
<1>2. r \in Tasks!ToSet(s) /\ r.id = s[i].id
  BY <1>1
<1>3. r = s[i]
  BY <1>2 DEF TaskTable, Tasks!ToSet
<1> QED BY <1>3 DEF Tasks!StateOf

\* What remembering t leaves behind: t with its state, the others as they were.
KeptBut(s, next, t) ==
  /\ Tasks!Held(next) \subseteq Tasks!Held(s) \cup {t}
  /\ \A u \in Tasks!Held(next) \ {t} : Tasks!StateOf(next, u) = Tasks!StateOf(s, u)

\* tasks.set of a key the table knows keeps its place; a new one is appended,
\* and pushes out no other than the oldest.
LEMMA Remembering ==
  ASSUME NEW s \in TaskTable, Len(s) <= TaskCapacity, NEW t \in Task, NEW state \in Tasks!State,
         NEW next, next = Tasks!Remember(s, t, state)
  PROVE  /\ next \in TaskTable /\ Len(next) <= TaskCapacity
         /\ t \in Tasks!Held(next) /\ Tasks!StateOf(next, t) = state
         /\ KeptBut(s, next, t)
         /\ Len(s) <= Len(next) /\ (Tasks!Held(s) \subseteq Tasks!Held(next) \/ Len(next) = TaskCapacity)
<1>0. s \in Seq(TaskEntry) /\ TaskCapacity \in Nat /\ TaskCapacity >= 1 /\ Len(s) \in Nat
  BY TasksAssumption DEF TaskTable
<1>1. CASE t \in Tasks!Held(s)
  <2> DEFINE put(i) == IF s[i].id = t THEN [s[i] EXCEPT !.state = state] ELSE s[i]
  <2>1. next = [i \in DOMAIN s |-> put(i)]
    BY <1>1 DEF Tasks!Remember
  <2>2. ASSUME NEW i \in DOMAIN s
        PROVE  /\ put(i) \in TaskEntry /\ put(i).id = s[i].id
               /\ put(i).state = IF s[i].id = t THEN state ELSE s[i].state
    <3>1. s[i] \in TaskEntry
      BY <1>0
    <3> QED BY <3>1 DEF TaskEntry
  <2>3. next \in Seq(TaskEntry) /\ DOMAIN next = DOMAIN s /\ Len(next) = Len(s)
    BY <1>0, <2>1, <2>2
  <2>4. \A i \in DOMAIN s : next[i].id = s[i].id /\ next[i].state = IF s[i].id = t THEN state ELSE s[i].state
    BY <2>1, <2>2
  <2>5. next \in TaskTable
    BY <2>3, <2>4 DEF TaskTable
  <2>6. Tasks!Held(next) = Tasks!Held(s)
    BY <2>3, <2>4 DEF Tasks!Held
  <2>7. \A i \in DOMAIN s : Tasks!StateOf(next, s[i].id) = IF s[i].id = t THEN state ELSE Tasks!StateOf(s, s[i].id)
    BY <2>3, <2>4, <2>5, EntryIsState
  <2>8. \A u \in Tasks!Held(s) : Tasks!StateOf(next, u) = IF u = t THEN state ELSE Tasks!StateOf(s, u)
    BY <2>7 DEF Tasks!Held
  <2> QED BY <1>0, <1>1, <2>3, <2>5, <2>6, <2>8 DEF KeptBut
<1>2. CASE t \notin Tasks!Held(s)
  <2> DEFINE entry == [id |-> t, state |-> state]
             longer == Append(s, entry)
  <2>0. entry \in TaskEntry /\ entry.id = t /\ entry.state = state
    BY DEF TaskEntry
  <2>1. \A i \in DOMAIN s : s[i].id # t
    BY <1>2 DEF Tasks!Held
  <2>2. longer \in Seq(TaskEntry) /\ Len(longer) = Len(s) + 1 /\ DOMAIN longer = 1 .. (Len(s) + 1)
        /\ DOMAIN s = 1 .. Len(s)
        /\ \A i \in DOMAIN longer : longer[i] = IF i = Len(s) + 1 THEN entry ELSE s[i]
    BY <1>0, <2>0
  <2> HIDE DEF entry
  <2>3. longer \in TaskTable
    <3> HIDE DEF longer
    <3> SUFFICES ASSUME NEW i \in DOMAIN longer, NEW j \in DOMAIN longer, longer[i].id = longer[j].id PROVE i = j
      BY <2>2 DEF TaskTable
    <3> QED BY <1>0, <2>0, <2>1, <2>2 DEF TaskTable
  <2>4. PICK k \in {0, 1} : /\ next \in Seq(TaskEntry) /\ Len(next) = Len(longer) - k /\ Len(next) <= TaskCapacity
                            /\ Len(next) >= 1 /\ DOMAIN next = 1 .. Len(next)
                            /\ \A i \in DOMAIN next : next[i] = longer[i + k]
                            /\ k = 1 => Len(next) = TaskCapacity
    <3> HIDE DEF longer
    <3>1. CASE Len(longer) > TaskCapacity
      <4>1. next = Tail(longer)
        BY <1>2, <3>1 DEF Tasks!Remember, longer, entry
      <4>2. Tail(longer) \in Seq(TaskEntry) /\ Len(Tail(longer)) = Len(longer) - 1
            /\ \A i \in 1 .. (Len(longer) - 1) : Tail(longer)[i] = longer[i + 1]
        BY <1>0, <2>2, HeadTailProperties
      <4> QED BY <1>0, <2>2, <3>1, <4>1, <4>2
    <3>2. CASE ~(Len(longer) > TaskCapacity)
      <4>1. next = longer
        BY <1>2, <3>2 DEF Tasks!Remember, longer, entry
      <4> QED BY <1>0, <2>2, <3>2, <4>1
    <3> QED BY <3>1, <3>2
  <2> HIDE DEF longer
  <2>5. \A i \in DOMAIN next : i + k \in DOMAIN longer
    BY <1>0, <2>2, <2>4
  <2>6. next \in TaskTable
    BY <2>3, <2>4, <2>5 DEF TaskTable
  <2>7. next[Len(next)] = entry /\ Len(next) \in DOMAIN next
    BY <1>0, <2>2, <2>4
  <2>8. t \in Tasks!Held(next) /\ Tasks!StateOf(next, t) = state
    BY <2>0, <2>6, <2>7, EntryIsState DEF Tasks!Held
  <2>9. \A i \in DOMAIN next : next[i] = entry \/ (i + k \in DOMAIN s /\ next[i] = s[i + k])
    BY <1>0, <2>2, <2>4, <2>5
  <2>10. Tasks!Held(next) \subseteq Tasks!Held(s) \cup {t}
    BY <2>0, <2>9 DEF Tasks!Held
  <2>11. \A u \in Tasks!Held(next) \ {t} : Tasks!StateOf(next, u) = Tasks!StateOf(s, u)
    <3> SUFFICES ASSUME NEW i \in DOMAIN next, next[i].id # t
                 PROVE  Tasks!StateOf(next, next[i].id) = Tasks!StateOf(s, next[i].id)
      BY DEF Tasks!Held
    <3> QED BY <2>0, <2>6, <2>9, EntryIsState
  <2>12. Len(s) <= Len(next)
    BY <1>0, <2>2, <2>4
  <2>13. k = 0 => Tasks!Held(s) \subseteq Tasks!Held(next)
    <3> SUFFICES ASSUME k = 0, NEW i \in DOMAIN s PROVE \E j \in DOMAIN next : next[j].id = s[i].id
      BY DEF Tasks!Held
    <3>1. i \in DOMAIN next /\ next[i] = longer[i] /\ longer[i] = s[i]
      BY <1>0, <2>2, <2>4
    <3> QED BY <3>1
  <2> QED BY <2>4, <2>6, <2>8, <2>10, <2>11, <2>12, <2>13 DEF KeptBut
<1> QED BY <1>1, <1>2

TasksTypeOK ==
  /\ tasks \in TaskTable /\ Len(tasks) <= TaskCapacity
  /\ running \in SUBSET Task /\ signalled \in SUBSET Task /\ sends \in [Task -> {"idle", "running", "answered"}]
  /\ told \in [Task -> Tasks!State \cup {Nothing}]

\* The table holds only what was sent, works on what has a controller, and says
\* what a client was told last; a send is beyond a cancel only when its task was
\* pushed out of the full table or its dispatch was aborted.
TasksInv ==
  /\ TasksTypeOK
  /\ \A t \in Tasks!Held(tasks) : sends[t] # "idle"
  /\ \A t \in Tasks!Held(tasks) : IF Tasks!StateOf(tasks, t) = "working" THEN t \in running
                                 ELSE sends[t] = "running" => t \in signalled
  /\ \A t \in Task : told[t] \in Tasks!Terminal => sends[t] # "idle"
  /\ \A t \in Tasks!Held(tasks) : told[t] \in Tasks!Terminal => Tasks!StateOf(tasks, t) = told[t]
  /\ \A t \in Task : sends[t] = "running" /\ told[t] \in Tasks!Terminal => t \in signalled
  /\ running \subseteq {t \in Task : sends[t] = "running"}
  /\ \A t \in Task : sends[t] = "running" => t \in running \cup signalled
  /\ \A t \in running \ Tasks!Held(tasks) : Len(tasks) = TaskCapacity

\* A table without repeated ids has as many ids as entries.
LEMMA OneEntryEach == ASSUME NEW s \in TaskTable PROVE Tasks!Cardinality(Tasks!Held(s)) = Len(s)
<1> DEFINE f == [i \in 1 .. Len(s) |-> s[i].id]
<1>1. s \in Seq(TaskEntry) /\ DOMAIN s = 1 .. Len(s) /\ Len(s) \in Nat
  BY DEF TaskTable
<1>2. f \in Bijection(1 .. Len(s), Tasks!Held(s))
  <2>1. \A i \in 1 .. Len(s) : f[i] = s[i].id
    OBVIOUS
  <2>2. f \in [1 .. Len(s) -> Tasks!Held(s)]
    BY <1>1 DEF Tasks!Held
  <2>3. \A a, b \in 1 .. Len(s) : f[a] = f[b] => a = b
    BY <1>1, <2>1 DEF TaskTable
  <2>4. \A h \in Tasks!Held(s) : \E a \in 1 .. Len(s) : f[a] = h
    BY <1>1, <2>1 DEF Tasks!Held
  <2> QED BY <2>2, <2>3, <2>4, Fun_IsBij
<1>3. IsFiniteSet(1 .. Len(s)) /\ Cardinality(1 .. Len(s)) = Len(s)
  BY <1>1, FS_Interval
<1> HIDE DEF f
<1>4. ExistsBijection(1 .. Len(s), Tasks!Held(s))
  BY <1>2 DEF ExistsBijection
<1>5. Cardinality(Tasks!Held(s)) = Len(s)
  BY <1>3, <1>4, FS_Bijection
<1> QED BY <1>5 DEF Tasks!Cardinality, Cardinality

LEMMA TasksInitially == Tasks!Init => TasksInv
BY TasksAssumption DEF Tasks!Init, TasksInv, TasksTypeOK, TaskTable, Tasks!Held, Tasks!Terminal, Tasks!State

\* The client of t is told nothing that contradicts an outcome it knows, but by
\* the answer of an aborted send whose task left the table.
Stands(t) ==
  told[t] \in Tasks!Terminal =>
    told'[t] = told[t] \/ (sends[t] = "running" /\ t \in signalled \ Tasks!Held(tasks))

LEMMA TasksStep == ASSUME TasksInv, [Tasks!Next]_(Tasks!vars) PROVE TasksInv' /\ \A t \in Task : Stands(t)
<1> USE DEF TasksInv, TasksTypeOK
<1>0. Tasks!Terminal \subseteq Tasks!State /\ Tasks!State = {"working"} \cup Tasks!Terminal
      /\ "working" \notin Tasks!Terminal /\ "canceled" \in Tasks!Terminal
  BY DEF Tasks!Terminal, Tasks!State
<1>6. \A t \in Tasks!Held(tasks) : t \in Task /\ Tasks!StateOf(tasks, t) \in Tasks!State
  <2> SUFFICES ASSUME NEW i \in DOMAIN tasks
               PROVE  tasks[i].id \in Task /\ Tasks!StateOf(tasks, tasks[i].id) \in Tasks!State
    BY DEF Tasks!Held
  <2>1. tasks[i] \in TaskEntry
    BY DEF TaskTable
  <2> QED BY <2>1, EntryIsState DEF TaskEntry
<1>1. CASE Tasks!Close
  <2>1. tasks' \in TaskTable /\ tasks' = <<>> /\ Tasks!Held(tasks') = {} /\ Len(tasks') <= TaskCapacity
    BY <1>1, TasksAssumption DEF Tasks!Close, Tasks!Held, TaskTable
  <2> QED BY <1>1, <2>1 DEF Tasks!Close, Stands
<1>7. Len(tasks) \in Nat /\ TaskCapacity \in Nat
  BY TasksAssumption DEF TaskTable
\* A step that remembers t, and lets others run that ran.
<1>8. ASSUME NEW t \in Task, NEW state \in Tasks!State, tasks' = Tasks!Remember(tasks, t, state),
             sends' \in [Task -> {"idle", "running", "answered"}], told' \in [Task -> Tasks!State \cup {Nothing}],
             running' \in SUBSET Task, signalled' \in SUBSET Task, signalled \subseteq signalled',
             \A u \in Task \ {t} : /\ sends'[u] = sends[u] /\ told'[u] = told[u]
                                   /\ u \in running' <=> u \in running,
             sends'[t] # "idle", t \in running' => sends'[t] = "running",
             IF state = "working" THEN t \in running' ELSE sends'[t] = "running" => t \in signalled',
             sends'[t] = "running" => t \in running' \cup signalled',
             told'[t] \in Tasks!Terminal => told'[t] = state
      PROVE  TasksInv'
  <2>1. /\ tasks' \in TaskTable /\ Len(tasks') <= TaskCapacity
        /\ t \in Tasks!Held(tasks') /\ Tasks!StateOf(tasks', t) = state /\ KeptBut(tasks, tasks', t)
        /\ Len(tasks) <= Len(tasks') /\ (Tasks!Held(tasks) \subseteq Tasks!Held(tasks') \/ Len(tasks') = TaskCapacity)
    BY <1>8, Remembering
  <2>2. \A u \in Tasks!Held(tasks') : u = t \/ (u \in Task \ {t} /\ u \in Tasks!Held(tasks)
                                                 /\ Tasks!StateOf(tasks', u) = Tasks!StateOf(tasks, u))
    BY <1>6, <2>1 DEF KeptBut
  <2>3. Len(tasks') \in Nat
    BY <2>1 DEF TaskTable
  <2>4. \A u \in running' \ Tasks!Held(tasks') : Len(tasks') = TaskCapacity
    <3> SUFFICES ASSUME NEW u \in running', u \notin Tasks!Held(tasks') PROVE Len(tasks') = TaskCapacity
      OBVIOUS
    <3>1. u \in running
      BY <1>8, <2>1
    <3> QED BY <1>7, <2>1, <2>3, <3>1
  <2>5. TasksTypeOK'
    BY <1>8, <2>1
  <2>6. \A u \in Task : /\ told'[u] \in Tasks!Terminal => sends'[u] # "idle"
                        /\ sends'[u] = "running" => u \in running' \cup signalled'
                        /\ sends'[u] = "running" /\ told'[u] \in Tasks!Terminal => u \in signalled'
    <3> SUFFICES ASSUME NEW u \in Task
                 PROVE  /\ told'[u] \in Tasks!Terminal => sends'[u] # "idle"
                        /\ sends'[u] = "running" => u \in running' \cup signalled'
                        /\ sends'[u] = "running" /\ told'[u] \in Tasks!Terminal => u \in signalled'
      OBVIOUS
    <3> QED BY <1>0, <1>8
  <2>7. running' \subseteq {u \in Task : sends'[u] = "running"}
    BY <1>8
  <2>8. \A u \in Tasks!Held(tasks') :
          /\ sends'[u] # "idle"
          /\ IF Tasks!StateOf(tasks', u) = "working" THEN u \in running' ELSE sends'[u] = "running" => u \in signalled'
          /\ told'[u] \in Tasks!Terminal => Tasks!StateOf(tasks', u) = told'[u]
    <3> SUFFICES ASSUME NEW u \in Tasks!Held(tasks')
                 PROVE  /\ sends'[u] # "idle"
                        /\ IF Tasks!StateOf(tasks', u) = "working" THEN u \in running' ELSE sends'[u] = "running" => u \in signalled'
                        /\ told'[u] \in Tasks!Terminal => Tasks!StateOf(tasks', u) = told'[u]
      OBVIOUS
    <3>1. CASE u = t
      BY <1>8, <2>1, <3>1
    <3>2. CASE u # t
      BY <1>8, <2>2, <3>2
    <3> QED BY <3>1, <3>2
  <2> QED BY <2>4, <2>5, <2>6, <2>7, <2>8
<1>2. ASSUME NEW t \in Task, Tasks!Send(t) PROVE TasksInv' /\ told' = told
  BY <1>0, <1>2, <1>8 DEF Tasks!Send
<1>3. ASSUME NEW t \in Task, Tasks!Get(t) PROVE TasksInv' /\ \A u \in Task : told[u] \in Tasks!Terminal => told'[u] = told[u]
  <2>1. \A u \in Task : told'[u] = IF u = t THEN Tasks!StateOf(tasks, t) ELSE told[u]
    BY <1>3 DEF Tasks!Get
  <2>2. t \in Tasks!Held(tasks) /\ UNCHANGED <<tasks, running, sends, signalled>>
        /\ told' = [told EXCEPT ![t] = Tasks!StateOf(tasks, t)]
    BY <1>3 DEF Tasks!Get
  <2> QED BY <1>0, <1>6, <2>1, <2>2
<1>4. ASSUME NEW t \in Task, Tasks!Cancel(t) PROVE TasksInv' /\ told[t] \notin Tasks!Terminal /\ \A u \in Task \ {t} : told'[u] = told[u]
  <2>1. t \in Tasks!Held(tasks) /\ Tasks!StateOf(tasks, t) = "working"
    BY <1>0, <1>4, <1>6 DEF Tasks!Cancel
  <2>2. t \in running /\ sends[t] = "running" /\ told[t] \notin Tasks!Terminal
    BY <1>0, <2>1
  <2>3. /\ tasks' = Tasks!Remember(tasks, t, "canceled") /\ running' = running /\ sends' = sends
        /\ signalled' = signalled \cup {t} /\ told' = [told EXCEPT ![t] = "canceled"]
    BY <1>4, <2>2 DEF Tasks!Cancel
  <2> QED BY <1>0, <1>8, <2>2, <2>3
<1>5. ASSUME NEW t \in Task, NEW outcome \in Tasks!Terminal, Tasks!Answer(t, outcome)
      PROVE  TasksInv' /\ Stands(t) /\ \A u \in Task \ {t} : told'[u] = told[u]
  <2>1. CASE t \in Tasks!Held(tasks) /\ Tasks!StateOf(tasks, t) \in Tasks!Terminal
    <3>1. tasks' = tasks /\ told' = [told EXCEPT ![t] = Tasks!StateOf(tasks, t)] /\ signalled' = signalled
          /\ sends' = [sends EXCEPT ![t] = "answered"] /\ running' = running \ {t}
      BY <1>5, <2>1 DEF Tasks!Answer, Tasks!Settled
    <3> QED BY <1>0, <1>6, <2>1, <3>1 DEF Stands
  <2>2. CASE ~(t \in Tasks!Held(tasks) /\ Tasks!StateOf(tasks, t) \in Tasks!Terminal)
    <3>1. /\ tasks' = Tasks!Remember(tasks, t, outcome) /\ signalled' = signalled
          /\ told' = [told EXCEPT ![t] = Tasks!StateOf(tasks', t)] /\ sends[t] = "running"
          /\ sends' = [sends EXCEPT ![t] = "answered"] /\ running' = running \ {t}
      BY <1>5, <2>2 DEF Tasks!Answer, Tasks!Settled
    <3>2. Tasks!StateOf(tasks', t) = outcome
      BY <1>0, <3>1, Remembering
    <3>3. told'[t] = outcome /\ sends'[t] = "answered" /\ outcome # "working" /\ outcome \in Tasks!State
      BY <1>0, <3>1, <3>2
    <3>4. told' \in [Task -> Tasks!State \cup {Nothing}] /\ sends' \in [Task -> {"idle", "running", "answered"}]
      BY <3>1, <3>2, <3>3
    <3>5. TasksInv'
      BY <1>8, <3>1, <3>3, <3>4
    <3>6. told[t] \in Tasks!Terminal => t \in signalled \ Tasks!Held(tasks)
      BY <2>2, <3>1
    <3> QED BY <3>1, <3>5, <3>6 DEF Stands
  <2> QED BY <2>1, <2>2
<1>9. CASE UNCHANGED Tasks!vars
  BY <1>9 DEF Tasks!vars, Tasks!Held, Stands
<1> HIDE DEF TasksInv
<1>10. ASSUME NEW t \in Task,
              Tasks!Send(t) \/ Tasks!Get(t) \/ Tasks!Cancel(t) \/ \E outcome \in Tasks!Terminal : Tasks!Answer(t, outcome)
       PROVE  TasksInv' /\ \A u \in Task : Stands(u)
  BY <1>2, <1>3, <1>4, <1>5, <1>10 DEF Stands
<1> QED BY <1>1, <1>9, <1>10 DEF Tasks!Next

\* For any capacity and tasks (handler.ts): the table holds a task once and no
\* more than it may; a task it shows as working has the controller a cancel
\* aborts, and a send under way is beyond a cancel only when the full table pushed
\* its task out or it was aborted; an outcome a client was told stands, in whatever
\* order the dispatch, cancels and closes settle it, until the answer of an
\* aborted send whose task left the table, which may differ.
THEOREM TasksAlwaysTrue == Tasks!Spec => TasksStayTrue
<1>1. Tasks!Init => TasksInv
  BY TasksInitially
<1>2. TasksInv /\ [Tasks!Next]_(Tasks!vars) => TasksInv'
  BY TasksStep
<1>3. TasksInv => Tasks!TasksAreReachable
  <2> SUFFICES ASSUME TasksInv PROVE Tasks!TasksAreReachable
    OBVIOUS
  <2>1. Tasks!Cardinality(Tasks!Held(tasks)) = Len(tasks)
    BY OneEntryEach DEF TasksInv, TasksTypeOK
  <2> QED BY <2>1 DEF TasksInv, TasksTypeOK, Tasks!TasksAreReachable
<1>4. TasksInv /\ [Tasks!Next]_(Tasks!vars) => [\A t \in Task : Stands(t)]_(Tasks!vars)
  BY TasksStep
<1>5. TasksInv /\ [Tasks!Next]_(Tasks!vars) =>
        [\A t \in Task : told[t] \in Tasks!Terminal =>
           \/ told'[t] = told[t]
           \/ sends[t] = "running" /\ t \in signalled \ Tasks!Held(tasks)]_(Tasks!vars)
  BY <1>4 DEF Stands
<1> QED BY <1>1, <1>2, <1>3, <1>5, PTL DEF Tasks!Spec, TasksStayTrue, Tasks!ToldIsFinal

(***************************************************************************)
(* AgentContract.  Construction looks at every declaration once; what it   *)
(* looked at still holds of what it built, since nothing changes later.    *)
(***************************************************************************)

Checked ==
  /\ \A i \in DOMAIN declared : Contracts!Exposable(declared[i])
  /\ Contracts!UniqueNames(declared) /\ Contracts!Distinct(resourceNames) /\ Contracts!Bindable(declared)

ContractInv ==
  /\ \A i \in DOMAIN declared : declared[i] \in Declaration
  /\ resourceNames \in Seq(ResourceName)
  /\ Contracts!Built => /\ Checked
                       /\ contract.variants = [i \in DOMAIN declared |-> Contracts!Compiled(declared[i])]

LEMMA ContractInitially == Contracts!Init => ContractInv
<1> SUFFICES ASSUME Contracts!Init PROVE ContractInv
  OBVIOUS
<1>1. PICK d \in Declaration, e \in Declaration : declared = <<d, e>>
  BY DEF Contracts!Init
<1>2. \A i \in DOMAIN declared : declared[i] \in Declaration
  BY <1>1
<1>3. resourceNames \in Seq(ResourceName)
  <2>1. PICK n \in 0 .. 2 : resourceNames \in [1 .. n -> ResourceName]
    BY DEF Contracts!Init
  <2> QED BY <2>1
<1>4. ~Contracts!Built
  BY DEF Contracts!Init, Contracts!Built
<1> QED BY <1>2, <1>3, <1>4 DEF ContractInv

LEMMA ContractStep == ContractInv /\ [Contracts!Next]_(Contracts!contractVars) => ContractInv'
<1> SUFFICES ASSUME ContractInv, [Contracts!Next]_(Contracts!contractVars) PROVE ContractInv'
  OBVIOUS
<1>1. CASE Contracts!Build
  <2>0. declared' = declared /\ resourceNames' = resourceNames /\ observing' = observing
    BY <1>1 DEF Contracts!Build
  <2>1. contract' = IF Checked
                    THEN [outcome |-> "built", variants |-> [i \in DOMAIN declared |-> Contracts!Compiled(declared[i])]]
                    ELSE [outcome |-> "refused", variants |-> <<>>]
    BY <1>1, Zenon DEF Contracts!Build, Checked
  <2>2. CASE Checked
    <3>1. contract'.variants = [i \in DOMAIN declared |-> Contracts!Compiled(declared[i])]
      BY <2>1, <2>2
    <3>2. Checked'
      BY <2>0, <2>2 DEF Checked, Contracts!Bindable
    <3>3. [i \in DOMAIN declared |-> Contracts!Compiled(declared[i])]' = [i \in DOMAIN declared |-> Contracts!Compiled(declared[i])]
      BY <2>0
    <3> QED BY <2>0, <3>1, <3>2, <3>3 DEF ContractInv
  <2>3. CASE ~Checked
    <3>1. contract'.outcome = "refused"
      BY <2>1, <2>3
    <3> QED BY <2>0, <3>1 DEF ContractInv, Contracts!Built
  <2> QED BY <2>2, <2>3
<1>2. CASE UNCHANGED Contracts!contractVars
  <2>1. declared' = declared /\ resourceNames' = resourceNames /\ observing' = observing /\ contract' = contract
    BY <1>2 DEF Contracts!contractVars
  <2> QED BY <2>1 DEF ContractInv, Contracts!Built, Checked, Contracts!Bindable
<1> QED BY <1>1, <1>2 DEF Contracts!Next

\* What is compiled from a declaration.
LEMMA CompiledIs ==
  ASSUME NEW d
  PROVE  LET c == Contracts!Compiled(d)
         IN  /\ c.name = Contracts!NameOf(d) /\ c.accepts = Contracts!InputAccepts(d)
             /\ c.advertises = Contracts!Advertised(d)
             /\ c.success = d.success /\ c.failure = d.failure /\ c.completes = d.completes
BY DEF Contracts!Compiled

\* A schema accepts the one shape it advertises, be it a payload or an input
\* of its own, with fields or without.
LEMMA SchemasAgree == ASSUME NEW d \in Declaration PROVE Contracts!InputAccepts(d) = Contracts!Advertised(d)
BY ContractAssumption
DEF Contracts!InputAccepts, Contracts!Advertised, Contracts!ClosedAccepts, Contracts!StructAccepts

\* The list of resources has no name twice, and has those that can be read.
LEMMA ListsWhatIsRead ==
  ASSUME resourceNames \in Seq(ResourceName), Contracts!Distinct(resourceNames)
  PROVE  /\ Contracts!Distinct(Contracts!Listed)
         /\ \A name \in ResourceName :
              (name \in Contracts!ToSet(Contracts!Listed)) <=> (Contracts!ReadFrom(name) # "error")
<1> DEFINE L == Contracts!Listed
<1>0. /\ DOMAIN resourceNames = 1 .. Len(resourceNames) /\ Len(resourceNames) \in Nat
      /\ \A i, j \in DOMAIN resourceNames : resourceNames[i] = resourceNames[j] => i = j
  BY DEF Contracts!Distinct
<1>1. CASE projecting /\ ~Contracts!ContextDeclared
  <2>1. L = <<"context">> \o resourceNames
    BY <1>1 DEF Contracts!Listed
  <2>2. /\ DOMAIN L = 1 .. Len(resourceNames) + 1 /\ L[1] = "context"
        /\ \A i \in DOMAIN L \ {1} : i - 1 \in DOMAIN resourceNames /\ L[i] = resourceNames[i - 1]
        /\ \A i \in DOMAIN resourceNames : i + 1 \in DOMAIN L /\ L[i + 1] = resourceNames[i]
    <3> HIDE DEF L
    <3> QED BY <1>0, <2>1
  <2>3. \A i \in DOMAIN resourceNames : resourceNames[i] # "context"
    BY <1>1 DEF Contracts!ContextDeclared
  <2> HIDE DEF L
  <2>4. \A i, j \in DOMAIN L : L[i] = L[j] => i = j
    BY <1>0, <2>2, <2>3
  <2>5. \A name : name \in Contracts!ToSet(L) <=> (name = "context" \/ \E i \in DOMAIN resourceNames : resourceNames[i] = name)
    BY <1>0, <2>2 DEF Contracts!ToSet
  <2> QED BY <1>1, <2>4, <2>5 DEF L, Contracts!Distinct, Contracts!ReadFrom
<1>2. CASE ~(projecting /\ ~Contracts!ContextDeclared)
  <2>1. L = resourceNames
    BY <1>2 DEF Contracts!Listed
  <2>2. \A name : name \in Contracts!ToSet(L) <=> \E i \in DOMAIN resourceNames : resourceNames[i] = name
    BY <2>1 DEF Contracts!ToSet
  <2>3. \A i, j \in DOMAIN L : L[i] = L[j] => i = j
    BY <1>0, <2>1
  <2> HIDE DEF L
  <2>4. \A name : Contracts!ReadFrom(name) # "error" <=> \E i \in DOMAIN resourceNames : resourceNames[i] = name
    BY <1>2 DEF Contracts!ReadFrom, Contracts!ContextDeclared
  <2> QED BY <2>2, <2>3, <2>4 DEF L, Contracts!Distinct
<1> QED BY <1>1, <1>2

LEMMA BuiltIsTrue == ContractInv => ContractIsTrue
<1> SUFFICES ASSUME ContractInv PROVE ContractIsTrue
  OBVIOUS
<1>1. CASE ~Contracts!Built
  BY <1>1 DEF ContractIsTrue, Contracts!NamesAreUnambiguous, Contracts!CompletionsAreDecidable,
              Contracts!AdvertisedIsAccepted, Contracts!ListedIsReadable
<1>2. CASE Contracts!Built
  <2> DEFINE vs == contract.variants
  <2>1. /\ Checked /\ DOMAIN vs = DOMAIN declared
        /\ \A i \in DOMAIN declared : declared[i] \in Declaration /\ vs[i] = Contracts!Compiled(declared[i])
    BY <1>2 DEF ContractInv
  <2> HIDE DEF vs
  <2>2. \A i \in DOMAIN declared :
          /\ vs[i].name = Contracts!NameOf(declared[i]) /\ vs[i].accepts = Contracts!InputAccepts(declared[i])
          /\ vs[i].advertises = Contracts!Advertised(declared[i]) /\ vs[i].success = declared[i].success
          /\ vs[i].failure = declared[i].failure /\ vs[i].completes = declared[i].completes
    BY <2>1, CompiledIs
  <2>3. \A i, j \in DOMAIN vs : (vs[i].name = vs[j].name => i = j) /\ Contracts!ValidName(vs[i].name)
    <3>1. \A i, j \in DOMAIN declared : Contracts!NameOf(declared[i]) = Contracts!NameOf(declared[j]) => i = j
      BY <2>1 DEF Checked, Contracts!UniqueNames, Contracts!Distinct
    <3>2. \A i \in DOMAIN declared : Contracts!ValidName(Contracts!NameOf(declared[i]))
      BY <2>1 DEF Checked, Contracts!Exposable
    <3> QED BY <2>1, <2>2, <3>1, <3>2
  <2>4. \A i \in DOMAIN vs : vs[i].completes =>
          observing /\ vs[i].success # {} /\ vs[i].success \cap vs[i].failure = {}
    <3>1. \A i \in DOMAIN declared : Contracts!Decidable(declared[i])
      BY <2>1 DEF Checked, Contracts!Exposable
    <3>2. observing \/ \A i \in DOMAIN declared : ~declared[i].completes
      BY <2>1 DEF Checked, Contracts!Bindable
    <3> SUFFICES ASSUME NEW i \in DOMAIN declared, vs[i].completes
                 PROVE  observing /\ vs[i].success # {} /\ vs[i].success \cap vs[i].failure = {}
      BY <2>1
    <3>3. declared[i].completes
      BY <2>2
    <3> QED BY <2>2, <3>1, <3>2, <3>3 DEF Contracts!Decidable
  <2>5. \A i \in DOMAIN vs : vs[i].accepts = vs[i].advertises
    BY <2>1, <2>2, SchemasAgree
  <2>6. Contracts!ListedIsReadable
    BY <2>1, ListsWhatIsRead DEF Checked, ContractInv, Contracts!ListedIsReadable
  <2> QED BY <2>3, <2>4, <2>5, <2>6
          DEF vs, ContractIsTrue, Contracts!NamesAreUnambiguous, Contracts!CompletionsAreDecidable,
              Contracts!AdvertisedIsAccepted
<1> QED BY <1>1, <1>2

\* Whatever an application declares (expose.ts, naming.ts, completion.ts,
\* make.ts, bind): a contract that was built has names that are valid and name
\* one capability, completions that can be decided, schemas that accept what
\* they advertise, and resources that are listed if they can be read.
THEOREM ContractAlwaysTrue == Contracts!Spec => []ContractIsTrue
<1>1. Contracts!Init => ContractInv
  BY ContractInitially
<1>2. ContractInv /\ [Contracts!Next]_(Contracts!contractVars) => ContractInv'
  BY ContractStep
<1>3. ContractInv => ContractIsTrue
  BY BuiltIsTrue
<1> QED BY <1>1, <1>2, <1>3, PTL DEF Contracts!Spec

(***************************************************************************)
(* McpSessions.  The invariant has four parts: StreamsInv (histories are   *)
(* disjoint and grow in order, streams and transports agree on who carries *)
(* whom), HeardInv (who received or may still receive each event),         *)
(* ReadsInv (what the last read begun saw) and CallsInv.                   *)
(***************************************************************************)

(***************************************************************************)
(* Places in a sequence.                                                   *)
(***************************************************************************)

\* A bounded set of naturals has a last element.
LEMMA LastPlace ==
  ASSUME NEW n \in Nat, NEW S \in SUBSET (1 .. n), S # {}
  PROVE  /\ Sessions!Max(S) \in S /\ \A j \in S : j <= Sessions!Max(S)
         /\ Sessions!Min(S) \in S /\ \A j \in S : j >= Sessions!Min(S)
<1>1. ASSUME NEW T \in SUBSET Nat, T # {} PROVE \E x \in T : \A y \in T : x <= y
  <2>1. PICK x \in T : \A y \in T : ~(<<y, x>> \in OpToRel(<, Nat))
    BY <1>1, NatLessThanWellFounded, WFMin
  <2>2. ASSUME NEW y \in T PROVE x <= y
    <3>1. x \in Nat /\ y \in Nat
      OBVIOUS
    <3>2. ~(y < x)
      BY <2>1, <3>1 DEF OpToRel
    <3> QED BY ONLY <3>1, <3>2
  <2> QED BY <2>2
<1>2. \E x \in S : \A y \in S : x <= y
  BY <1>1
<1>3. \E x \in S : \A y \in S : x >= y
  <2> DEFINE T == {n - i : i \in S}
  <2>0. \A i \in S : i \in 1 .. n /\ n - i \in Nat
    OBVIOUS
  <2>1. T \in SUBSET Nat /\ T # {}
    BY <2>0
  <2>2. PICK x \in T : \A y \in T : x <= y
    BY <1>1, <2>1
  <2>3. PICK i \in S : x = n - i
    BY <2>2
  <2>4. \A j \in S : n - j \in T /\ j \in Nat
    BY <2>0
  <2>5. \A j \in S : n - i <= n - j
    BY <2>2, <2>3, <2>4
  <2> QED BY <2>5
<1> QED BY <1>2, <1>3 DEF Sessions!Max, Sessions!Min

\* at says from which of the places of s each entry of w is.
TakenFrom(at, w, s, places) ==
  /\ at \in [1 .. Len(w) -> places]
  /\ \A k \in 1 .. Len(w) : w[k] = s[at[k]]
  /\ \A j, k \in 1 .. Len(w) : j < k => at[j] < at[k]
  /\ \A i \in places : \E k \in 1 .. Len(w) : at[k] = i

\* Filtering keeps the entries at those places, each at one place, in their order.
LEMMA FilteredFacts ==
  ASSUME NEW E, NEW s \in Seq(E), NEW places \in SUBSET (DOMAIN s)
  PROVE  /\ Sessions!Filtered(s, places) \in Seq(E)
         /\ \E at : TakenFrom(at, Sessions!Filtered(s, places), s, places)
<1> DEFINE Rank(i) == Cardinality({j \in places : j <= i})
           size == Cardinality(places)
           At(n) == CHOOSE i \in places : Rank(i) = n
           rank == [i \in places |-> Rank(i)]
           w == [n \in 1 .. size |-> s[At(n)]]
<1>1. DOMAIN s = 1 .. Len(s) /\ Len(s) \in Nat /\ \A i \in 1 .. Len(s) : s[i] \in E
  OBVIOUS
<1>2. places \in SUBSET (1 .. Len(s)) /\ IsFiniteSet(places) /\ size \in Nat
  <2>1. places \in SUBSET (1 .. Len(s))
    BY <1>1
  <2>2. IsFiniteSet(1 .. Len(s))
    BY <1>1, FS_Interval
  <2> QED BY <2>1, <2>2, FS_Subset, FS_CardinalityType
<1>3. ASSUME NEW i \in places PROVE Rank(i) \in 1 .. size
  <2> DEFINE S == {j \in places : j <= i}
  <2>1. IsFiniteSet(S) /\ Cardinality(S) <= size /\ Cardinality(S) \in Nat
    BY <1>2, FS_Subset, FS_CardinalityType
  <2>2. i \in S
    BY <1>2
  <2>3. Cardinality(S) # 0
    BY <2>1, <2>2, FS_EmptySet
  <2> QED BY <2>1, <2>3, <1>2
<1>4. ASSUME NEW i \in places, NEW j \in places, i < j PROVE Rank(i) < Rank(j)
  <2> DEFINE S == {k \in places : k <= i}
             T == {k \in places : k <= j}
  <2>1. IsFiniteSet(T) /\ Cardinality(T) \in Nat
    BY <1>2, FS_Subset, FS_CardinalityType
  <2>2. S \in SUBSET T /\ j \in T /\ j \notin S
    BY <1>2, <1>4
  <2>3. Cardinality(S) <= Cardinality(T) /\ Cardinality(S) # Cardinality(T)
    BY <2>1, <2>2, FS_Subset
  <2>4. Cardinality(S) \in Nat
    BY <2>1, <2>2, FS_Subset, FS_CardinalityType
  <2> QED BY <2>1, <2>3, <2>4
<1>5. w = Sessions!Filtered(s, places)
  BY DEF Sessions!Filtered, Sessions!Cardinality, Cardinality
<1> HIDE DEF Rank, size
<1>6. ASSUME NEW i \in places, NEW j \in places, Rank(i) = Rank(j) PROVE i = j
  <2>1. i \in Nat /\ j \in Nat /\ Rank(i) \in Nat
    BY <1>2, <1>3
  <2> QED BY <2>1, <1>4, <1>6
<1>7. rank \in [places -> 1 .. size]
  BY <1>3
<1>8. rank \in Injection(places, 1 .. size)
  BY <1>6, <1>7 DEF Injection, IsInjective
<1>9. IsFiniteSet(1 .. size) /\ Cardinality(1 .. size) = size
  BY <1>2, FS_Interval
<1>10. rank \in Surjection(places, 1 .. size)
  BY <1>8, <1>9, FS_Injection DEF size
<1>11. ASSUME NEW n \in 1 .. size PROVE At(n) \in places /\ Rank(At(n)) = n
  <2>1. \E i \in places : Rank(i) = n
    BY <1>10 DEF Surjection
  <2> QED BY <2>1
<1> HIDE DEF At, rank
<1>12. \A n \in 1 .. size : w[n] = s[At(n)] /\ w[n] \in E
  BY <1>1, <1>2, <1>11
<1>13. w \in Seq(E) /\ Len(w) = size /\ DOMAIN w = 1 .. size
  BY <1>2, <1>12
<1> DEFINE at == [k \in 1 .. size |-> At(k)]
<1>14. at \in [1 .. size -> places] /\ \A k \in 1 .. size : at[k] = At(k)
  BY <1>11
<1>15. ASSUME NEW j \in 1 .. size, NEW k \in 1 .. size, j < k PROVE at[j] < at[k]
  <2>1. At(j) \in places /\ At(k) \in places /\ Rank(At(j)) = j /\ Rank(At(k)) = k /\ At(j) \in Nat /\ At(k) \in Nat
    BY <1>2, <1>11
  <2>2. ~(At(k) < At(j)) /\ At(k) # At(j)
    <3>1. At(k) < At(j) => Rank(At(k)) < Rank(At(j))
      BY <2>1, <1>4
    <3> QED BY <2>1, <3>1, <1>15
  <2> QED BY <2>1, <2>2, <1>14
<1>16. ASSUME NEW i \in places PROVE \E k \in 1 .. size : at[k] = i
  <2>1. Rank(i) \in 1 .. size
    BY <1>3
  <2>2. At(Rank(i)) = i
    BY <2>1, <1>6, <1>11
  <2> QED BY <2>1, <2>2, <1>14
<1> HIDE DEF w, at
<1>17. /\ \A k \in 1 .. size : w[k] = s[at[k]]
       /\ \A j, k \in 1 .. size : j < k => at[j] < at[k]
       /\ \A i \in places : \E k \in 1 .. size : at[k] = i
  BY <1>12, <1>14, <1>15, <1>16
<1>18. TakenFrom(at, w, s, places)
  BY <1>13, <1>14, <1>17 DEF TakenFrom
<1> QED BY <1>5, <1>13, <1>18

(***************************************************************************)
(* McpSessions.  The invariant: the ids of a session's streams and the     *)
(* events in their histories never repeat; a stream's subscriber is the    *)
(* attached transport that says so, and the other way round; what a        *)
(* transport got, or is to get, is older than the next event.              *)
(***************************************************************************)

Increasing(log) == \A j, k \in DOMAIN log : j < k => log[j] < log[k]

Below(log, n) == \A k \in DOMAIN log : log[k] < n

Above(log, n) == \A k \in DOMAIN log : n < log[k]

\* The streams of a session's record r.  A session whose one history is not the
\* first it opened keeps no events: forget leaves the newest otherwise.
StreamsOK(r) ==
  /\ 0 < r.next
  /\ r.opened # 0 /\ ReplayBuffer # 0 => Len(r.streams) # 0 /\ (Len(r.streams) = 1 => r.opened = 1)
  /\ \A i, j \in DOMAIN r.streams : r.streams[i].id = r.streams[j].id => i = j
  /\ \A i \in DOMAIN r.streams : /\ r.streams[i].id < r.opened
                                 /\ Increasing(r.streams[i].log) /\ Below(r.streams[i].log, r.next)
                                 /\ Above(r.streams[i].log, 0) /\ Len(r.streams[i].log) <= ReplayBuffer
  /\ \A i, j \in DOMAIN r.streams : i # j =>
       \A k \in DOMAIN r.streams[i].log, l \in DOMAIN r.streams[j].log : r.streams[i].log[k] # r.streams[j].log[l]

\* Stream id of r carries c.
Carries(r, id, c) == \E i \in DOMAIN r.streams : r.streams[i].id = id /\ r.streams[i].subscriber = c

StreamsTypeOK ==
  /\ sessions \in [Session -> Sessions!Recorded \cup {Nothing}]
  /\ conns \in [Conn -> Sessions!Response \cup {Nothing}]
  /\ dropped \in SUBSET Session /\ clock \in Nat /\ toolset \in Nat

ConnOK(c) ==
  /\ conns[c].session \in Sessions!Live \cup dropped
  /\ Increasing(conns[c].got)
  /\ conns[c].state = "answered" =>
       /\ conns[c].got = <<>> /\ Increasing(conns[c].backlog)
       /\ conns[c].session \in Sessions!Live => Below(conns[c].backlog, sessions[conns[c].session].next)
  /\ conns[c].state = "attached" =>
       /\ conns[c].session \in Sessions!Live
       /\ Below(conns[c].got, sessions[conns[c].session].next)
       /\ Carries(sessions[conns[c].session], conns[c].stream, c)

StreamsInv ==
  /\ StreamsTypeOK
  /\ Sessions!Live \cap dropped = {}
  /\ \A s \in Sessions!Live : StreamsOK(sessions[s])
  /\ \A s \in Sessions!Live : \A i \in DOMAIN sessions[s].streams : \A c \in Conn :
       sessions[s].streams[i].subscriber = c =>
         conns[c] # Nothing /\ conns[c].state = "attached" /\ conns[c].session = s /\ conns[c].stream = sessions[s].streams[i].id
  /\ \A c \in Conn : conns[c] # Nothing => ConnOK(c)

\* The record r of a session has stream id, and event e in its history.
Names(r, id) == \E i \in DOMAIN r.streams : r.streams[i].id = id

Holds(r, id, e) ==
  \E i \in DOMAIN r.streams : r.streams[i].id = id /\ \E k \in DOMAIN r.streams[i].log : r.streams[i].log[k] = e

\* A transport of stream id of session s got e or missed it in the window
\* between its GET's answer and its subscription.
HeardOn(s, id, e) ==
  \E d \in Conn : /\ conns[d] # Nothing /\ conns[d].session = s /\ conns[d].stream = id
                  /\ e \in Sessions!Got(d) \/ Sessions!InWindow(d, e)

Told(c) == Sessions!Got(c) \cup Sessions!ToSet(conns[c].backlog)

\* What c knows is of the past of its session, whose record is r, and of its own
\* stream.
Past(c, r) ==
  /\ conns[c].stream < r.opened /\ conns[c].from < r.next
  /\ conns[c].asked <= r.next /\ conns[c].joined <= r.next
  /\ \A e \in Told(c) : e < r.next /\ \A id \in Nat : Holds(r, id, e) => id = conns[c].stream

\* Every event e in the history of c's stream was heard there before c resumed
\* from its cursor, is in the answer to come, or was got or missed by c; a
\* transport that does not carry its stream may still find it there.
Covered(c, r) ==
  \A e \in Nat : Holds(r, conns[c].stream, e) =>
    /\ e <= conns[c].from => HeardOn(conns[c].session, conns[c].stream, e)
    /\ conns[c].state = "answered" /\ conns[c].from < e /\ e < conns[c].asked => e \in Told(c)
    /\ conns[c].state # "answered" /\ conns[c].from < e =>
         \/ e \in Sessions!Got(c) \/ Sessions!InWindow(c, e)
         \/ conns[c].state # "attached" /\ \A g \in Sessions!Got(c) : g < e

\* A transport of c's session got e.
Heard(s, e) == \E d \in Conn : conns[d] # Nothing /\ conns[d].session = s /\ e \in Sessions!Got(d)

Accompanied(c, r) ==
  conns[c].state = "attached" =>
    \A e \in Nat : conns[c].joined <= e /\ e < r.next => Heard(conns[c].session, e)

\* Another transport took over the stream of c.
Displaced(c) ==
  \E d \in Conn \ {c} : /\ conns[d] # Nothing /\ conns[d].state # "answered"
                        /\ conns[d].session = conns[c].session /\ conns[d].stream = conns[c].stream

HeardOK(c) ==
  /\ \A e \in Told(c) : conns[c].from < e
  /\ conns[c].state = "displaced" => Displaced(c)
  /\ \A s \in Sessions!Live : s = conns[c].session =>
       /\ Past(c, sessions[s]) /\ Covered(c, sessions[s]) /\ Accompanied(c, sessions[s])
       /\ conns[c].state = "orphan" => ~Names(sessions[s], conns[c].stream)

HeardInv == \A c \in Conn : conns[c] # Nothing => HeardOK(c)

\* From r to q no stream lost or changed its subscriber, ids only grow, and a
\* history takes no event but the next.
Grown(r, q) ==
  /\ StreamsOK(q) /\ r.next <= q.next /\ q.next <= r.next + 1 /\ r.opened <= q.opened
  /\ \A c \in Conn, id \in Nat : Carries(r, id, c) <=> Carries(q, id, c)
  /\ \A id \in Nat : Names(q, id) => Names(r, id) \/ r.opened <= id
  /\ \A id \in Nat, e \in Nat : Holds(q, id, e) => Holds(r, id, e) \/ (e = r.next /\ r.next < q.next)

LEMMA LiveIs ==
  ASSUME StreamsTypeOK, NEW s \in Sessions!Live
  PROVE  s \in Session /\ sessions[s] \in Sessions!Recorded
BY DEF StreamsTypeOK, Sessions!Live

\* Ending the transports of dropped sessions ends those that are attached to
\* one of them, and no other.
LEMMA Ending ==
  ASSUME StreamsInv, NEW gone \in SUBSET Sessions!Live
  PROVE  /\ Sessions!EndConns(gone) \in [Conn -> Sessions!Response \cup {Nothing}]
         /\ \A c \in Conn :
              IF conns[c] # Nothing /\ conns[c].state = "attached" /\ conns[c].session \in gone
              THEN Sessions!EndConns(gone)[c] = [conns[c] EXCEPT !.state = "ended"]
              ELSE Sessions!EndConns(gone)[c] = conns[c]
<1>1. DOMAIN conns = Conn /\ \A c \in Conn : conns[c] # Nothing => conns[c] \in Sessions!Response
  BY DEF StreamsInv, StreamsTypeOK
<1>2. ASSUME NEW c \in Conn, conns[c] # Nothing, conns[c].state = "attached", conns[c].session \in gone
      PROVE  c \in Sessions!Attached(gone)
  <2>1. Carries(sessions[conns[c].session], conns[c].stream, c)
    BY <1>2 DEF StreamsInv, ConnOK
  <2> QED BY <1>2, <2>1 DEF Carries, Sessions!Attached
<1>3. ASSUME NEW c \in Sessions!Attached(gone)
      PROVE  c \in Conn /\ conns[c] # Nothing /\ conns[c].state = "attached" /\ conns[c].session \in gone
  <2>1. PICK s \in gone : \E i \in DOMAIN sessions[s].streams : sessions[s].streams[i].subscriber = c
    BY DEF Sessions!Attached
  <2>2. c \in Conn
    BY DEF Sessions!Attached
  <2> QED BY <2>1, <2>2 DEF StreamsInv
<1>4. \A c \in Conn : Sessions!EndConns(gone)[c] =
        IF c \in Sessions!Attached(gone) THEN [conns[c] EXCEPT !.state = "ended"] ELSE conns[c]
  BY <1>1 DEF Sessions!EndConns
<1>5. ASSUME NEW c \in Conn
      PROVE IF conns[c] # Nothing /\ conns[c].state = "attached" /\ conns[c].session \in gone
            THEN Sessions!EndConns(gone)[c] = [conns[c] EXCEPT !.state = "ended"]
            ELSE Sessions!EndConns(gone)[c] = conns[c]
  BY <1>2, <1>3, <1>4
<1>6. ASSUME NEW c \in Conn PROVE Sessions!EndConns(gone)[c] \in Sessions!Response \cup {Nothing}
  <2>1. conns[c] # Nothing => [conns[c] EXCEPT !.state = "ended"] \in Sessions!Response
    BY <1>1 DEF Sessions!Response
  <2> QED BY <1>1, <1>5, <2>1
<1>7. Sessions!EndConns(gone) = [c \in Conn |-> Sessions!EndConns(gone)[c]]
  BY <1>1 DEF Sessions!EndConns
<1> QED BY <1>5, <1>6, <1>7

LEMMA Ended ==
  ASSUME StreamsInv, NEW gone \in SUBSET Sessions!Live, NEW c \in Conn, NEW k, k = Sessions!EndConns(gone)[c]
  PROVE  k = conns[c] \/ (k = [conns[c] EXCEPT !.state = "ended"] /\ conns[c].state = "attached")
<1>1. IF conns[c] # Nothing /\ conns[c].state = "attached" /\ conns[c].session \in gone
      THEN k = [conns[c] EXCEPT !.state = "ended"] ELSE k = conns[c]
  BY Ending
<1> QED BY <1>1

\* The GET of c is answered, with what its stream has for it.
Answers(c) ==
  /\ conns[c] = Nothing /\ conns'[c].state = "answered" /\ conns'[c].got = <<>>
  /\ conns'[c].session \in Sessions!Live \cap Sessions!Live'
  /\ Increasing(conns'[c].backlog) /\ Below(conns'[c].backlog, sessions'[conns'[c].session].next)
  /\ HeardOK(c)'

\* c, which is attached, gets the event that its session emits, on its stream.
Receives(c) ==
  LET s == conns[c].session IN
    /\ conns[c] # Nothing /\ conns[c].state = "attached" /\ s \in Sessions!Live'
    /\ conns'[c] = [conns[c] EXCEPT !.got = Append(@, sessions[s].next)]
    /\ sessions[s].next < sessions'[s].next
    /\ \A id \in Nat : Holds(sessions'[s], id, sessions[s].next) => id = conns[c].stream

\* An event that s emits reaches a transport of s if one is attached, and each
\* attached transport whose stream takes it.
Emits(s) ==
  \A c \in Conn : conns[c] # Nothing /\ conns[c].state = "attached" /\ conns[c].session = s =>
    /\ \E d \in Conn : Receives(d) /\ conns[d].session = s
    /\ Holds(sessions'[s], conns[c].stream, sessions[s].next) => Receives(c)

\* The sessions gone are dropped; others may be made anew or grow, a GET may be
\* answered and an event may go to the transport that waits for it.
Refreshes(gone) ==
  /\ gone \in SUBSET Sessions!Live /\ dropped' = dropped \cup gone /\ StreamsTypeOK'
  /\ \A s \in Sessions!Live \ gone : /\ sessions'[s] # Nothing /\ Grown(sessions[s], sessions'[s])
                                     /\ sessions'[s].next = sessions[s].next \/ Emits(s)
  /\ \A s \in Session \ (Sessions!Live \ gone) :
       sessions'[s] = Nothing \/ (s \notin Sessions!Live \cup dropped /\ sessions'[s].streams = <<>> /\ StreamsOK(sessions'[s]))
  /\ \A c \in Conn : conns'[c] = Sessions!EndConns(gone)[c] \/ Answers(c) \/ Receives(c)

LEMMA Refreshed ==
  ASSUME StreamsInv, NEW gone, Refreshes(gone)
  PROVE  StreamsInv'
<1> DEFINE L == Sessions!Live
           kept == L \ gone
           E(c) == Sessions!EndConns(gone)[c]
<1>0. gone \in SUBSET L /\ dropped' = dropped \cup gone /\ StreamsTypeOK'
  BY DEF Refreshes
<1>1. /\ kept \subseteq L' /\ kept \subseteq Session
      /\ \A s \in L' \ kept : s \notin L \cup dropped /\ sessions'[s].streams = <<>> /\ StreamsOK(sessions'[s]) /\ s \notin gone
      /\ \A s \in kept : Grown(sessions[s], sessions'[s])
      /\ L \cap L' = kept
  BY <1>0 DEF Sessions!Live, Refreshes
<1>2. L' \cap dropped' = {}
  BY <1>0, <1>1 DEF StreamsInv
<1>3. \A s \in L' : StreamsOK(sessions'[s])
  <2> SUFFICES ASSUME NEW s \in L' PROVE StreamsOK(sessions'[s])
    OBVIOUS
  <2>1. CASE s \in kept
    BY <1>1, <2>1 DEF Grown
  <2>2. CASE s \notin kept
    BY <1>1, <2>2
  <2> QED BY <2>1, <2>2
<1>4. /\ \A s \in L : sessions[s] \in Sessions!Recorded
      /\ \A s \in L' : sessions'[s] \in Sessions!Recorded
      /\ \A c \in Conn : conns[c] # Nothing => conns[c] \in Sessions!Response
      /\ \A c \in Conn : conns'[c] # Nothing => conns'[c] \in Sessions!Response
  BY <1>0 DEF StreamsInv, StreamsTypeOK, Sessions!Live
<1>5. \A c \in Conn :
        IF conns[c] # Nothing /\ conns[c].state = "attached" /\ conns[c].session \in gone
        THEN E(c) = [conns[c] EXCEPT !.state = "ended"] ELSE E(c) = conns[c]
  BY <1>0, Ending
<1>51. \A c \in Conn : conns'[c] = E(c) \/ Answers(c) \/ Receives(c)
  BY DEF Refreshes
<1> HIDE DEF E
<1>6. ASSUME NEW s \in L', NEW i \in DOMAIN sessions'[s].streams, NEW c \in Conn,
             sessions'[s].streams[i].subscriber = c
      PROVE  conns'[c] # Nothing /\ conns'[c].state = "attached" /\ conns'[c].session = s
             /\ conns'[c].stream = sessions'[s].streams[i].id
  <2> DEFINE id == sessions'[s].streams[i].id
  <2>1. s \in kept
    BY <1>1
  <2>2. id \in Nat
    <3>1. sessions'[s].streams \in Seq(Sessions!Stream)
      BY <1>4 DEF Sessions!Recorded
    <3>2. sessions'[s].streams[i] \in Sessions!Stream
      BY <3>1
    <3> QED BY <3>2 DEF Sessions!Stream
  <2>3. Carries(sessions'[s], id, c)
    BY <1>6 DEF Carries
  <2>4. Carries(sessions[s], id, c)
    BY <1>1, <2>1, <2>2, <2>3 DEF Grown
  <2>5. conns[c] # Nothing /\ conns[c].state = "attached" /\ conns[c].session = s /\ conns[c].stream = id
    BY <2>1, <2>4 DEF Carries, StreamsInv
  <2>6. conns[c] \in Sessions!Response
    BY <1>4, <2>5
  <2>7. E(c) = conns[c]
    BY <1>5, <2>1, <2>5
  <2>8. conns'[c] = conns[c] \/ conns'[c] = [conns[c] EXCEPT !.got = Append(@, sessions[conns[c].session].next)]
    BY <1>51, <2>5, <2>7 DEF Answers, Receives
  <2>9. conns'[c].state = "attached" /\ conns'[c].session = s /\ conns'[c].stream = id
    BY <2>5, <2>6, <2>8 DEF Sessions!Response
  <2>10. conns'[c] # Nothing
    <3>1. sessions[s].next \in Nat /\ conns[c].got \in Seq(Nat)
      BY <1>4, <2>1, <2>6 DEF Sessions!Recorded, Sessions!Response
    <3>2. Append(conns[c].got, sessions[s].next) \in Seq(Nat)
      BY <3>1
    <3>3. [conns[c] EXCEPT !.got = Append(@, sessions[s].next)] \in Sessions!Response
      BY <2>6, <3>2 DEF Sessions!Response
    <3> QED BY <2>5, <2>6, <2>8, <3>3, SessionsAssumption
  <2> QED BY <2>9, <2>10
<1>7. ASSUME NEW c \in Conn, conns'[c] # Nothing PROVE ConnOK(c)'
  <2>0. conns'[c] \in Sessions!Response
    BY <1>4, <1>7
  <2>1. CASE conns'[c] = E(c)
    <3>1. conns[c] # Nothing
      BY <1>5, <1>7, <2>1
    <3>2. ConnOK(c) /\ conns[c] \in Sessions!Response
      BY <1>4, <3>1 DEF StreamsInv
    <3>3. CASE conns[c].state = "attached" /\ conns[c].session \in gone
      <4>1. conns'[c] = [conns[c] EXCEPT !.state = "ended"]
        BY <1>5, <2>1, <3>1, <3>3
      <4>2. conns'[c].state = "ended" /\ conns'[c].session = conns[c].session /\ conns'[c].got = conns[c].got
        BY <3>2, <4>1 DEF Sessions!Response
      <4> QED BY <1>0, <3>2, <3>3, <4>2 DEF ConnOK
    <3>4. CASE ~(conns[c].state = "attached" /\ conns[c].session \in gone)
      <4> DEFINE s == conns[c].session
      <4>1. conns'[c] = conns[c]
        BY <1>5, <2>1, <3>1, <3>4
      <4>2. s \in L' \cup dropped'
        BY <1>0, <1>1, <3>2 DEF ConnOK
      <4>3. s \in L' => s \in kept
        BY <1>1, <3>2 DEF ConnOK
      <4>4. s \in kept => sessions[s].next <= sessions'[s].next /\ sessions[s].next \in Nat /\ sessions'[s].next \in Nat
        BY <1>1, <1>4 DEF Grown, Sessions!Recorded
      <4>5. conns[c].state = "attached" =>
              s \in L' /\ Below(conns[c].got, sessions'[s].next) /\ Carries(sessions'[s], conns[c].stream, c)
        <5> SUFFICES ASSUME conns[c].state = "attached"
                     PROVE  s \in L' /\ Below(conns[c].got, sessions'[s].next) /\ Carries(sessions'[s], conns[c].stream, c)
          OBVIOUS
        <5>1. s \in kept /\ s \in L'
          BY <1>1, <3>2, <3>4 DEF ConnOK
        <5>2. Below(conns[c].got, sessions[s].next) /\ Carries(sessions[s], conns[c].stream, c)
          BY <3>2 DEF ConnOK
        <5>3. conns[c].stream \in Nat /\ conns[c].got \in Seq(Nat)
          BY <3>2 DEF Sessions!Response
        <5>4. Carries(sessions'[s], conns[c].stream, c)
          BY <1>1, <5>1, <5>2, <5>3 DEF Grown
        <5>5. Below(conns[c].got, sessions'[s].next)
          BY <4>4, <5>1, <5>2, <5>3 DEF Below
        <5> QED BY <5>1, <5>4, <5>5
      <4>6. conns[c].state = "answered" /\ s \in L' => Below(conns[c].backlog, sessions'[s].next)
        <5> SUFFICES ASSUME conns[c].state = "answered", s \in L' PROVE Below(conns[c].backlog, sessions'[s].next)
          OBVIOUS
        <5>1. Below(conns[c].backlog, sessions[s].next) /\ conns[c].backlog \in Seq(Nat)
          BY <3>2, <4>3 DEF ConnOK, Sessions!Response
        <5> QED BY <4>3, <4>4, <5>1 DEF Below
      <4>7. /\ Increasing(conns[c].got)
            /\ conns[c].state = "answered" => conns[c].got = <<>> /\ Increasing(conns[c].backlog)
        BY <3>2 DEF ConnOK
      <4> QED BY <4>1, <4>2, <4>5, <4>6, <4>7 DEF ConnOK
    <3> QED BY <3>3, <3>4
  <2>2. CASE Answers(c)
    <3>1. Increasing(<<>>)
      BY DEF Increasing
    <3> QED BY <1>1, <2>2, <3>1 DEF ConnOK, Answers
  <2>3. CASE Receives(c)
    <3>0. /\ conns[c] # Nothing /\ conns[c].state = "attached" /\ conns[c].session \in L'
          /\ conns'[c] = [conns[c] EXCEPT !.got = Append(@, sessions[conns[c].session].next)]
          /\ sessions[conns[c].session].next < sessions'[conns[c].session].next
      BY <2>3 DEF Receives
    <3> DEFINE s == conns[c].session
               n == sessions[s].next
               m == sessions'[s].next
    <3>1. ConnOK(c) /\ conns[c] \in Sessions!Response
      BY <1>4, <3>0 DEF StreamsInv
    <3>2. s \in kept /\ s \in L' /\ Below(conns[c].got, n) /\ Increasing(conns[c].got) /\ Carries(sessions[s], conns[c].stream, c)
      BY <1>1, <3>0, <3>1 DEF ConnOK
    <3>3. n \in Nat /\ m \in Nat /\ n < m /\ conns[c].got \in Seq(Nat) /\ conns[c].stream \in Nat
      BY <1>1, <1>4, <3>0, <3>1, <3>2 DEF Sessions!Recorded, Sessions!Response
    <3>4. /\ conns'[c].state = "attached" /\ conns'[c].session = s /\ conns'[c].stream = conns[c].stream
          /\ conns'[c].got = Append(conns[c].got, n)
      BY <3>0, <3>1 DEF Sessions!Response
    <3>5. Carries(sessions'[s], conns[c].stream, c)
      BY <1>1, <3>2, <3>3 DEF Grown
    <3> HIDE DEF n, m
    <3>6. Increasing(Append(conns[c].got, n)) /\ Below(Append(conns[c].got, n), m)
      <4> DEFINE log == Append(conns[c].got, n)
      <4>0. ASSUME NEW g \in Seq(Nat)
            PROVE  /\ DOMAIN Append(g, n) = 1 .. Len(g) + 1 /\ Append(g, n)[Len(g) + 1] = n
                   /\ Len(g) \in Nat /\ DOMAIN g = 1 .. Len(g)
                   /\ \A k \in 1 .. Len(g) : Append(g, n)[k] = g[k] /\ g[k] \in Nat
        BY <3>3
      <4>1. /\ DOMAIN log = 1 .. Len(conns[c].got) + 1 /\ log[Len(conns[c].got) + 1] = n
            /\ Len(conns[c].got) \in Nat /\ DOMAIN conns[c].got = 1 .. Len(conns[c].got)
            /\ \A k \in 1 .. Len(conns[c].got) : log[k] = conns[c].got[k] /\ conns[c].got[k] \in Nat
        BY <3>3, <4>0
      <4> HIDE DEF log
      <4>2. \A k \in 1 .. Len(conns[c].got) : log[k] < n /\ log[k] \in Nat
        BY <3>2, <4>1 DEF Below
      <4>3. \A j, k \in 1 .. Len(conns[c].got) : j < k => log[j] < log[k]
        BY <3>2, <4>1 DEF Increasing
      <4>4. Increasing(log)
        <5> SUFFICES ASSUME NEW j \in DOMAIN log, NEW k \in DOMAIN log, j < k PROVE log[j] < log[k]
          BY DEF Increasing
        <5>1. j \in 1 .. Len(conns[c].got)
          BY <4>1
        <5>2. k \in 1 .. Len(conns[c].got) \/ k = Len(conns[c].got) + 1
          BY <4>1
        <5> QED BY <4>1, <4>2, <4>3, <5>1, <5>2
      <4>5. Below(log, m)
        BY <3>3, <4>1, <4>2 DEF Below
      <4> QED BY <4>4, <4>5 DEF log
    <3>7. /\ conns'[c].session \in L' /\ Below(conns'[c].got, sessions'[conns'[c].session].next)
          /\ Carries(sessions'[conns'[c].session], conns'[c].stream, c)
      BY <3>2, <3>4, <3>5, <3>6 DEF m
    <3> QED BY <3>4, <3>6, <3>7 DEF ConnOK
  <2> QED BY <1>51, <2>1, <2>2, <2>3
<1> QED BY <1>0, <1>2, <1>3, <1>6, <1>7 DEF StreamsInv

(***************************************************************************)
(* McpSessions.  What is heard of a session's events.                      *)
(***************************************************************************)

\* From r to q ids only grow and a history takes no event but the next.
Stretched(r, q) ==
  /\ r.next <= q.next /\ q.next <= r.next + 1 /\ r.opened <= q.opened
  /\ \A id \in Nat : Names(q, id) => Names(r, id) \/ r.opened <= id
  /\ \A id \in Nat, e \in Nat : Holds(q, id, e) => Holds(r, id, e) \/ (e = r.next /\ r.next < q.next)

\* What d got, or missed in the window, stays so.
Keeps(d) ==
  /\ conns'[d] # Nothing /\ conns'[d].session = conns[d].session /\ conns'[d].stream = conns[d].stream
  /\ conns[d].state # "answered" => conns'[d].state # "answered"
  /\ \A e \in Sessions!Got(d) : e \in Sessions!Got(d)'
  /\ \A s \in Sessions!Live, e \in Nat : s = conns[d].session /\ e < sessions[s].next /\ Sessions!InWindow(d, e) => Sessions!InWindow(d, e)'

\* c, attached or not, knows what it knew; it may learn of the next event.
Continues(c) ==
  /\ conns'[c] # Nothing /\ conns'[c].session = conns[c].session /\ conns'[c].stream = conns[c].stream
  /\ conns'[c].from = conns[c].from /\ conns'[c].asked = conns[c].asked /\ conns'[c].joined = conns[c].joined
  /\ conns'[c].backlog = conns[c].backlog
  /\ conns'[c].state = "answered" <=> conns[c].state = "answered"
  /\ conns'[c].state = "attached" => conns[c].state = "attached"
  /\ conns'[c].state = "orphan" => conns[c].state = "orphan"
  /\ conns'[c].state = "displaced" => conns[c].state = "displaced" \/ Displaced(c)'
  /\ \/ conns'[c].got = conns[c].got
     \/ Receives(c)

LEMMA ConnIs ==
  ASSUME StreamsTypeOK, NEW c \in Conn, conns[c] # Nothing
  PROVE  /\ conns[c] \in Sessions!Response
         /\ conns[c].session \in Session /\ conns[c].stream \in Nat /\ conns[c].from \in Nat
         /\ conns[c].asked \in Nat /\ conns[c].joined \in Nat
         /\ conns[c].got \in Seq(Nat) /\ conns[c].backlog \in Seq(Nat)
         /\ Sessions!Got(c) \subseteq Nat /\ Told(c) \subseteq Nat
<1>1. conns[c] \in Sessions!Response
  BY DEF StreamsTypeOK
<1>2. conns[c].got \in Seq(Nat) /\ conns[c].backlog \in Seq(Nat)
  BY <1>1 DEF Sessions!Response
<1>3. \A g \in Seq(Nat) : Sessions!ToSet(g) \subseteq Nat
  BY DEF Sessions!ToSet
<1> QED BY <1>1, <1>2, <1>3 DEF Sessions!Response, Sessions!Got, Told

LEMMA HeldIsPast ==
  ASSUME NEW r, StreamsOK(r), NEW id, NEW e, Holds(r, id, e)
  PROVE  0 < e /\ e < r.next /\ Names(r, id)
<1>1. PICK i \in DOMAIN r.streams : r.streams[i].id = id /\ \E k \in DOMAIN r.streams[i].log : r.streams[i].log[k] = e
  BY DEF Holds
<1>2. Below(r.streams[i].log, r.next) /\ Above(r.streams[i].log, 0)
  BY DEF StreamsOK
<1> QED BY <1>1, <1>2 DEF Below, Above, Names

LEMMA AppendedSet ==
  ASSUME NEW g \in Seq(Nat), NEW n \in Nat, NEW h, h = Append(g, n)
  PROVE  Sessions!ToSet(h) = Sessions!ToSet(g) \cup {n}
<1>1. /\ Len(g) \in Nat /\ DOMAIN g = 1 .. Len(g) /\ DOMAIN h = 1 .. Len(g) + 1 /\ h[Len(g) + 1] = n
      /\ \A k \in 1 .. Len(g) : h[k] = g[k]
  OBVIOUS
<1>2. \A k \in 1 .. Len(g) + 1 : k \in 1 .. Len(g) \/ k = Len(g) + 1
  BY <1>1
<1>3. \A k \in 1 .. Len(g) : k \in 1 .. Len(g) + 1
  BY <1>1
<1>4. Len(g) + 1 \in 1 .. Len(g) + 1
  BY <1>1
<1> QED BY <1>1, <1>2, <1>3, <1>4 DEF Sessions!ToSet

\* What a transport that receives an event has then.
LEMMA Received ==
  ASSUME StreamsTypeOK, NEW c \in Conn, Receives(c)
  PROVE  /\ conns[c].session \in Sessions!Live => Sessions!Got(c)' = Sessions!Got(c) \cup {sessions[conns[c].session].next}
         /\ conns'[c].state = "attached" /\ conns'[c].session = conns[c].session /\ conns'[c].stream = conns[c].stream
         /\ conns'[c].from = conns[c].from /\ conns'[c].asked = conns[c].asked /\ conns'[c].joined = conns[c].joined
         /\ conns'[c].backlog = conns[c].backlog
<1> DEFINE n == sessions[conns[c].session].next
           longer == Append(conns[c].got, n)
<1>1. conns[c] \in Sessions!Response /\ conns[c].got \in Seq(Nat) /\ conns[c].state = "attached"
  BY ConnIs DEF Receives
<1>2. conns'[c] = [conns[c] EXCEPT !.got = longer]
  BY DEF Receives
<1> HIDE DEF longer
<1>3. conns'[c].got = longer
  BY <1>1, <1>2 DEF Sessions!Response
<1>4. ASSUME conns[c].session \in Sessions!Live PROVE Sessions!Got(c)' = Sessions!Got(c) \cup {n}
  <2>1. n \in Nat
    BY <1>4, LiveIs DEF Sessions!Recorded
  <2> HIDE DEF n
  <2>2. Sessions!ToSet(longer) = Sessions!ToSet(conns[c].got) \cup {n}
    BY <1>1, <2>1, AppendedSet DEF longer
  <2> QED BY <1>3, <2>2 DEF Sessions!Got
<1> QED BY <1>1, <1>2, <1>4 DEF Sessions!Response

\* What continues keeps what it has.
LEMMA ContinuesKeeps ==
  ASSUME StreamsTypeOK, NEW c \in Conn, conns[c] # Nothing, Continues(c), conns[c].session \in Sessions!Live' => conns[c].session \in Sessions!Live
  PROVE  Keeps(c) /\ \A e \in Nat : Sessions!InWindow(c, e)' <=> Sessions!InWindow(c, e)
<1>1. \A e \in Nat : Sessions!InWindow(c, e)' <=> Sessions!InWindow(c, e)
  BY DEF Continues, Sessions!InWindow
<1>2. \A e \in Sessions!Got(c) : e \in Sessions!Got(c)'
  <2>1. CASE conns'[c].got = conns[c].got
    BY <2>1 DEF Sessions!Got
  <2>2. CASE Receives(c)
    BY <2>2, Received DEF Receives
  <2> QED BY <2>1, <2>2 DEF Continues
<1> QED BY <1>1, <1>2 DEF Keeps, Continues

\* What a stream's transports heard stays heard.
LEMMA StaysHeard ==
  ASSUME StreamsTypeOK, \A d \in Conn : conns[d] # Nothing => Keeps(d), NEW s \in Sessions!Live
  PROVE  /\ \A id \in Nat, e \in Nat : e < sessions[s].next /\ HeardOn(s, id, e) => HeardOn(s, id, e)'
         /\ \A e \in Nat : Heard(s, e) => Heard(s, e)'
BY DEF Keeps, HeardOn, Heard

\* A transport that goes on as before still knows all it should.
LEMMA Continuing ==
  ASSUME StreamsInv, StreamsTypeOK', \A s \in Sessions!Live' : StreamsOK(sessions'[s]), HeardInv,
         \A d \in Conn : conns[d] # Nothing => Keeps(d),
         NEW c \in Conn, conns[c] # Nothing, Continues(c),
         NEW s, s = conns[c].session, NEW id, id = conns[c].stream, NEW r, r = sessions[s], NEW q, q = sessions'[s],
         s \in Sessions!Live' => s \in Sessions!Live /\ Stretched(r, q) /\ (q.next = r.next \/ Emits(s))
  PROVE  HeardOK(c)'
<1>1. HeardOK(c) /\ StreamsTypeOK /\ ConnOK(c)
  BY DEF HeardInv, StreamsInv
<1>2. /\ id \in Nat /\ conns[c].from \in Nat /\ conns[c].asked \in Nat /\ conns[c].joined \in Nat
      /\ Sessions!Got(c) \subseteq Nat /\ Told(c) \subseteq Nat
  BY <1>1, ConnIs
<1>3. /\ conns'[c].session = s /\ conns'[c].stream = id /\ conns'[c].from = conns[c].from /\ conns'[c].asked = conns[c].asked
      /\ conns'[c].joined = conns[c].joined
      /\ conns'[c].state = "answered" <=> conns[c].state = "answered"
      /\ conns'[c].state = "attached" => conns[c].state = "attached"
  BY DEF Continues
<1>4. /\ Sessions!Got(c)' = Sessions!Got(c) \/ (Receives(c) /\ s \in Sessions!Live' /\ conns'[c].state = "attached" /\ Sessions!Got(c)' = Sessions!Got(c) \cup {r.next})
      /\ Told(c)' = Told(c) \/ (Receives(c) /\ s \in Sessions!Live' /\ Told(c)' = Told(c) \cup {r.next})
  <2>1. CASE conns'[c].got = conns[c].got
    BY <2>1 DEF Continues, Sessions!Got, Told
  <2>2. CASE Receives(c)
    <3>1. s \in Sessions!Live' /\ s \in Sessions!Live
      BY <2>2 DEF Receives
    <3>2. Sessions!Got(c)' = Sessions!Got(c) \cup {r.next} /\ conns'[c].backlog = conns[c].backlog /\ conns'[c].state = "attached"
      BY <1>1, <2>2, <3>1, Received
    <3> QED BY <2>2, <3>1, <3>2 DEF Told
  <2> QED BY <2>1, <2>2 DEF Continues
<1>5. s \in Sessions!Live' =>
        /\ s \in Sessions!Live /\ Past(c, r) /\ Covered(c, r) /\ Accompanied(c, r) /\ StreamsOK(r) /\ StreamsOK(q)
        /\ conns[c].state = "orphan" => ~Names(r, id)
        /\ r.next \in Nat /\ q.next \in Nat /\ r.opened \in Nat /\ q.opened \in Nat
  <2> SUFFICES ASSUME s \in Sessions!Live'
               PROVE  /\ s \in Sessions!Live /\ Past(c, r) /\ Covered(c, r) /\ Accompanied(c, r) /\ StreamsOK(r) /\ StreamsOK(q)
                      /\ conns[c].state = "orphan" => ~Names(r, id)
                      /\ r.next \in Nat /\ q.next \in Nat /\ r.opened \in Nat /\ q.opened \in Nat
    OBVIOUS
  <2>1. s \in Sessions!Live
    OBVIOUS
  <2>2. Past(c, r) /\ Covered(c, r) /\ Accompanied(c, r) /\ (conns[c].state = "orphan" => ~Names(r, id))
    BY <1>1, <2>1 DEF HeardOK
  <2>3. r \in Sessions!Recorded /\ StreamsOK(r)
    BY <1>1, <2>1, LiveIs DEF StreamsInv
  <2>4. q \in Sessions!Recorded
    BY DEF StreamsTypeOK, Sessions!Live
  <2> QED BY <2>1, <2>2, <2>3, <2>4 DEF Sessions!Recorded
<1>6. \A e \in Told(c)' : conns'[c].from < e
  <2>1. \A e \in Told(c) : conns[c].from < e
    BY <1>1 DEF HeardOK
  <2>2. s \in Sessions!Live' => conns[c].from < r.next
    BY <1>5 DEF Past
  <2> QED BY <1>3, <1>4, <2>1, <2>2
<1>7. conns'[c].state = "displaced" => Displaced(c)'
  <2>1. conns[c].state = "displaced" => Displaced(c)
    BY <1>1 DEF HeardOK
  <2>2. Displaced(c) => Displaced(c)'
    BY <1>3 DEF Displaced, Keeps
  <2> QED BY <2>1, <2>2 DEF Continues
<1>8. ASSUME s \in Sessions!Live' PROVE Past(c, q)'
  <2>1. Stretched(r, q)
    BY <1>8
  <2>2. conns'[c].stream < q.opened /\ conns'[c].from < q.next /\ conns'[c].asked <= q.next /\ conns'[c].joined <= q.next
    BY <1>2, <1>3, <1>5, <1>8, <2>1 DEF Past, Stretched
  <2>3. ASSUME NEW e \in Told(c), NEW i \in Nat PROVE e < q.next /\ (Holds(q, i, e) => i = id)
    <3>1. e < r.next /\ e \in Nat /\ (Holds(r, i, e) => i = id)
      BY <1>2, <1>5, <1>8 DEF Past
    <3>2. Holds(q, i, e) => Holds(r, i, e)
      BY <1>5, <1>8, <2>1, <3>1 DEF Stretched
    <3> QED BY <1>5, <1>8, <2>1, <3>1, <3>2 DEF Stretched
  <2>4. Receives(c) => r.next < q.next /\ \A i \in Nat : Holds(q, i, r.next) => i = id
    BY DEF Receives
  <2> QED BY <1>3, <1>4, <2>2, <2>3, <2>4 DEF Past
<1>9. ASSUME s \in Sessions!Live', NEW e \in Nat, Holds(q, id, e)
      PROVE  /\ e <= conns[c].from => HeardOn(s, id, e)'
             /\ conns[c].state = "answered" /\ conns[c].from < e /\ e < conns[c].asked => e \in Told(c)'
             /\ conns'[c].state # "answered" /\ conns[c].from < e =>
                  \/ e \in Sessions!Got(c)' \/ Sessions!InWindow(c, e)'
                  \/ conns'[c].state # "attached" /\ \A g \in Sessions!Got(c)' : g < e
  <2>1. Holds(r, id, e) \/ (e = r.next /\ r.next < q.next)
    BY <1>2, <1>9 DEF Stretched
  <2>2. \A x \in Nat : Sessions!InWindow(c, x)' <=> Sessions!InWindow(c, x)
    BY <1>1, <1>5, ContinuesKeeps
  <2>3. CASE Holds(r, id, e)
    <3>1. e < r.next
      BY <1>5, <1>9, <2>3, HeldIsPast
    <3>2. HeardOn(s, id, e) => HeardOn(s, id, e)'
      BY <1>1, <1>2, <1>5, <1>9, <3>1, StaysHeard
    <3>3. /\ e <= conns[c].from => HeardOn(s, id, e)
          /\ conns[c].state = "answered" /\ conns[c].from < e /\ e < conns[c].asked => e \in Told(c)
          /\ conns[c].state # "answered" /\ conns[c].from < e =>
               \/ e \in Sessions!Got(c) \/ Sessions!InWindow(c, e)
               \/ conns[c].state # "attached" /\ \A g \in Sessions!Got(c) : g < e
      BY <1>5, <1>9, <2>3 DEF Covered
    <3>4. conns[c].state # "attached" => Sessions!Got(c)' = Sessions!Got(c)
      BY <1>3, <1>4
    <3> QED BY <1>3, <1>4, <2>2, <3>2, <3>3, <3>4
  <2>4. CASE e = r.next /\ r.next < q.next /\ ~Holds(r, id, e)
    <3>1. conns[c].from < e /\ conns[c].asked <= e /\ \A g \in Sessions!Got(c) : g < e
      BY <1>5, <1>9, <2>4 DEF Past, Told
    <3>2. conns'[c].state = "attached" => Receives(c)
      <4>1. Emits(s)
        BY <1>2, <1>5, <1>9, <2>4
      <4>2. Holds(sessions'[s], conns[c].stream, sessions[s].next)
        BY <1>9, <2>4
      <4> QED BY <1>3, <4>1, <4>2 DEF Emits
    <3>3. Receives(c) => e \in Sessions!Got(c)'
      <4> SUFFICES ASSUME Receives(c) PROVE e \in Sessions!Got(c)'
        OBVIOUS
      <4>1. Sessions!Got(c)' = Sessions!Got(c) \cup {r.next}
        BY <1>1, <1>5, <1>9, Received
      <4> QED BY <2>4, <4>1
    <3>4. conns'[c].state # "attached" => \A g \in Sessions!Got(c)' : g < e
      BY <1>4, <3>1
    <3>5. conns[c].from \in Nat /\ conns[c].asked \in Nat
      BY <1>2
    <3> QED BY <3>1, <3>2, <3>3, <3>4, <3>5
  <2> QED BY <2>1, <2>3, <2>4
<1>10. ASSUME s \in Sessions!Live' PROVE Covered(c, q)'
  BY <1>3, <1>9, <1>10 DEF Covered
<1>11. ASSUME s \in Sessions!Live' PROVE Accompanied(c, q)'
  <2> SUFFICES ASSUME conns'[c].state = "attached", NEW e \in Nat, conns'[c].joined <= e, e < q.next
               PROVE  Heard(s, e)'
    BY <1>3 DEF Accompanied
  <2>1. CASE e < r.next
    <3>1. Heard(s, e)
      BY <1>3, <1>5, <1>11, <2>1 DEF Accompanied
    <3> QED BY <1>1, <1>5, <1>11, <3>1, StaysHeard
  <2>2. CASE ~(e < r.next)
    <3>1. e = r.next /\ q.next # r.next
      BY <1>5, <1>11, <2>2 DEF Stretched
    <3>2. Emits(s)
      BY <1>11, <3>1
    <3>3. PICK d \in Conn : Receives(d) /\ conns[d].session = s
      BY <1>3, <3>2 DEF Emits
    <3>4. Sessions!Got(d)' = Sessions!Got(d) \cup {r.next} /\ conns'[d] # Nothing /\ conns'[d].session = s
      BY <1>1, <1>5, <1>11, <3>3, Received DEF Keeps, Receives
    <3> QED BY <3>1, <3>4 DEF Heard
  <2> QED BY <2>1, <2>2
<1>12. ASSUME s \in Sessions!Live', conns'[c].state = "orphan" PROVE ~Names(q, id)
  <2>1. ~Names(r, id) /\ id < r.opened
    BY <1>5, <1>12 DEF Continues, Past
  <2> QED BY <1>2, <1>5, <1>12, <2>1 DEF Stretched
<1>13. ASSUME NEW u \in Sessions!Live', u = conns'[c].session
       PROVE  /\ Past(c, sessions[u])' /\ Covered(c, sessions[u])' /\ Accompanied(c, sessions[u])'
              /\ conns'[c].state = "orphan" => ~Names(sessions'[u], conns'[c].stream)
  <2>1. u = s /\ sessions'[u] = q
    BY <1>3, <1>13
  <2>2. Past(c, sessions[u])'
    BY <1>8, <1>13, <2>1 DEF Past
  <2>3. Covered(c, sessions[u])'
    BY <1>10, <1>13, <2>1 DEF Covered
  <2>4. Accompanied(c, sessions[u])'
    BY <1>11, <1>13, <2>1 DEF Accompanied
  <2> QED BY <1>3, <1>12, <1>13, <2>1, <2>2, <2>3, <2>4
<1> QED BY <1>6, <1>7, <1>13 DEF HeardOK

LEMMA HeardRefreshed ==
  ASSUME StreamsInv, HeardInv, NEW gone, Refreshes(gone)
  PROVE  StreamsInv' /\ HeardInv'
<1> DEFINE L == Sessions!Live
<1>1. StreamsInv'
  BY Refreshed
<1>2. /\ StreamsTypeOK /\ StreamsTypeOK' /\ \A s \in L' : StreamsOK(sessions'[s])
      /\ gone \in SUBSET L /\ dropped' = dropped \cup gone /\ L \cap dropped = {}
  BY <1>1 DEF StreamsInv, Refreshes
<1>3. \A c \in Conn : conns'[c] = Sessions!EndConns(gone)[c] \/ Answers(c) \/ Receives(c)
  BY DEF Refreshes
<1>4. ASSUME NEW c \in Conn, conns[c] # Nothing, NEW s, s = conns[c].session, s \in L'
      PROVE  s \in L /\ Stretched(sessions[s], sessions'[s]) /\ (sessions'[s].next = sessions[s].next \/ Emits(s))
  <2>1. s \in L \cup dropped /\ s \in Session
    BY <1>2, <1>4, ConnIs DEF StreamsInv, ConnOK
  <2>2. s \in L \ gone
    BY <1>2, <1>4, <2>1 DEF Refreshes, Sessions!Live
  <2>3. Grown(sessions[s], sessions'[s]) /\ (sessions'[s].next = sessions[s].next \/ Emits(s))
    BY <2>2 DEF Refreshes
  <2> QED BY <2>2, <2>3 DEF Grown, Stretched
<1>5. ASSUME NEW c \in Conn, conns[c] # Nothing PROVE Continues(c)
  <2>1. conns[c] \in Sessions!Response
    BY <1>2, <1>5, ConnIs
  <2>2. CASE conns'[c] = Sessions!EndConns(gone)[c]
    <3>1. conns'[c] = [conns[c] EXCEPT !.state = "ended"] \/ conns'[c] = conns[c]
      BY <1>2, <2>2, Ending
    <3>2. conns[c].state = "attached" \/ conns'[c] = conns[c]
      BY <1>2, <2>2, Ending
    <3>3. conns'[c] # Nothing
      <4>1. [conns[c] EXCEPT !.state = "ended"] \in Sessions!Response
        BY <2>1 DEF Sessions!Response
      <4> QED BY <1>5, <3>1, <4>1, SessionsAssumption
    <3>4. CASE conns'[c] = conns[c]
      BY <1>5, <3>4 DEF Continues
    <3>5. CASE conns'[c] = [conns[c] EXCEPT !.state = "ended"] /\ conns[c].state = "attached"
      <4>1. /\ conns'[c].session = conns[c].session /\ conns'[c].stream = conns[c].stream
            /\ conns'[c].from = conns[c].from /\ conns'[c].asked = conns[c].asked /\ conns'[c].joined = conns[c].joined
            /\ conns'[c].backlog = conns[c].backlog /\ conns'[c].got = conns[c].got /\ conns'[c].state = "ended"
        BY <2>1, <3>5 DEF Sessions!Response
      <4> QED BY <3>3, <3>5, <4>1 DEF Continues
    <3> QED BY <3>1, <3>2, <3>4, <3>5
  <2>3. CASE Receives(c)
    <3>1. conns'[c] # Nothing
      <4>1. conns[c].session \in L
        BY <1>4, <1>5, <2>3 DEF Receives
      <4>2. sessions[conns[c].session].next \in Nat /\ conns[c].got \in Seq(Nat)
        BY <1>2, <1>5, <4>1, LiveIs, ConnIs DEF Sessions!Recorded
      <4>3. Append(conns[c].got, sessions[conns[c].session].next) \in Seq(Nat)
        BY <4>2
      <4>4. [conns[c] EXCEPT !.got = Append(@, sessions[conns[c].session].next)] \in Sessions!Response
        BY <2>1, <4>3 DEF Sessions!Response
      <4> QED BY <2>3, <4>4, SessionsAssumption DEF Receives
    <3>2. conns[c].state = "attached"
      BY <2>3 DEF Receives
    <3> QED BY <1>2, <2>3, <3>1, <3>2, Received DEF Continues
  <2> QED BY <1>3, <1>5, <2>2, <2>3 DEF Answers
<1>6. \A d \in Conn : conns[d] # Nothing => Keeps(d)
  <2> SUFFICES ASSUME NEW d \in Conn, conns[d] # Nothing PROVE Keeps(d)
    OBVIOUS
  <2>1. conns[d].session \in L' => conns[d].session \in L
    BY <1>4
  <2> QED BY <1>2, <1>5, <2>1, ContinuesKeeps
<1>7. ASSUME NEW c \in Conn, conns'[c] # Nothing PROVE HeardOK(c)'
  <2>1. CASE conns[c] = Nothing
    <3>1. conns'[c] # Sessions!EndConns(gone)[c]
      BY <1>2, <1>7, <2>1, Ending
    <3> QED BY <1>3, <2>1, <3>1 DEF Answers, Receives
  <2>2. CASE conns[c] # Nothing
    <3> DEFINE s == conns[c].session
    <3>1. s \in L' => /\ s \in L /\ Stretched(sessions[s], sessions'[s])
                      /\ sessions'[s].next = sessions[s].next \/ Emits(s)
      BY <1>4, <2>2
    <3>2. Continues(c)
      BY <1>5, <2>2
    <3> HIDE DEF s
    <3> QED BY <1>2, <1>6, <2>2, <3>1, <3>2, Continuing DEF s
  <2> QED BY <2>1, <2>2
<1> QED BY <1>1, <1>7 DEF HeardInv

\* A new stream changes no other: forget removes disconnected ones only.
LEMMA Opening ==
  ASSUME NEW r \in Sessions!Recorded, StreamsOK(r), NEW q, q = Sessions!OpenStream(r)
  PROVE  /\ q \in Sessions!Recorded /\ Grown(r, q) /\ q.streams # <<>> /\ q.next = r.next /\ q.opened = r.opened + 1
         /\ q.advertised = r.advertised /\ q.reads = r.reads /\ q.listed = r.listed /\ q.notice = r.notice /\ q.unread = r.unread
<1> DEFINE st   == r.streams
           idle == Sessions!Disconnected(st)
           spent == {i \in idle : Sessions!Cardinality({j \in idle : j <= i}) <= Len(st) - ReplayBuffer}
           kept == DOMAIN st \ spent
           w    == Sessions!Filtered(st, kept)
           new  == [id |-> r.opened, log |-> <<>>, subscriber |-> Nothing]
           qs   == Append(w, new)
<1>1. st \in Seq(Sessions!Stream) /\ r.next \in Nat /\ r.opened \in Nat
  BY DEF Sessions!Recorded
<1>2. w = Sessions!Forget(st)
  BY DEF Sessions!Forget
<1>3. kept \in SUBSET (DOMAIN st) /\ \A i \in DOMAIN st \ kept : st[i].subscriber = Nothing
  BY DEF Sessions!Disconnected
<1> HIDE DEF w, kept
<1>4. w \in Seq(Sessions!Stream) /\ Len(w) \in Nat /\ DOMAIN w = 1 .. Len(w)
  <2>1. w \in Seq(Sessions!Stream)
    BY <1>1, <1>3, FilteredFacts DEF w
  <2> QED BY <2>1
<1>5. PICK at : TakenFrom(at, w, st, kept)
  BY <1>1, <1>3, FilteredFacts DEF w
<1>6. \A k \in 1 .. Len(w) : at[k] \in DOMAIN st /\ at[k] \in Nat
  BY <1>1, <1>3, <1>5 DEF TakenFrom
<1>7. \A j, k \in 1 .. Len(w) : j # k => at[j] # at[k]
  <2> SUFFICES ASSUME NEW j \in 1 .. Len(w), NEW k \in 1 .. Len(w), j # k PROVE at[j] # at[k]
    OBVIOUS
  <2>1. j < k \/ k < j
    OBVIOUS
  <2> QED BY <1>5, <1>6, <2>1 DEF TakenFrom
<1>8. new \in Sessions!Stream
  BY <1>1 DEF Sessions!Stream
<1> HIDE DEF new
<1>9. qs \in Seq(Sessions!Stream)
  BY <1>4, <1>8
<1>10. /\ DOMAIN qs = 1 .. Len(w) + 1 /\ qs[Len(w) + 1] = new
       /\ \A k \in 1 .. Len(w) : qs[k] = st[at[k]]
  BY <1>4, <1>5, <1>8 DEF TakenFrom
<1> HIDE DEF st
<1>11. q = [r EXCEPT !.streams = qs, !.opened = r.opened + 1]
  BY <1>2 DEF Sessions!OpenStream, st, new
<1> HIDE DEF qs
<1>12. /\ q \in Sessions!Recorded /\ q.streams = qs /\ q.opened = r.opened + 1 /\ q.next = r.next
       /\ q.advertised = r.advertised /\ q.reads = r.reads /\ q.listed = r.listed /\ q.notice = r.notice /\ q.unread = r.unread
  <2>1. q = [streams |-> qs, next |-> r.next, opened |-> r.opened + 1, seen |-> r.seen, advertised |-> r.advertised,
             reads |-> r.reads, listed |-> r.listed, notice |-> r.notice, unread |-> r.unread]
    BY <1>11 DEF Sessions!Recorded
  <2> QED BY <1>1, <1>9, <2>1 DEF Sessions!Recorded
<1>13. /\ \A i, j \in DOMAIN st : st[i].id = st[j].id => i = j
       /\ \A i \in DOMAIN st : /\ st[i].id < r.opened /\ st[i].id \in Nat
                               /\ Increasing(st[i].log) /\ Below(st[i].log, r.next)
                               /\ Above(st[i].log, 0) /\ Len(st[i].log) <= ReplayBuffer
       /\ \A i, j \in DOMAIN st : i # j =>
            \A k \in DOMAIN st[i].log, l \in DOMAIN st[j].log : st[i].log[k] # st[j].log[l]
  <2>1. \A i \in DOMAIN st : st[i].id \in Nat
    <3> SUFFICES ASSUME NEW i \in DOMAIN st PROVE st[i].id \in Nat
      OBVIOUS
    <3>1. st[i] \in Sessions!Stream
      BY <1>1 DEF st
    <3> QED BY <3>1 DEF Sessions!Stream
  <2> QED BY <2>1 DEF StreamsOK, st
<1>14. new.id = r.opened /\ new.log = <<>> /\ new.subscriber = Nothing /\ DOMAIN new.log = {} /\ Len(new.log) = 0
  BY DEF new
<1>15. StreamsOK(q)
  <2>0. r.opened # 0 /\ ReplayBuffer # 0 => Len(w) # 0
    <3> SUFFICES ASSUME r.opened # 0, ReplayBuffer # 0, Len(w) = 0 PROVE FALSE
      OBVIOUS
    <3>1. Len(st) \in Nat \ {0} /\ DOMAIN st = 1 .. Len(st)
      BY <1>1 DEF StreamsOK, st
    <3>2. kept = {}
      BY <1>5 DEF TakenFrom
    <3>3. idle \subseteq DOMAIN st /\ spent \subseteq idle
      BY DEF Sessions!Disconnected
    <3>4. spent = DOMAIN st /\ idle = DOMAIN st
      <4> DEFINE gone == spent
      <4>1. DOMAIN st \ gone = {}
        BY <3>2 DEF kept, st
      <4>2. gone \subseteq DOMAIN st /\ gone \subseteq idle
        BY <3>3
      <4> HIDE DEF gone, idle
      <4> QED BY <3>3, <4>1, <4>2 DEF gone
    <3>5. {j \in idle : j <= Len(st)} = 1 .. Len(st)
      <4> HIDE DEF idle
      <4> QED BY <3>1, <3>4
    <3>6. Sessions!Cardinality({j \in idle : j <= Len(st)}) = Len(st)
      <4>1. Cardinality(1 .. Len(st)) = Len(st)
        BY <3>1, FS_Interval
      <4> QED BY <3>5, <4>1 DEF Sessions!Cardinality, Cardinality
    <3>7. Len(st) \in spent
      <4> HIDE DEF spent
      <4> QED BY <3>1, <3>4
    <3>8. Sessions!Cardinality({j \in idle : j <= Len(st)}) <= Len(st) - ReplayBuffer
      BY <3>7 DEF st
    <3> QED BY <3>1, <3>6, <3>8, SessionsAssumption
  <2>1. \A i, j \in DOMAIN qs : qs[i].id = qs[j].id => i = j
    <3>1. \A k \in 1 .. Len(w) : qs[k].id < r.opened /\ qs[k].id \in Nat
      BY <1>6, <1>10, <1>13
    <3>2. \A j, k \in 1 .. Len(w) : qs[j].id = qs[k].id => j = k
      BY <1>6, <1>7, <1>10, <1>13
    <3> SUFFICES ASSUME NEW i \in DOMAIN qs, NEW j \in DOMAIN qs, qs[i].id = qs[j].id PROVE i = j
      OBVIOUS
    <3>3. i \in 1 .. Len(w) \/ i = Len(w) + 1
      BY <1>4, <1>10
    <3>4. j \in 1 .. Len(w) \/ j = Len(w) + 1
      BY <1>4, <1>10
    <3> QED BY <1>1, <1>10, <1>14, <3>1, <3>2, <3>3, <3>4
  <2>2. ASSUME NEW i \in DOMAIN qs
        PROVE  /\ qs[i].id < q.opened /\ Increasing(qs[i].log) /\ Below(qs[i].log, q.next)
               /\ Above(qs[i].log, 0) /\ Len(qs[i].log) <= ReplayBuffer
    <3>1. CASE i \in 1 .. Len(w)
      <4>1. qs[i] = st[at[i]] /\ at[i] \in DOMAIN st
        BY <1>6, <1>10, <3>1
      <4> QED BY <1>1, <1>12, <1>13, <4>1
    <3>2. CASE i = Len(w) + 1
      BY <1>1, <1>10, <1>12, <1>14, <3>2, SessionsAssumption DEF Increasing, Below, Above
    <3> QED BY <1>4, <1>10, <3>1, <3>2
  <2>3. ASSUME NEW i \in DOMAIN qs, NEW j \in DOMAIN qs, i # j,
               NEW k \in DOMAIN qs[i].log, NEW l \in DOMAIN qs[j].log
        PROVE  qs[i].log[k] # qs[j].log[l]
    <3>1. i \in 1 .. Len(w) /\ j \in 1 .. Len(w)
      BY <1>4, <1>10, <1>14, <2>3
    <3>2. qs[i] = st[at[i]] /\ at[i] \in DOMAIN st /\ qs[j] = st[at[j]] /\ at[j] \in DOMAIN st /\ at[i] # at[j]
      BY <1>6, <1>7, <1>10, <2>3, <3>1
    <3> QED BY <1>13, <2>3, <3>2
  <2>4. ReplayBuffer # 0 => Len(qs) # 0 /\ (Len(qs) = 1 => q.opened = 1)
    <3>1. Len(qs) = Len(w) + 1
      BY <1>4, <1>9, <1>10
    <3> QED BY <1>1, <1>4, <1>12, <2>0, <3>1
  <2>5. 0 < q.next
    BY <1>12 DEF StreamsOK
  <2> QED BY <1>12, <2>1, <2>2, <2>3, <2>4, <2>5 DEF StreamsOK
<1>16. ASSUME NEW c \in Conn, NEW id \in Nat PROVE Carries(r, id, c) <=> Carries(q, id, c)
  <2>1. ASSUME NEW i \in DOMAIN st, st[i].id = id, st[i].subscriber = c PROVE Carries(q, id, c)
    <3>1. i \in kept
      BY <1>3, <2>1, SessionsAssumption DEF st
    <3>2. PICK k \in 1 .. Len(w) : at[k] = i
      BY <1>5, <3>1 DEF TakenFrom
    <3>3. k \in DOMAIN qs /\ qs[k] = st[i]
      BY <1>4, <1>10, <3>2
    <3> QED BY <1>12, <2>1, <3>3 DEF Carries
  <2>2. ASSUME NEW k \in DOMAIN qs, qs[k].id = id, qs[k].subscriber = c PROVE Carries(r, id, c)
    <3>1. k \in 1 .. Len(w)
      BY <1>4, <1>10, <1>14, <2>2, SessionsAssumption
    <3>2. qs[k] = st[at[k]] /\ at[k] \in DOMAIN st
      BY <1>6, <1>10, <3>1
    <3> QED BY <2>2, <3>2 DEF Carries, st
  <2> QED BY <1>12, <2>1, <2>2 DEF Carries, st
<1>17. qs # <<>>
  BY <1>4, <1>8, <1>10
<1>18. ASSUME NEW k \in DOMAIN qs, k # Len(w) + 1
       PROVE  at[k] \in DOMAIN r.streams /\ qs[k] = r.streams[at[k]]
  BY <1>4, <1>6, <1>10, <1>18 DEF st
<1>19. ASSUME NEW id \in Nat PROVE Names(q, id) => Names(r, id) \/ r.opened <= id
  BY <1>1, <1>10, <1>12, <1>14, <1>18 DEF Names
<1>20. ASSUME NEW id \in Nat, NEW e \in Nat PROVE Holds(q, id, e) => Holds(r, id, e)
  BY <1>10, <1>12, <1>14, <1>18 DEF Holds
<1> QED BY <1>1, <1>12, <1>15, <1>16, <1>17, <1>19, <1>20 DEF Grown

\* emit's target is a stream, if there is one, and a connected one, if there is one.
LEMMA TargetIsAStream ==
  ASSUME NEW st \in Seq(Sessions!Stream), st # <<>>
  PROVE  /\ Sessions!TargetOf(st) \in DOMAIN st
         /\ (\E i \in DOMAIN st : st[i].subscriber # Nothing) => st[Sessions!TargetOf(st)].subscriber # Nothing
<1> DEFINE connected == DOMAIN st \ Sessions!Disconnected(st)
<1>1. Len(st) \in Nat /\ DOMAIN st = 1 .. Len(st) /\ Len(st) \in DOMAIN st
  OBVIOUS
<1>2. CASE connected # {}
  <2>1. connected \in SUBSET (1 .. Len(st))
    BY <1>1
  <2> HIDE DEF connected
  <2>2. Sessions!Max(connected) \in connected
    BY <1>1, <1>2, <2>1, LastPlace
  <2> QED BY <1>1, <1>2, <2>1, <2>2 DEF connected, Sessions!TargetOf, Sessions!Disconnected
<1>3. CASE connected = {}
  BY <1>1, <1>3 DEF Sessions!TargetOf, Sessions!Disconnected
<1> QED BY <1>2, <1>3

\* A history takes a new event at its end and loses its oldest.
LEMMA Logging ==
  ASSUME NEW log \in Seq(Nat), NEW n \in Nat, Increasing(log), Below(log, n), Above(log, 0), 0 < n,
         Len(log) <= ReplayBuffer, NEW next, next = Sessions!Logged(log, n)
  PROVE  /\ next \in Seq(Nat) /\ Increasing(next) /\ Below(next, n + 1) /\ Above(next, 0) /\ Len(next) <= ReplayBuffer
         /\ \A k \in DOMAIN next : next[k] = n \/ \E i \in DOMAIN log : next[k] = log[i]
<1> DEFINE longer == Append(log, n)
<1>1. /\ longer \in Seq(Nat) /\ DOMAIN longer = 1 .. Len(log) + 1 /\ longer[Len(log) + 1] = n
      /\ Len(longer) = Len(log) + 1
      /\ Len(log) \in Nat /\ DOMAIN log = 1 .. Len(log)
      /\ \A k \in 1 .. Len(log) : longer[k] = log[k] /\ log[k] \in Nat
  OBVIOUS
<1>2. ReplayBuffer \in Nat
  BY SessionsAssumption
<1> HIDE DEF longer
<1>3. \A k \in 1 .. Len(log) : 0 < longer[k] /\ longer[k] < n /\ longer[k] \in Nat
  BY <1>1 DEF Below, Above
<1>4. \A j, k \in 1 .. Len(log) : j < k => longer[j] < longer[k]
  BY <1>1 DEF Increasing
<1>5. \A j, k \in DOMAIN longer : j < k => longer[j] < longer[k]
  <2> SUFFICES ASSUME NEW j \in DOMAIN longer, NEW k \in DOMAIN longer, j < k PROVE longer[j] < longer[k]
    OBVIOUS
  <2>1. j \in 1 .. Len(log)
    BY <1>1
  <2>2. k \in 1 .. Len(log) \/ k = Len(log) + 1
    BY <1>1
  <2> QED BY <1>1, <1>3, <1>4, <2>1, <2>2
<1>6. \A k \in DOMAIN longer : /\ 0 < longer[k] /\ longer[k] < n + 1 /\ longer[k] \in Nat
                               /\ longer[k] = n \/ \E i \in DOMAIN log : longer[k] = log[i]
  <2> SUFFICES ASSUME NEW k \in DOMAIN longer
               PROVE  /\ 0 < longer[k] /\ longer[k] < n + 1 /\ longer[k] \in Nat
                      /\ longer[k] = n \/ \E i \in DOMAIN log : longer[k] = log[i]
    OBVIOUS
  <2>1. k \in 1 .. Len(log) \/ k = Len(log) + 1
    BY <1>1
  <2> QED BY <1>1, <1>3, <2>1
<1>7. CASE Len(longer) > ReplayBuffer
  <2>1. next = Tail(longer) /\ longer # <<>>
    BY <1>1, <1>7 DEF Sessions!Logged, longer
  <2>2. /\ next \in Seq(Nat) /\ Len(next) = Len(log) /\ DOMAIN next = 1 .. Len(log)
        /\ \A k \in 1 .. Len(log) : next[k] = longer[k + 1] /\ k + 1 \in DOMAIN longer
    BY <1>1, <2>1
  <2>3. \A j, k \in 1 .. Len(log) : j < k => j + 1 < k + 1
    BY <1>1
  <2>4. Increasing(next)
    BY <1>5, <2>2, <2>3 DEF Increasing
  <2> QED BY <1>6, <2>2, <2>4 DEF Below, Above
<1>8. CASE ~(Len(longer) > ReplayBuffer)
  <2>1. next = longer
    BY <1>8 DEF Sessions!Logged, longer
  <2> QED BY <1>1, <1>2, <1>5, <1>6, <1>8, <2>1 DEF Increasing, Below, Above
<1> QED BY <1>7, <1>8

\* A record that differs in what no stream is about.
LEMMA SameStreams ==
  ASSUME NEW r, StreamsOK(r), r.next \in Nat, r.opened \in Nat,
         NEW q, q.streams = r.streams, q.next = r.next, q.opened = r.opened
  PROVE  Grown(r, q)
<1>1. q.next <= r.next + 1 /\ r.next <= q.next
  OBVIOUS
<1> QED BY <1>1 DEF Grown, StreamsOK, Carries, Names, Holds

\* An event goes to one stream, the one whose transport is told of it.
LEMMA Emitting ==
  ASSUME NEW r \in Sessions!Recorded, StreamsOK(r), NEW q, q = Sessions!Emitted(r)
  PROVE  /\ q \in Sessions!Recorded /\ Grown(r, q) /\ q.next = r.next + 1
         /\ q.advertised = r.advertised /\ q.reads = r.reads /\ q.listed = r.listed /\ q.notice = r.notice /\ q.unread = r.unread
         /\ Sessions!Carrier(r) \in Conn =>
              \E i \in DOMAIN r.streams : r.streams[i].subscriber = Sessions!Carrier(r)
         /\ Sessions!Carrier(r) \in Conn \cup {Nothing}
         /\ \A id \in Nat, c \in Conn : Carries(r, id, c) =>
              /\ Sessions!Carrier(r) \in Conn
              /\ Holds(q, id, r.next) => Sessions!Carrier(r) = c
         /\ \A id \in Nat, other \in Nat : Holds(q, id, r.next) /\ Carries(r, other, Sessions!Carrier(r))
              => Carries(r, id, Sessions!Carrier(r))
<1> DEFINE base == IF r.streams = <<>> THEN Sessions!OpenStream(r) ELSE r
           bs == base.streams
           t == Sessions!TargetOf(bs)
           log == bs[t].log
           next == Sessions!Logged(log, r.next)
           qs == [bs EXCEPT ![t] = [bs[t] EXCEPT !.log = next]]
<1>0. r.next \in Nat /\ r.streams \in Seq(Sessions!Stream)
  BY DEF Sessions!Recorded
<1>1. /\ base \in Sessions!Recorded /\ StreamsOK(base) /\ base.streams # <<>> /\ base.next = r.next
      /\ base.advertised = r.advertised /\ base.reads = r.reads /\ base.listed = r.listed /\ base.notice = r.notice /\ base.unread = r.unread
      /\ Grown(r, base) /\ (r.streams # <<>> => base = r)
  <2>1. CASE r.streams = <<>>
    BY <2>1, Opening DEF Grown
  <2>2. CASE r.streams # <<>>
    <3>1. Grown(r, r)
      BY <1>0, SameStreams DEF Sessions!Recorded
    <3> QED BY <2>2, <3>1
  <2> QED BY <2>1, <2>2
<1> HIDE DEF base
<1>2. bs \in Seq(Sessions!Stream) /\ base.opened \in Nat
  BY <1>1 DEF Sessions!Recorded
<1>3. t \in DOMAIN bs
  BY <1>1, <1>2, TargetIsAStream
<1> HIDE DEF t
<1>4. bs[t] \in Sessions!Stream /\ log \in Seq(Nat)
  <2>1. bs[t] \in Sessions!Stream
    BY <1>2, <1>3
  <2> QED BY <2>1 DEF Sessions!Stream
<1>5. Increasing(log) /\ Below(log, r.next) /\ Above(log, 0) /\ 0 < r.next /\ Len(log) <= ReplayBuffer
  BY <1>1, <1>3 DEF StreamsOK
<1> HIDE DEF bs
<1>6. /\ next \in Seq(Nat) /\ Increasing(next) /\ Below(next, r.next + 1) /\ Above(next, 0) /\ Len(next) <= ReplayBuffer
      /\ \A k \in DOMAIN next : next[k] = r.next \/ \E i \in DOMAIN log : next[k] = log[i]
  <2> HIDE DEF log
  <2> QED BY <1>0, <1>4, <1>5, Logging
<1>7. q = [base EXCEPT !.streams = qs, !.next = r.next + 1]
  BY <1>1 DEF Sessions!Emitted, base, bs, t
<1> HIDE DEF next
<1>8. [bs[t] EXCEPT !.log = next] \in Sessions!Stream
      /\ [bs[t] EXCEPT !.log = next].log = next /\ [bs[t] EXCEPT !.log = next].id = bs[t].id
      /\ [bs[t] EXCEPT !.log = next].subscriber = bs[t].subscriber
  BY <1>4, <1>6 DEF Sessions!Stream
<1>9. qs \in Seq(Sessions!Stream)
  <2> DEFINE x == [bs[t] EXCEPT !.log = next]
  <2>1. x \in Sessions!Stream
    BY <1>8
  <2> HIDE DEF x
  <2>2. [bs EXCEPT ![t] = x] \in Seq(Sessions!Stream)
    BY <1>2, <1>3, <2>1
  <2> QED BY <2>2 DEF x
<1>10. /\ DOMAIN qs = DOMAIN bs
       /\ \A i \in DOMAIN bs : /\ qs[i].id = bs[i].id /\ qs[i].subscriber = bs[i].subscriber
                               /\ qs[i].log = IF i = t THEN next ELSE bs[i].log
  BY <1>2, <1>3, <1>8
<1> HIDE DEF qs, log
<1>11. /\ q \in Sessions!Recorded /\ q.streams = qs /\ q.opened = base.opened /\ q.next = r.next + 1
       /\ q.advertised = r.advertised /\ q.reads = r.reads /\ q.listed = r.listed /\ q.notice = r.notice /\ q.unread = r.unread
  <2>1. q = [streams |-> qs, next |-> r.next + 1, opened |-> base.opened, seen |-> base.seen,
             advertised |-> base.advertised, reads |-> base.reads, listed |-> base.listed, notice |-> base.notice, unread |-> base.unread]
    BY <1>1, <1>7 DEF Sessions!Recorded
  <2> QED BY <1>0, <1>1, <1>9, <2>1 DEF Sessions!Recorded
<1>12. /\ \A i, j \in DOMAIN bs : bs[i].id = bs[j].id => i = j
       /\ \A i \in DOMAIN bs : /\ bs[i].id < base.opened
                               /\ Increasing(bs[i].log) /\ Below(bs[i].log, r.next)
                               /\ Above(bs[i].log, 0) /\ Len(bs[i].log) <= ReplayBuffer
                               /\ bs[i].log \in Seq(Nat)
       /\ \A i, j \in DOMAIN bs : i # j =>
            \A k \in DOMAIN bs[i].log, l \in DOMAIN bs[j].log : bs[i].log[k] # bs[j].log[l]
  <2>1. \A i \in DOMAIN bs : bs[i].log \in Seq(Nat)
    <3> SUFFICES ASSUME NEW i \in DOMAIN bs PROVE bs[i].log \in Seq(Nat)
      OBVIOUS
    <3>1. bs[i] \in Sessions!Stream
      BY <1>2
    <3> QED BY <3>1 DEF Sessions!Stream
  <2> QED BY <1>1, <2>1 DEF StreamsOK, bs
<1>13. StreamsOK(q)
  <2>1. \A i, j \in DOMAIN qs : qs[i].id = qs[j].id => i = j
    BY <1>10, <1>12
  <2>2. ASSUME NEW i \in DOMAIN qs
        PROVE  /\ qs[i].id < q.opened /\ Increasing(qs[i].log) /\ Below(qs[i].log, q.next)
               /\ Above(qs[i].log, 0) /\ Len(qs[i].log) <= ReplayBuffer
    <3>1. CASE i = t
      BY <1>6, <1>10, <1>11, <1>12, <3>1
    <3>2. CASE i # t
      <4>1. qs[i].log = bs[i].log /\ bs[i].log \in Seq(Nat) /\ Below(bs[i].log, r.next)
        BY <1>10, <1>12, <3>2
      <4>2. Below(bs[i].log, r.next + 1)
        BY <1>0, <4>1 DEF Below
      <4> QED BY <1>10, <1>11, <1>12, <4>1, <4>2
    <3> QED BY <3>1, <3>2
  <2>3. ASSUME NEW j \in DOMAIN bs, j # t, NEW k \in DOMAIN next, NEW l \in DOMAIN bs[j].log
        PROVE  next[k] # bs[j].log[l]
    <3>1. bs[j].log[l] < r.next
      BY <1>12 DEF Below
    <3>2. CASE next[k] = r.next
      BY <1>0, <3>1, <3>2
    <3>3. CASE \E i \in DOMAIN log : next[k] = log[i]
      BY <1>3, <1>12, <2>3, <3>3 DEF log
    <3> QED BY <1>6, <3>2, <3>3
  <2>4. ASSUME NEW i \in DOMAIN qs, NEW j \in DOMAIN qs, i # j,
               NEW k \in DOMAIN qs[i].log, NEW l \in DOMAIN qs[j].log
        PROVE  qs[i].log[k] # qs[j].log[l]
    <3>1. CASE i = t
      BY <1>10, <2>3, <2>4, <3>1
    <3>2. CASE j = t
      BY <1>10, <2>3, <2>4, <3>2
    <3>3. CASE i # t /\ j # t
      BY <1>10, <1>12, <2>4, <3>3
    <3> QED BY <3>1, <3>2, <3>3
  <2>5. Len(qs) = Len(bs)
    BY <1>2, <1>9, <1>10
  <2>6. q.opened # 0 /\ ReplayBuffer # 0 => Len(qs) # 0 /\ (Len(qs) = 1 => q.opened = 1)
    BY <1>1, <1>11, <2>5 DEF StreamsOK, bs
  <2>7. 0 < q.next
    BY <1>0, <1>11
  <2> QED BY <1>11, <2>1, <2>2, <2>4, <2>6, <2>7 DEF StreamsOK
<1>14. \A c \in Conn, id \in Nat : Carries(r, id, c) <=> Carries(q, id, c)
  <2>1. \A c \in Conn, id \in Nat : Carries(base, id, c) <=> Carries(q, id, c)
    BY <1>10, <1>11 DEF Carries, bs
  <2> QED BY <1>1, <2>1 DEF Grown
<1>15. Sessions!Carrier(r) \in Conn \cup {Nothing}
       /\ (Sessions!Carrier(r) \in Conn => \E i \in DOMAIN r.streams : r.streams[i].subscriber = Sessions!Carrier(r))
  <2>1. CASE r.streams = <<>>
    BY <2>1, SessionsAssumption DEF Sessions!Carrier
  <2>2. CASE r.streams # <<>>
    <3>1. Sessions!TargetOf(r.streams) \in DOMAIN r.streams
      BY <1>0, <2>2, TargetIsAStream
    <3>2. r.streams[Sessions!TargetOf(r.streams)] \in Sessions!Stream
      BY <1>0, <3>1
    <3>3. Sessions!Carrier(r) = r.streams[Sessions!TargetOf(r.streams)].subscriber
      BY <2>2 DEF Sessions!Carrier
    <3> QED BY <3>1, <3>2, <3>3 DEF Sessions!Stream
  <2> QED BY <2>1, <2>2
<1>16. r.next <= q.next /\ q.next <= r.next + 1 /\ r.next < q.next /\ r.opened <= q.opened
  BY <1>0, <1>1, <1>11 DEF Grown
<1>17. ASSUME NEW id \in Nat, NEW e \in Nat, Holds(q, id, e) PROVE Holds(base, id, e) \/ (e = r.next /\ id = bs[t].id)
  <2>1. PICK i \in DOMAIN qs : qs[i].id = id /\ \E k \in DOMAIN qs[i].log : qs[i].log[k] = e
    BY <1>11, <1>17 DEF Holds
  <2>2. CASE i = t
    <3>1. PICK k \in DOMAIN next : next[k] = e
      BY <1>3, <1>10, <2>1, <2>2
    <3>2. e = r.next \/ \E l \in DOMAIN bs[t].log : bs[t].log[l] = e
      BY <1>6, <3>1 DEF log
    <3> QED BY <1>3, <1>10, <2>1, <2>2, <3>2 DEF Holds, bs
  <2>3. CASE i # t
    BY <1>10, <2>1, <2>3 DEF Holds, bs
  <2> QED BY <2>2, <2>3
<1>18. \A id \in Nat, e \in Nat : Holds(q, id, e) => Holds(r, id, e) \/ (e = r.next /\ r.next < q.next)
  <2>1. \A id \in Nat, e \in Nat : Holds(base, id, e) => Holds(r, id, e)
    BY <1>1, <1>16 DEF Grown
  <2> QED BY <1>16, <1>17, <2>1
<1>19. \A id \in Nat : Names(q, id) => Names(r, id) \/ r.opened <= id
  <2>1. \A id \in Nat : Names(q, id) => Names(base, id)
    BY <1>10, <1>11 DEF Names, bs
  <2> QED BY <1>1, <2>1 DEF Grown
<1>20. Grown(r, q)
  BY <1>13, <1>14, <1>16, <1>18, <1>19 DEF Grown
<1>21. \A id \in Nat : Holds(q, id, r.next) => id = bs[t].id
  <2>1. ASSUME NEW id \in Nat, Holds(base, id, r.next) PROVE FALSE
    <3>1. PICK i \in DOMAIN bs : \E k \in DOMAIN bs[i].log : bs[i].log[k] = r.next
      BY <2>1 DEF Holds, bs
    <3> QED BY <1>0, <1>12, <3>1 DEF Below
  <2> QED BY <1>0, <1>17, <2>1
<1>22. ASSUME NEW id \in Nat, NEW c \in Conn, Carries(r, id, c)
       PROVE  /\ Sessions!Carrier(r) \in Conn /\ Carries(r, bs[t].id, Sessions!Carrier(r))
              /\ id = bs[t].id => Sessions!Carrier(r) = c
  <2>1. PICK i \in DOMAIN r.streams : r.streams[i].id = id /\ r.streams[i].subscriber = c
    BY <1>22 DEF Carries
  <2>2. r.streams # <<>> /\ bs = r.streams /\ t = Sessions!TargetOf(r.streams)
    BY <1>0, <1>1, <2>1 DEF bs, t
  <2>3. Sessions!Carrier(r) = bs[t].subscriber
    BY <2>2 DEF Sessions!Carrier
  <2>4. bs[t].subscriber # Nothing
    BY <1>0, <2>1, <2>2, TargetIsAStream, SessionsAssumption
  <2>5. Sessions!Carrier(r) \in Conn
    BY <1>15, <2>3, <2>4
  <2>6. id = bs[t].id => i = t
    BY <1>3, <1>12, <2>1, <2>2
  <2> QED BY <1>3, <2>1, <2>2, <2>3, <2>5, <2>6 DEF Carries
<1>23. \A id \in Nat, other \in Nat : Holds(q, id, r.next) /\ Carries(r, other, Sessions!Carrier(r))
              => Carries(r, id, Sessions!Carrier(r))
  <2> SUFFICES ASSUME NEW id \in Nat, NEW other \in Nat, Holds(q, id, r.next), Carries(r, other, Sessions!Carrier(r))
               PROVE  Carries(r, id, Sessions!Carrier(r))
    OBVIOUS
  <2>1. CASE Sessions!Carrier(r) \in Conn
    BY <1>21, <1>22, <2>1
  <2>2. CASE Sessions!Carrier(r) = Nothing
    <3>1. r.streams # <<>> /\ bs = r.streams /\ t = Sessions!TargetOf(r.streams)
      BY <1>0, <1>1 DEF Carries, bs, t
    <3> QED BY <1>3, <1>21, <2>2, <3>1 DEF Carries, Sessions!Carrier
  <2> QED BY <1>15, <2>1, <2>2
<1> QED BY <1>11, <1>15, <1>20, <1>21, <1>22, <1>23

\* A GET resumes a stream that there is, or none.
LEMMA Resuming ==
  ASSUME NEW st \in Seq(Sessions!Stream), NEW last PROVE Sessions!Resumed(st, last) \in {0} \cup DOMAIN st
<1> DEFINE claims == {i \in DOMAIN st : last \in Sessions!ToSet(st[i].log)}
<1>1. Len(st) \in Nat /\ DOMAIN st = 1 .. Len(st)
  OBVIOUS
<1>2. claims \in SUBSET (1 .. Len(st))
  BY <1>1
<1>3. Len(st) = 1 => 1 \in DOMAIN st
  BY <1>1
<1>4. Sessions!Resumed(st, last) = IF last = Nothing THEN 0 ELSE IF claims # {} THEN Sessions!Min(claims)
                                   ELSE IF Len(st) = 1 THEN 1 ELSE 0
  BY DEF Sessions!Resumed
<1> HIDE DEF claims
<1>5. claims # {} => Sessions!Min(claims) \in claims
  BY <1>1, <1>2, LastPlace
<1> QED BY <1>1, <1>2, <1>3, <1>4, <1>5

\* A request drops the idle sessions and reaches s, whose record grows.
LEMMA Requested ==
  ASSUME StreamsInv, NEW s \in Session, Sessions!Reaches(s), NEW q \in Sessions!Recorded, Grown(sessions[s], q), q.next = sessions[s].next,
         sessions' = Sessions!Touched(s, q), dropped' = dropped \cup Sessions!Idle,
         clock' = clock, toolset' = toolset, conns' \in [Conn -> Sessions!Response \cup {Nothing}],
         \A c \in Conn : conns'[c] = Sessions!EndConns(Sessions!Idle)[c] \/ Answers(c)
  PROVE  Refreshes(Sessions!Idle)
<1> DEFINE L == Sessions!Live
           gone == Sessions!Idle
           t == [q EXCEPT !.seen = clock]
<1>1. gone \in SUBSET L /\ s \in L \ gone /\ L \subseteq Session
  BY DEF Sessions!Idle, Sessions!Reaches, Sessions!Live
<1>2. sessions \in [Session -> Sessions!Recorded \cup {Nothing}] /\ dropped \in SUBSET Session
      /\ clock \in Nat /\ toolset \in Nat
  BY DEF StreamsInv, StreamsTypeOK
<1>3. t \in Sessions!Recorded /\ t.streams = q.streams /\ t.next = q.next /\ t.opened = q.opened
  <2>1. t = [streams |-> q.streams, next |-> q.next, opened |-> q.opened, seen |-> clock, advertised |-> q.advertised,
             reads |-> q.reads, listed |-> q.listed, notice |-> q.notice, unread |-> q.unread]
    BY DEF Sessions!Recorded
  <2> QED BY <1>2, <2>1 DEF Sessions!Recorded
<1> HIDE DEF t
<1>4. Grown(sessions[s], t)
  <2>1. StreamsOK(t)
    BY <1>3 DEF Grown, StreamsOK
  <2>2. \A id, c : Carries(t, id, c) <=> Carries(q, id, c)
    BY <1>3 DEF Carries
  <2>3. \A id, e : (Names(t, id) <=> Names(q, id)) /\ (Holds(t, id, e) <=> Holds(q, id, e))
    BY <1>3 DEF Names, Holds
  <2> QED BY <1>3, <2>1, <2>2, <2>3 DEF Grown
<1>5. sessions' = [u \in Session |-> IF u = s THEN t ELSE IF u \in gone THEN Nothing ELSE sessions[u]]
  <2>1. sessions' = [Sessions!Without(gone) EXCEPT ![s] = t]
    BY DEF Sessions!Touched, t
  <2> QED BY <1>1, <1>2, <2>1 DEF Sessions!Without
<1> HIDE DEF gone
<1>6. StreamsTypeOK'
  BY <1>1, <1>2, <1>3, <1>5 DEF StreamsTypeOK, gone
<1>7. ASSUME NEW u \in L \ gone PROVE sessions'[u] # Nothing /\ Grown(sessions[u], sessions'[u]) /\ sessions'[u].next = sessions[u].next
  <2>1. CASE u = s
    BY <1>3, <1>4, <1>5, <1>1, <2>1, SessionsAssumption
  <2>2. CASE u # s
    <3>1. sessions'[u] = sessions[u] /\ sessions[u] # Nothing /\ sessions[u] \in Sessions!Recorded
      BY <1>1, <1>2, <1>5, <1>7, <2>2 DEF Sessions!Live
    <3>2. StreamsOK(sessions[u]) /\ sessions[u].next \in Nat /\ sessions[u].opened \in Nat
      BY <1>7, <3>1 DEF StreamsInv, Sessions!Recorded
    <3> QED BY <3>1, <3>2, SameStreams
  <2> QED BY <2>1, <2>2
<1>8. \A u \in Session \ (L \ gone) : sessions'[u] = Nothing
  BY <1>1, <1>5 DEF Sessions!Live
<1> QED BY <1>1, <1>6, <1>7, <1>8 DEF Refreshes, gone

LEMMA Dropping ==
  ASSUME StreamsInv, NEW gone \in SUBSET Sessions!Live, Sessions!Drop(gone) PROVE Refreshes(gone)
<1> DEFINE L == Sessions!Live
<1>1. L \subseteq Session /\ sessions \in [Session -> Sessions!Recorded \cup {Nothing}] /\ dropped \in SUBSET Session
      /\ clock \in Nat /\ toolset \in Nat
  BY DEF StreamsInv, StreamsTypeOK, Sessions!Live
<1>2. /\ sessions' = [u \in Session |-> IF u \in gone THEN Nothing ELSE sessions[u]]
      /\ dropped' = dropped \cup gone /\ conns' = Sessions!EndConns(gone) /\ clock' = clock /\ toolset' = toolset
  BY <1>1 DEF Sessions!Drop, Sessions!Without
<1>3. StreamsTypeOK'
  BY <1>1, <1>2, Ending DEF StreamsTypeOK
<1>4. ASSUME NEW u \in L \ gone PROVE sessions'[u] # Nothing /\ Grown(sessions[u], sessions'[u]) /\ sessions'[u].next = sessions[u].next
  <2>1. sessions'[u] = sessions[u] /\ sessions[u] # Nothing /\ sessions[u] \in Sessions!Recorded
    BY <1>1, <1>2 DEF Sessions!Live
  <2>2. StreamsOK(sessions[u]) /\ sessions[u].next \in Nat /\ sessions[u].opened \in Nat
    BY <2>1 DEF StreamsInv, Sessions!Recorded
  <2> QED BY <2>1, <2>2, SameStreams
<1>5. \A u \in Session \ (L \ gone) : sessions'[u] = Nothing
  BY <1>2 DEF Sessions!Live
<1>6. \A c \in Conn : conns'[c] = Sessions!EndConns(gone)[c]
  BY <1>2
<1> QED BY <1>2, <1>3, <1>4, <1>5, <1>6 DEF Refreshes

\* Nothing happens to any session's streams, or to any transport.
LEMMA StreamsRest ==
  ASSUME StreamsInv, sessions' \in [Session -> Sessions!Recorded \cup {Nothing}], clock' \in Nat, toolset' \in Nat,
         dropped' = dropped, conns' = conns,
         \A s \in Session : IF s \in Sessions!Live
                            THEN /\ sessions'[s] # Nothing /\ sessions'[s].streams = sessions[s].streams
                                 /\ sessions'[s].next = sessions[s].next /\ sessions'[s].opened = sessions[s].opened
                            ELSE sessions'[s] = Nothing
  PROVE  Refreshes({})
<1>1. StreamsTypeOK'
  BY DEF StreamsInv, StreamsTypeOK
<1>2. ASSUME NEW s \in Sessions!Live
      PROVE  sessions'[s] # Nothing /\ Grown(sessions[s], sessions'[s]) /\ sessions'[s].next = sessions[s].next
  <2>1. s \in Session /\ sessions[s] \in Sessions!Recorded /\ StreamsOK(sessions[s])
    BY LiveIs DEF StreamsInv
  <2> QED BY <2>1, SameStreams DEF Sessions!Recorded
<1>3. \A c \in Conn : conns'[c] = Sessions!EndConns({})[c]
  BY Ending
<1> QED BY <1>1, <1>2, <1>3 DEF Refreshes

\* The transport of c is attached, or finds its stream forgotten: it got what the
\* answer carried, and what came since fell into the window.
LEMMA Joining ==
  ASSUME StreamsInv, HeardInv, \A d \in Conn : conns[d] # Nothing => Keeps(d),
         NEW c \in Conn, conns[c] # Nothing, conns[c].state = "answered",
         conns'[c].session = conns[c].session, conns'[c].stream = conns[c].stream,
         conns'[c].from = conns[c].from, conns'[c].asked = conns[c].asked,
         conns'[c].backlog = conns[c].backlog, conns'[c].got = conns[c].backlog,
         conns'[c].state \in {"attached", "orphan", "ended"},
         NEW s, s = conns[c].session, NEW r, r = sessions[s], NEW q, q = sessions'[s], NEW id, id = conns[c].stream,
         s \in Sessions!Live' =>
           /\ s \in Sessions!Live /\ q.next = r.next /\ q.opened = r.opened
           /\ conns'[c].joined = r.next /\ conns'[c].state # "ended"
           /\ \A i \in Nat, e \in Nat : Holds(q, i, e) => Holds(r, i, e)
           /\ conns'[c].state = "orphan" => ~Names(q, id)
  PROVE  HeardOK(c)'
<1>1. HeardOK(c) /\ StreamsTypeOK /\ conns[c].got = <<>>
  BY DEF HeardInv, StreamsInv, ConnOK
<1>2. /\ id \in Nat /\ conns[c].from \in Nat /\ conns[c].asked \in Nat /\ Told(c) \subseteq Nat
  BY <1>1, ConnIs
<1>3. Told(c)' = Told(c) /\ Sessions!Got(c)' = Told(c)
  <2>1. Sessions!ToSet(conns[c].got) = {}
    BY <1>1 DEF Sessions!ToSet
  <2> QED BY <2>1 DEF Told, Sessions!Got
<1>4. \A e \in Told(c)' : conns'[c].from < e
  BY <1>1, <1>3 DEF HeardOK
<1>5. ASSUME s \in Sessions!Live' PROVE Past(c, r) /\ Covered(c, r) /\ StreamsOK(r) /\ r.next \in Nat
  <2>1. Past(c, r) /\ Covered(c, r)
    BY <1>1, <1>5 DEF HeardOK
  <2>2. r \in Sessions!Recorded /\ StreamsOK(r)
    BY <1>1, <1>5, LiveIs DEF StreamsInv
  <2> QED BY <2>1, <2>2 DEF Sessions!Recorded
<1>6. ASSUME s \in Sessions!Live' PROVE Past(c, q)'
  BY <1>2, <1>3, <1>5, <1>6 DEF Past
<1>7. ASSUME s \in Sessions!Live', NEW e \in Nat, Holds(q, id, e)
      PROVE  /\ e <= conns[c].from => HeardOn(s, id, e)'
             /\ conns[c].from < e => e \in Sessions!Got(c)' \/ Sessions!InWindow(c, e)'
  <2>1. Holds(r, id, e)
    BY <1>2, <1>7
  <2>2. e < r.next
    BY <1>5, <1>7, <2>1, HeldIsPast
  <2>3. e <= conns[c].from => HeardOn(s, id, e)'
    <3>1. HeardOn(s, id, e) => HeardOn(s, id, e)'
      BY <1>1, <1>2, <1>7, <2>2, StaysHeard
    <3> QED BY <1>5, <1>7, <2>1, <3>1 DEF Covered
  <2>4. conns[c].from < e /\ e < conns[c].asked => e \in Told(c)
    BY <1>5, <1>7, <2>1 DEF Covered
  <2>5. conns[c].asked <= e => Sessions!InWindow(c, e)'
    BY <1>7, <2>2 DEF Sessions!InWindow
  <2> QED BY <1>2, <1>3, <2>3, <2>4, <2>5
<1>8. ASSUME NEW u \in Sessions!Live', u = conns'[c].session
      PROVE  /\ Past(c, sessions[u])' /\ Covered(c, sessions[u])' /\ Accompanied(c, sessions[u])'
             /\ conns'[c].state = "orphan" => ~Names(sessions'[u], conns'[c].stream)
  <2>1. u = s /\ sessions'[u] = q
    BY <1>8
  <2>2. Past(c, sessions[u])'
    BY <1>6, <1>8, <2>1 DEF Past
  <2>3. Covered(c, sessions[u])'
    BY <1>7, <1>8, <2>1 DEF Covered
  <2>4. Accompanied(c, sessions[u])'
    BY <1>5, <1>8, <2>1 DEF Accompanied
  <2> QED BY <1>8, <2>1, <2>2, <2>3, <2>4
<1> QED BY <1>4, <1>8 DEF HeardOK

\* A step that leaves the streams what they are.
LEMMA HeardElsewhere ==
  ASSUME StreamsInv, StreamsInv', HeardInv, \A d \in Conn : conns[d] # Nothing => Keeps(d),
         \A d \in Conn : conns'[d] # Nothing => conns[d] # Nothing /\ (Continues(d) \/ HeardOK(d)'),
         \A s \in Sessions!Live' : /\ s \in Sessions!Live /\ Stretched(sessions[s], sessions'[s])
                                   /\ sessions'[s].next = sessions[s].next
  PROVE  HeardInv'
<1> SUFFICES ASSUME NEW d \in Conn, conns'[d] # Nothing PROVE HeardOK(d)'
  BY DEF HeardInv
<1>1. CASE Continues(d)
  <2> DEFINE s == conns[d].session
             r == sessions[s]
             q == sessions'[s]
  <2>1. StreamsTypeOK' /\ \A u \in Sessions!Live' : StreamsOK(sessions'[u])
    BY DEF StreamsInv
  <2>2. conns[d] # Nothing
    OBVIOUS
  <2>3. s \in Sessions!Live' => s \in Sessions!Live /\ Stretched(r, q) /\ (q.next = r.next \/ Emits(s))
    OBVIOUS
  <2> QED BY <1>1, <2>1, <2>2, <2>3, Continuing
<1>2. CASE HeardOK(d)'
  BY <1>2
<1> QED BY <1>1, <1>2

\* Streams that change their subscribers keep their ids and histories.
LEMMA Resubscribed ==
  ASSUME NEW r \in Sessions!Recorded, StreamsOK(r), NEW qs \in Seq(Sessions!Stream), DOMAIN qs = DOMAIN r.streams,
         \A i \in DOMAIN qs : qs[i].id = r.streams[i].id /\ qs[i].log = r.streams[i].log,
         NEW q, q = [r EXCEPT !.streams = qs]
  PROVE  /\ q \in Sessions!Recorded /\ StreamsOK(q) /\ q.streams = qs /\ q.next = r.next /\ q.opened = r.opened
         /\ Stretched(r, q)
         /\ \A id, e : (Names(q, id) <=> Names(r, id)) /\ (Holds(q, id, e) <=> Holds(r, id, e))
<1>0. /\ r.streams \in Seq(Sessions!Stream) /\ r.next \in Nat /\ r.opened \in Nat
  BY DEF Sessions!Recorded
<1>00. Len(qs) = Len(r.streams)
  BY <1>0
<1>1. /\ q \in Sessions!Recorded /\ q.streams = qs /\ q.next = r.next /\ q.opened = r.opened
  <2>1. q = [streams |-> qs, next |-> r.next, opened |-> r.opened, seen |-> r.seen, advertised |-> r.advertised,
             reads |-> r.reads, listed |-> r.listed, notice |-> r.notice, unread |-> r.unread]
    BY DEF Sessions!Recorded
  <2> QED BY <2>1 DEF Sessions!Recorded
<1>2. \A i, j \in DOMAIN qs : qs[i].id = qs[j].id => i = j
  BY DEF StreamsOK
<1>3. ASSUME NEW i \in DOMAIN qs
      PROVE  /\ qs[i].id < q.opened /\ Increasing(qs[i].log) /\ Below(qs[i].log, q.next)
             /\ Above(qs[i].log, 0) /\ Len(qs[i].log) <= ReplayBuffer
  BY <1>1 DEF StreamsOK
<1>4. ASSUME NEW i \in DOMAIN qs, NEW j \in DOMAIN qs, i # j, NEW k \in DOMAIN qs[i].log, NEW l \in DOMAIN qs[j].log
      PROVE  qs[i].log[k] # qs[j].log[l]
  <2>1. \A a \in DOMAIN r.streams[i].log, b \in DOMAIN r.streams[j].log : r.streams[i].log[a] # r.streams[j].log[b]
    BY <1>4 DEF StreamsOK
  <2> QED BY <2>1
<1>5. \A id, e : (Names(q, id) <=> Names(r, id)) /\ (Holds(q, id, e) <=> Holds(r, id, e))
  BY <1>1 DEF Names, Holds
<1>6. Stretched(r, q)
  <2>1. r.next <= q.next /\ q.next <= r.next + 1 /\ r.opened <= q.opened
    BY <1>0, <1>1
  <2>2. \A id : Names(q, id) <=> Names(r, id)
    BY <1>5
  <2>3. \A id, e : Holds(q, id, e) <=> Holds(r, id, e)
    BY <1>5
  <2> QED BY ONLY <2>1, <2>2, <2>3 DEF Stretched
<1>7. 0 < q.next /\ (q.opened # 0 /\ ReplayBuffer # 0 => Len(qs) # 0 /\ (Len(qs) = 1 => q.opened = 1))
  BY <1>00, <1>1 DEF StreamsOK
<1>8. StreamsOK(q)
  BY <1>1, <1>2, <1>3, <1>4, <1>7 DEF StreamsOK
<1> QED BY <1>1, <1>5, <1>6, <1>8

\* The transport of c takes over its stream, if the session still has it.
LEMMA Attaching == ASSUME StreamsInv, HeardInv, NEW c \in Conn, Sessions!Attach(c) PROVE StreamsInv' /\ HeardInv'
<1> DEFINE L == Sessions!Live
           s == conns[c].session
           st == sessions[s].streams
           at(i) == st[i].id = conns[c].stream
           before == {st[i].subscriber : i \in {i \in DOMAIN st : at(i)}}
           got(d) == [conns[d] EXCEPT !.got = @ \o conns[d].backlog]
<1>1. /\ conns \in [Conn -> Sessions!Response \cup {Nothing}] /\ sessions \in [Session -> Sessions!Recorded \cup {Nothing}]
      /\ L \cap dropped = {} /\ L \subseteq Session
  BY DEF StreamsInv, StreamsTypeOK, Sessions!Live
<1>2. /\ conns[c] # Nothing /\ conns[c] \in Sessions!Response /\ conns[c].state = "answered" /\ ConnOK(c)
      /\ dropped' = dropped /\ clock' = clock /\ toolset' = toolset
  <2>1. /\ conns[c] # Nothing /\ conns[c].state = "answered" /\ dropped' = dropped /\ clock' = clock /\ toolset' = toolset
    BY DEF Sessions!Attach
  <2>2. conns[c] \in Sessions!Response
    BY <1>1, <2>1
  <2>3. ConnOK(c)
    BY <2>1 DEF StreamsInv
  <2> QED BY <2>1, <2>2, <2>3
<1>3. conns[c].got = <<>> /\ conns[c].backlog \in Seq(Nat) /\ Increasing(conns[c].backlog) /\ conns[c].stream \in Nat
      /\ (s \in L => Below(conns[c].backlog, sessions[s].next)) /\ s \in L \cup dropped /\ s \in Session
  BY <1>2 DEF ConnOK, Sessions!Response
<1>4. conns[c].got \o conns[c].backlog = conns[c].backlog
  BY <1>3
<1>5. CASE s \in dropped
  <2>1. sessions' = sessions /\ conns' = [conns EXCEPT ![c] = [conns[c] EXCEPT !.got = conns[c].backlog, !.state = "ended"]]
    <3>1. /\ sessions' = sessions
          /\ conns' = [[conns EXCEPT ![c].got = @ \o conns[c].backlog] EXCEPT ![c].state = "ended"]
      BY <1>5 DEF Sessions!Attach
    <3> QED BY <1>1, <1>2, <1>4, <3>1
  <2>2. /\ conns'[c] \in Sessions!Response /\ conns'[c].session = s /\ conns'[c].got = conns[c].backlog /\ conns'[c].state = "ended"
        /\ conns'[c].stream = conns[c].stream /\ conns'[c].from = conns[c].from /\ conns'[c].asked = conns[c].asked
        /\ conns'[c].backlog = conns[c].backlog
    BY <1>1, <1>2, <1>3, <2>1 DEF Sessions!Response
  <2>3. \A d \in Conn \ {c} : conns'[d] = conns[d]
    BY <1>1, <2>1
  <2>4. StreamsTypeOK'
    BY <1>1, <1>2, <2>1, <2>2, <2>3 DEF StreamsInv, StreamsTypeOK
  <2>5. L' = L
    BY <2>1 DEF Sessions!Live
  <2>6. ASSUME NEW u \in L, NEW i \in DOMAIN sessions[u].streams, NEW d \in Conn, sessions[u].streams[i].subscriber = d
        PROVE  conns'[d] # Nothing /\ conns'[d].state = "attached" /\ conns'[d].session = u
               /\ conns'[d].stream = sessions[u].streams[i].id
    BY <1>2, <2>3, <2>6 DEF StreamsInv
  <2>7. ASSUME NEW d \in Conn, conns'[d] # Nothing PROVE ConnOK(d)'
    <3>1. CASE d = c
      BY <1>2, <1>3, <1>5, <2>2, <3>1 DEF ConnOK
    <3>2. CASE d # c
      BY <1>2, <2>1, <2>3, <2>5, <2>7, <3>2 DEF ConnOK, StreamsInv
    <3> QED BY <3>1, <3>2
  <2>8. StreamsInv'
    BY <1>1, <1>2, <2>1, <2>4, <2>5, <2>6, <2>7 DEF StreamsInv
  <2>9. s \notin L'
    BY <1>1, <1>5, <2>5
  <2>10. ASSUME NEW d \in Conn, conns[d] # Nothing PROVE Keeps(d) /\ (d # c => Continues(d))
    <3>1. CASE d = c
      <4>1. Sessions!Got(c) = {}
        BY <1>3 DEF Sessions!Got, Sessions!ToSet
      <4>2. conns'[c] # Nothing
        BY <2>2, SessionsAssumption
      <4> QED BY <1>1, <1>2, <1>5, <2>2, <3>1, <4>1, <4>2 DEF Keeps
    <3>2. CASE d # c
      <4>1. conns'[d] = conns[d]
        BY <2>3, <3>2
      <4>2. Continues(d)
        BY <2>10, <4>1 DEF Continues
      <4>3. StreamsTypeOK
        BY DEF StreamsInv
      <4> QED BY <2>5, <2>10, <4>2, <4>3, ContinuesKeeps
    <3> QED BY <3>1, <3>2
  <2>11. HeardOK(c)'
    <3>1. conns'[c].state \in {"attached", "orphan", "ended"} /\ conns[c] # Nothing /\ conns[c].state = "answered"
      BY <1>2, <2>2
    <3>2. \A d \in Conn : conns[d] # Nothing => Keeps(d)
      BY <2>10
    <3>3. conns[c].session \notin Sessions!Live'
      BY <2>9
    <3>4. /\ conns'[c].session = conns[c].session /\ conns'[c].stream = conns[c].stream
          /\ conns'[c].from = conns[c].from /\ conns'[c].asked = conns[c].asked
          /\ conns'[c].backlog = conns[c].backlog /\ conns'[c].got = conns[c].backlog
      BY <2>2
    <3> HIDE DEF L, s, st, before
    <3> QED BY <3>1, <3>2, <3>3, <3>4, Joining
  <2>12. \A u \in L' : u \in L /\ Stretched(sessions[u], sessions'[u]) /\ sessions'[u].next = sessions[u].next
    <3> SUFFICES ASSUME NEW u \in L PROVE Stretched(sessions[u], sessions[u])
      BY <2>1, <2>5
    <3>1. sessions[u].next \in Nat /\ sessions[u].opened \in Nat
      BY <1>1, LiveIs DEF StreamsInv, Sessions!Recorded
    <3> QED BY <3>1 DEF Stretched
  <2>13. \A d \in Conn : conns'[d] # Nothing => conns[d] # Nothing /\ (Continues(d) \/ HeardOK(d)')
    BY <1>2, <2>3, <2>10, <2>11
  <2>14. HeardInv'
    BY <2>8, <2>10, <2>12, <2>13, HeardElsewhere
  <2> QED BY <2>8, <2>14
<1>6. CASE s \notin dropped
  <2> DEFINE cc == [conns[c] EXCEPT !.got = conns[c].backlog, !.state = IF before = {} THEN "orphan" ELSE "attached",
                                    !.joined = sessions[s].next]
             qs == [i \in DOMAIN st |-> IF at(i) THEN [st[i] EXCEPT !.subscriber = c] ELSE st[i]]
             q == [sessions[s] EXCEPT !.streams = qs]
  <2>1. s \in L /\ sessions[s] \in Sessions!Recorded /\ StreamsOK(sessions[s])
    BY <1>1, <1>3, <1>6 DEF StreamsInv, Sessions!Live
  <2>2. /\ conns' = [d \in Conn |-> IF d = c THEN cc
                                    ELSE IF d \in before THEN [conns[d] EXCEPT !.state = "displaced"] ELSE conns[d]]
        /\ sessions' = [sessions EXCEPT ![s] = q]
    <3>1. /\ conns' = [d \in DOMAIN conns |->
                   IF d = c THEN [[conns EXCEPT ![c].got = @ \o conns[c].backlog][c]
                                    EXCEPT !.state = IF before = {} THEN "orphan" ELSE "attached", !.joined = sessions[s].next]
                   ELSE IF d \in before THEN [conns[d] EXCEPT !.state = "displaced"] ELSE conns[d]]
          /\ sessions' = [sessions EXCEPT ![s].streams = [i \in DOMAIN @ |->
                   IF at(i) THEN [@[i] EXCEPT !.subscriber = c] ELSE @[i]]]
      BY <1>6 DEF Sessions!Attach
    <3>2. [[conns EXCEPT ![c].got = @ \o conns[c].backlog][c]
             EXCEPT !.state = IF before = {} THEN "orphan" ELSE "attached", !.joined = sessions[s].next] = cc
      BY <1>1, <1>2, <1>4
    <3>3. DOMAIN conns = Conn
      BY <1>1
    <3> QED BY <3>1, <3>2, <3>3
  <2>3. st \in Seq(Sessions!Stream) /\ DOMAIN st = 1 .. Len(st) /\ Len(st) \in Nat /\ \A i \in DOMAIN st : st[i] \in Sessions!Stream
    BY <2>1 DEF Sessions!Recorded
  <2>4. \A i \in DOMAIN st : /\ [st[i] EXCEPT !.subscriber = c] \in Sessions!Stream
                             /\ [st[i] EXCEPT !.subscriber = c].id = st[i].id /\ [st[i] EXCEPT !.subscriber = c].log = st[i].log
                             /\ [st[i] EXCEPT !.subscriber = c].subscriber = c
    BY <2>3 DEF Sessions!Stream
  <2>5. /\ DOMAIN qs = DOMAIN st
        /\ \A i \in DOMAIN st : /\ qs[i] \in Sessions!Stream /\ qs[i].id = st[i].id /\ qs[i].log = st[i].log
                                /\ qs[i].subscriber = IF at(i) THEN c ELSE st[i].subscriber
    BY <2>3, <2>4
  <2>6. qs \in Seq(Sessions!Stream)
    <3>1. qs \in [1 .. Len(st) -> Sessions!Stream]
      BY <2>3, <2>4
    <3> HIDE DEF qs, st
    <3> QED BY <2>3, <3>1
  <2> HIDE DEF qs
  <2>7. /\ q \in Sessions!Recorded /\ q.streams = qs /\ q.next = sessions[s].next /\ q.opened = sessions[s].opened
        /\ StreamsOK(q) /\ Stretched(sessions[s], q)
        /\ \A id, e : (Names(q, id) <=> Names(sessions[s], id)) /\ (Holds(q, id, e) <=> Holds(sessions[s], id, e))
    BY <2>1, <2>5, <2>6, Resubscribed
  <2> HIDE DEF q
  <2>9. sessions'[s] = q /\ \A u \in Session \ {s} : sessions'[u] = sessions[u]
    BY <1>1, <1>3, <2>2
  <2>10. /\ cc \in Sessions!Response /\ cc.session = s /\ cc.stream = conns[c].stream /\ cc.got = conns[c].backlog
         /\ cc.state = IF before = {} THEN "orphan" ELSE "attached"
         /\ cc.from = conns[c].from /\ cc.asked = conns[c].asked /\ cc.backlog = conns[c].backlog /\ cc.joined = sessions[s].next
    <3>1. sessions[s].next \in Nat
      BY <2>1 DEF Sessions!Recorded
    <3> QED BY <1>2, <1>3, <3>1 DEF Sessions!Response
  <2> HIDE DEF cc
  <2>11. cc # Nothing /\ q # Nothing
    BY <2>7, <2>10, SessionsAssumption
  <2>12. L' = L
    BY <1>1, <2>1, <2>9, <2>11 DEF Sessions!Live
  <2>13. ASSUME NEW d \in Conn, d \in before
         PROVE  d # c /\ conns[d] # Nothing /\ conns[d] \in Sessions!Response /\ conns[d].state = "attached" /\ conns[d].session = s
                /\ conns[d].stream = conns[c].stream
    <3>1. PICK i \in DOMAIN st : at(i) /\ st[i].subscriber = d
      BY <2>13
    <3> QED BY <1>1, <1>2, <2>1, <3>1 DEF StreamsInv
  <2>14. conns'[c] = cc /\ \A d \in Conn \ {c} :
           conns'[d] = IF d \in before THEN [conns[d] EXCEPT !.state = "displaced"] ELSE conns[d]
    BY <2>2
  <2>15. \A d \in Conn : conns'[d] \in Sessions!Response \cup {Nothing}
    <3>1. \A d \in Conn : d \in before => [conns[d] EXCEPT !.state = "displaced"] \in Sessions!Response
      BY <2>13 DEF Sessions!Response
    <3> HIDE DEF before
    <3> QED BY <1>1, <2>10, <2>14, <3>1
  <2>16. StreamsTypeOK'
    <3>1. conns' \in [Conn -> Sessions!Response \cup {Nothing}]
      BY <2>2, <2>15
    <3>2. sessions' \in [Session -> Sessions!Recorded \cup {Nothing}]
      BY <1>1, <1>3, <2>2, <2>7
    <3> QED BY <1>2, <3>1, <3>2 DEF StreamsInv, StreamsTypeOK
  <2>17. ASSUME NEW u \in L, NEW i \in DOMAIN sessions'[u].streams, NEW d \in Conn, sessions'[u].streams[i].subscriber = d
         PROVE  conns'[d] # Nothing /\ conns'[d].state = "attached" /\ conns'[d].session = u
                /\ conns'[d].stream = sessions'[u].streams[i].id
    <3>1. CASE u = s /\ at(i)
      <4>0. sessions'[u].streams = qs /\ i \in DOMAIN st
        BY <2>5, <2>7, <2>9, <3>1
      <4>1. i \in DOMAIN st /\ d = c /\ before # {}
        BY <2>5, <2>17, <3>1, <4>0
      <4>2. sessions'[u].streams[i].id = conns[c].stream
        BY <2>5, <2>7, <2>9, <3>1, <4>1
      <4> QED BY <2>10, <2>11, <2>14, <3>1, <4>1, <4>2
    <3>2. CASE u = s /\ ~at(i)
      <4>1. i \in DOMAIN st /\ st[i].subscriber = d /\ sessions'[u].streams[i].id = st[i].id
        BY <2>5, <2>7, <2>9, <2>17, <3>2
      <4>2. conns[d] # Nothing /\ conns[d].state = "attached" /\ conns[d].session = s /\ conns[d].stream = st[i].id
        BY <2>1, <4>1 DEF StreamsInv
      <4>3. d # c /\ d \notin before
        BY <1>2, <2>13, <3>2, <4>2
      <4> QED BY <2>14, <3>2, <4>1, <4>2, <4>3
    <3>3. CASE u # s
      <4>1. sessions'[u] = sessions[u]
        BY <1>1, <2>9, <3>3
      <4>2. conns[d] # Nothing /\ conns[d].state = "attached" /\ conns[d].session = u /\ conns[d].stream = sessions[u].streams[i].id
        BY <2>17, <4>1 DEF StreamsInv
      <4>3. d # c /\ d \notin before
        BY <1>2, <2>13, <3>3, <4>2
      <4> QED BY <2>14, <4>1, <4>2, <4>3
    <3> QED BY <3>1, <3>2, <3>3
  <2>18. ASSUME NEW d \in Conn, conns'[d] # Nothing PROVE ConnOK(d)'
    <3>1. CASE d = c
      <4>1. before # {} => Carries(q, conns[c].stream, c)
        BY <2>5, <2>7 DEF Carries
      <4>2. conns'[c].session = s /\ conns'[c].stream = conns[c].stream /\ conns'[c].got = conns[c].backlog
            /\ conns'[c].state = IF before = {} THEN "orphan" ELSE "attached"
        BY <2>10, <2>14
      <4> HIDE DEF before
      <4> QED BY <1>3, <2>1, <2>7, <2>9, <2>12, <3>1, <4>1, <4>2 DEF ConnOK
    <3>2. CASE d # c /\ d \in before
      <4>1. conns'[d] = [conns[d] EXCEPT !.state = "displaced"]
        BY <2>14, <3>2
      <4>2. conns'[d].state = "displaced" /\ conns'[d].session = s /\ conns'[d].got = conns[d].got /\ ConnOK(d)
        BY <2>13, <3>2, <4>1 DEF StreamsInv, Sessions!Response
      <4> QED BY <2>1, <2>12, <4>2 DEF ConnOK
    <3>3. CASE d # c /\ d \notin before
      <4>1. conns'[d] = conns[d]
        BY <2>14, <3>3
      <4>2. ConnOK(d)
        BY <2>18, <4>1 DEF StreamsInv
      <4>3. \A u \in L : sessions'[u].next = sessions[u].next
        BY <1>1, <2>7, <2>9
      <4>4. ASSUME NEW u \in L, NEW id, Carries(sessions[u], id, d) PROVE Carries(sessions'[u], id, d)
        <5>1. CASE u = s
          <6>1. PICK i \in DOMAIN st : st[i].id = id /\ st[i].subscriber = d
            BY <4>4, <5>1 DEF Carries
          <6>2. ~at(i)
            BY <3>3, <6>1
          <6>3. i \in DOMAIN qs /\ qs[i].id = id /\ qs[i].subscriber = d
            BY <2>5, <6>1, <6>2
          <6> QED BY <2>7, <2>9, <5>1, <6>3 DEF Carries
        <5>2. CASE u # s
          BY <1>1, <2>9, <4>4, <5>2
        <5> QED BY <5>1, <5>2
      <4> QED BY <1>2, <2>12, <4>1, <4>2, <4>3, <4>4 DEF ConnOK
    <3> QED BY <3>1, <3>2, <3>3
  <2>19. \A u \in L' : StreamsOK(sessions'[u])
    BY <1>1, <2>7, <2>9, <2>12 DEF StreamsInv
  <2>20. StreamsInv'
    BY <1>1, <1>2, <2>12, <2>16, <2>17, <2>18, <2>19 DEF StreamsInv
  <2>21. conns'[c] = cc /\ conns'[c] # Nothing /\ sessions'[s] = q
    BY <2>9, <2>11, <2>14
  <2>22. ASSUME NEW d \in Conn, conns[d] # Nothing PROVE Keeps(d) /\ (d # c => Continues(d))
    <3>1. CASE d = c
      <4>1. Sessions!Got(c) = {}
        BY <1>3 DEF Sessions!Got, Sessions!ToSet
      <4>2. \A e \in Nat : e < sessions[s].next /\ Sessions!InWindow(c, e) => Sessions!InWindow(c, e)'
        BY <2>10, <2>21 DEF Sessions!InWindow
      <4> QED BY <1>2, <2>10, <2>21, <3>1, <4>1, <4>2 DEF Keeps
    <3>2. CASE d # c /\ d \notin before
      <4>1. conns'[d] = conns[d]
        BY <2>14, <3>2
      <4>2. Continues(d)
        BY <2>22, <4>1 DEF Continues
      <4>3. StreamsTypeOK
        BY DEF StreamsInv
      <4> QED BY <2>12, <2>22, <4>2, <4>3, ContinuesKeeps
    <3>3. CASE d # c /\ d \in before
      <4>0. conns'[d] = [conns[d] EXCEPT !.state = "displaced"] /\ conns[d] \in Sessions!Response
            /\ conns[d].state = "attached" /\ conns[d].session = s /\ conns[d].stream = conns[c].stream
        BY <2>13, <2>14, <3>3
      <4>1. /\ conns'[d] \in Sessions!Response /\ conns'[d].state = "displaced"
            /\ conns'[d].session = conns[d].session /\ conns'[d].stream = conns[d].stream
            /\ conns'[d].from = conns[d].from /\ conns'[d].asked = conns[d].asked /\ conns'[d].joined = conns[d].joined
            /\ conns'[d].backlog = conns[d].backlog /\ conns'[d].got = conns[d].got
        BY <4>0 DEF Sessions!Response
      <4>2. before # {}
        BY <3>3
      <4>3. Displaced(d)'
        <5>1. conns'[c].state = "attached" /\ conns'[c].session = s /\ conns'[c].stream = conns[c].stream
          BY <2>10, <2>21, <4>2
        <5> QED BY <2>21, <3>3, <4>0, <4>1, <5>1 DEF Displaced
      <4>4. Continues(d)
        BY <4>0, <4>1, <4>3, SessionsAssumption DEF Continues
      <4>5. StreamsTypeOK
        BY DEF StreamsInv
      <4> QED BY <2>12, <2>22, <4>4, <4>5, ContinuesKeeps
    <3> QED BY <3>1, <3>2, <3>3
  <2>23. HeardOK(c)'
    <3>1. conns'[c].state \in {"attached", "orphan", "ended"} /\ conns'[c].state # "ended"
          /\ conns[c] # Nothing /\ conns[c].state = "answered"
      BY <1>2, <2>10, <2>21
    <3>2. \A d \in Conn : conns[d] # Nothing => Keeps(d)
      BY <2>22
    <3>3. /\ conns'[c].session = conns[c].session /\ conns'[c].stream = conns[c].stream
          /\ conns'[c].from = conns[c].from /\ conns'[c].asked = conns[c].asked
          /\ conns'[c].backlog = conns[c].backlog /\ conns'[c].got = conns[c].backlog
      BY <2>10, <2>21
    <3>4. conns'[c].state = "orphan" => ~Names(q, conns[c].stream)
      <4> SUFFICES ASSUME conns'[c].state = "orphan", Names(q, conns[c].stream) PROVE FALSE
        OBVIOUS
      <4>1. Names(sessions[s], conns[c].stream)
        BY <2>7
      <4>2. PICK i \in DOMAIN st : at(i)
        BY <4>1 DEF Names
      <4>3. st[i].subscriber \in before
        BY <4>2
      <4> QED BY <2>10, <2>21, <4>3
    <3>5. /\ s \in Sessions!Live /\ q.next = sessions[s].next /\ q.opened = sessions[s].opened
          /\ conns'[c].joined = sessions[s].next /\ sessions'[s] = q
          /\ \A i \in Nat, e \in Nat : Holds(q, i, e) => Holds(sessions[s], i, e)
      BY <2>1, <2>7, <2>10, <2>21
    <3> DEFINE id == conns[c].stream
               r == sessions[s]
    <3>6. conns'[c].state = "orphan" => ~Names(q, id)
      BY <3>4
    <3> HIDE DEF L, st, before
    <3> QED BY <3>1, <3>2, <3>3, <3>5, <3>6, Joining
  <2>24. \A u \in L' : u \in L /\ Stretched(sessions[u], sessions'[u]) /\ sessions'[u].next = sessions[u].next
    <3> SUFFICES ASSUME NEW u \in L PROVE Stretched(sessions[u], sessions'[u]) /\ sessions'[u].next = sessions[u].next
      BY <2>12
    <3>1. CASE u = s
      BY <2>7, <2>9, <3>1
    <3>2. CASE u # s
      <4>1. sessions[u].next \in Nat /\ sessions[u].opened \in Nat /\ sessions'[u] = sessions[u]
        BY <1>1, <2>9, <3>2, LiveIs DEF StreamsInv, Sessions!Recorded
      <4> QED BY <4>1 DEF Stretched
    <3> QED BY <3>1, <3>2
  <2>25. \A d \in Conn : conns'[d] # Nothing => conns[d] # Nothing /\ (Continues(d) \/ HeardOK(d)')
    <3>1. \A d \in Conn : d \in before => conns[d] # Nothing
      BY <2>13
    <3> HIDE DEF before
    <3> QED BY <1>2, <2>14, <2>22, <2>23, <3>1
  <2>26. HeardInv'
    BY <2>20, <2>22, <2>24, <2>25, HeardElsewhere
  <2> QED BY <2>20, <2>26
<1> QED BY <1>5, <1>6

\* Only the current subscriber of a stream detaches.
LEMMA Leaving == ASSUME StreamsInv, HeardInv, NEW c \in Conn, Sessions!Leave(c) PROVE StreamsInv' /\ HeardInv'
<1> DEFINE L == Sessions!Live
           st(u) == sessions[u].streams
           qs(u) == [i \in DOMAIN st(u) |-> IF st(u)[i].subscriber = c THEN [st(u)[i] EXCEPT !.subscriber = Nothing]
                                                                       ELSE st(u)[i]]
           q(u) == [sessions[u] EXCEPT !.streams = qs(u)]
<1>1. /\ conns \in [Conn -> Sessions!Response \cup {Nothing}] /\ sessions \in [Session -> Sessions!Recorded \cup {Nothing}]
      /\ L \cap dropped = {} /\ L \subseteq Session
  BY DEF StreamsInv, StreamsTypeOK, Sessions!Live
<1>2. /\ conns[c] # Nothing /\ conns[c] \in Sessions!Response /\ conns[c].state # "answered" /\ ConnOK(c)
      /\ conns' = [conns EXCEPT ![c] = [conns[c] EXCEPT !.state = "left"]]
      /\ dropped' = dropped /\ clock' = clock /\ toolset' = toolset
  BY <1>1 DEF Sessions!Leave, StreamsInv
<1>3. /\ [conns[c] EXCEPT !.state = "left"] \in Sessions!Response
      /\ [conns[c] EXCEPT !.state = "left"].session = conns[c].session
      /\ [conns[c] EXCEPT !.state = "left"].got = conns[c].got
      /\ [conns[c] EXCEPT !.state = "left"].state = "left"
  BY <1>2 DEF Sessions!Response
<1>4. conns' \in [Conn -> Sessions!Response \cup {Nothing}] /\ \A d \in Conn \ {c} : conns'[d] = conns[d]
  BY <1>1, <1>2, <1>3
<1>5. sessions' = [u \in Session |-> IF u \in L THEN q(u) ELSE Nothing]
  <2>1. DOMAIN sessions = Session /\ \A u \in Session : u \notin L => u \notin Sessions!Live
    BY <1>1
  <2>2. sessions' = [s \in DOMAIN sessions |-> IF s \notin L THEN Nothing ELSE
                   [sessions[s] EXCEPT !.streams = [i \in DOMAIN @ |->
                      IF @[i].subscriber = c THEN [@[i] EXCEPT !.subscriber = Nothing] ELSE @[i]]]]
    BY DEF Sessions!Leave
  <2> HIDE DEF L
  <2> QED BY <2>1, <2>2
<1>6. ASSUME NEW u \in L
      PROVE  /\ q(u) \in Sessions!Recorded /\ StreamsOK(q(u)) /\ q(u).streams = qs(u) /\ q(u).next = sessions[u].next
             /\ DOMAIN qs(u) = DOMAIN st(u)
             /\ \A i \in DOMAIN qs(u) : /\ qs(u)[i].id = st(u)[i].id
                                        /\ qs(u)[i].subscriber = IF st(u)[i].subscriber = c THEN Nothing ELSE st(u)[i].subscriber
             /\ Stretched(sessions[u], q(u))
  <2>1. sessions[u] \in Sessions!Recorded /\ StreamsOK(sessions[u])
    BY <1>1, <1>6 DEF StreamsInv, Sessions!Live
  <2>2. /\ st(u) \in Seq(Sessions!Stream) /\ DOMAIN st(u) = 1 .. Len(st(u)) /\ Len(st(u)) \in Nat
        /\ \A i \in DOMAIN st(u) : st(u)[i] \in Sessions!Stream
    BY <2>1 DEF Sessions!Recorded
  <2> DEFINE off(i) == [st(u)[i] EXCEPT !.subscriber = Nothing]
  <2>3. \A i \in DOMAIN st(u) : /\ off(i) \in Sessions!Stream /\ off(i).id = st(u)[i].id
                                /\ off(i).log = st(u)[i].log /\ off(i).subscriber = Nothing
    BY <2>2 DEF Sessions!Stream
  <2>4. /\ DOMAIN qs(u) = DOMAIN st(u)
        /\ \A i \in DOMAIN qs(u) : /\ qs(u)[i].id = st(u)[i].id /\ qs(u)[i].log = st(u)[i].log
                                   /\ qs(u)[i].subscriber = IF st(u)[i].subscriber = c THEN Nothing ELSE st(u)[i].subscriber
    BY <2>3
  <2>5. qs(u) \in [1 .. Len(st(u)) -> Sessions!Stream]
    BY <2>2, <2>3
  <2> HIDE DEF qs
  <2>6. qs(u) \in Seq(Sessions!Stream)
    <3> HIDE DEF st
    <3> QED BY <2>2, <2>5
  <2>7. q(u) \in Sessions!Recorded /\ StreamsOK(q(u)) /\ q(u).streams = qs(u) /\ q(u).next = sessions[u].next
        /\ Stretched(sessions[u], q(u))
    BY <2>1, <2>4, <2>6, Resubscribed
  <2> QED BY <2>4, <2>7
<1> HIDE DEF q, qs
<1>7. \A u \in L : q(u) # Nothing
  BY <1>6, SessionsAssumption
<1>8. L' = L /\ \A u \in L : sessions'[u] = q(u)
  BY <1>1, <1>5, <1>7 DEF Sessions!Live
<1>9. StreamsTypeOK'
  <2>1. sessions' \in [Session -> Sessions!Recorded \cup {Nothing}]
    BY <1>5, <1>6
  <2> QED BY <1>2, <1>4, <2>1 DEF StreamsInv, StreamsTypeOK
<1>10. ASSUME NEW u \in L, NEW i \in DOMAIN sessions'[u].streams, NEW d \in Conn, sessions'[u].streams[i].subscriber = d
       PROVE  conns'[d] # Nothing /\ conns'[d].state = "attached" /\ conns'[d].session = u
              /\ conns'[d].stream = sessions'[u].streams[i].id
  <2>1. i \in DOMAIN st(u) /\ qs(u)[i].subscriber = d /\ sessions'[u].streams[i].id = st(u)[i].id
    BY <1>6, <1>8, <1>10
  <2>2. d # c /\ st(u)[i].subscriber = d
    BY <1>6, <2>1, SessionsAssumption
  <2>3. conns[d] # Nothing /\ conns[d].state = "attached" /\ conns[d].session = u /\ conns[d].stream = st(u)[i].id
    BY <2>1, <2>2 DEF StreamsInv
  <2> QED BY <1>4, <2>1, <2>2, <2>3
<1>11. ASSUME NEW d \in Conn, conns'[d] # Nothing PROVE ConnOK(d)'
  <2>1. CASE d = c
    <3>1. conns'[c].state = "left" /\ conns'[c].session = conns[c].session /\ conns'[c].got = conns[c].got
      BY <1>1, <1>2, <1>3
    <3> QED BY <1>2, <1>8, <2>1, <3>1 DEF ConnOK
  <2>2. CASE d # c
    <3>1. conns'[d] = conns[d] /\ ConnOK(d)
      BY <1>4, <1>11, <2>2 DEF StreamsInv
    <3>2. \A u \in L : sessions'[u].next = sessions[u].next
      BY <1>6, <1>8
    <3>3. ASSUME NEW u \in L, NEW id, Carries(sessions[u], id, d) PROVE Carries(sessions'[u], id, d)
      <4>1. PICK i \in DOMAIN st(u) : st(u)[i].id = id /\ st(u)[i].subscriber = d
        BY <3>3 DEF Carries
      <4>2. i \in DOMAIN qs(u) /\ qs(u)[i].id = id /\ qs(u)[i].subscriber = d
        BY <1>6, <2>2, <4>1
      <4> QED BY <1>6, <1>8, <4>2 DEF Carries
    <3> QED BY <1>2, <1>8, <3>1, <3>2, <3>3 DEF ConnOK
  <2> QED BY <2>1, <2>2
<1>12. \A u \in L' : StreamsOK(sessions'[u])
  BY <1>6, <1>8
<1>13. StreamsInv'
  BY <1>1, <1>2, <1>8, <1>9, <1>10, <1>11, <1>12 DEF StreamsInv
<1>14. ASSUME NEW d \in Conn, conns[d] # Nothing PROVE Continues(d) /\ Keeps(d)
  <2>1. Continues(d)
    <3>1. CASE d = c
      <4>1. /\ conns'[c] \in Sessions!Response /\ conns'[c].state = "left"
            /\ conns'[c].session = conns[c].session /\ conns'[c].stream = conns[c].stream
            /\ conns'[c].from = conns[c].from /\ conns'[c].asked = conns[c].asked /\ conns'[c].joined = conns[c].joined
            /\ conns'[c].backlog = conns[c].backlog /\ conns'[c].got = conns[c].got
        BY <1>1, <1>2, <1>3 DEF Sessions!Response
      <4> QED BY <1>2, <3>1, <4>1, SessionsAssumption DEF Continues
    <3>2. CASE d # c
      BY <1>4, <1>14, <3>2 DEF Continues
    <3> QED BY <3>1, <3>2
  <2>2. StreamsTypeOK
    BY DEF StreamsInv
  <2> QED BY <1>8, <1>14, <2>1, <2>2, ContinuesKeeps
<1>15. \A u \in L' : u \in L /\ Stretched(sessions[u], sessions'[u]) /\ sessions'[u].next = sessions[u].next
  BY <1>6, <1>8
<1>16. \A d \in Conn : conns'[d] # Nothing => conns[d] # Nothing /\ Continues(d)
  BY <1>2, <1>4, <1>14
<1>17. HeardInv'
  BY <1>13, <1>14, <1>15, <1>16, HeardElsewhere
<1> QED BY <1>13, <1>17

LEMMA FilteredLog ==
  ASSUME NEW log \in Seq(Nat), NEW n \in Nat, Increasing(log), Below(log, n), NEW places \in SUBSET (DOMAIN log),
         NEW w, w = Sessions!Filtered(log, places)
  PROVE  w \in Seq(Nat) /\ Increasing(w) /\ Below(w, n)
<1>1. w \in Seq(Nat)
  BY FilteredFacts
<1>2. PICK at : TakenFrom(at, w, log, places)
  BY FilteredFacts
<1>3. DOMAIN w = 1 .. Len(w) /\ \A k \in DOMAIN w : at[k] \in DOMAIN log /\ w[k] = log[at[k]]
  BY <1>1, <1>2 DEF TakenFrom
<1>4. \A j, k \in DOMAIN w : j < k => at[j] < at[k]
  BY <1>2, <1>3 DEF TakenFrom
<1> QED BY <1>1, <1>3, <1>4 DEF Increasing, Below

\* w is what a GET that resumes stream at of r from last is answered with: every
\* event of it after the cursor, in order.
Replays(r, last, at, w) ==
  /\ at \in {0} \cup DOMAIN r.streams
  /\ w \in Seq(Nat) /\ Increasing(w) /\ Below(w, r.next)
  /\ at = 0 => w = <<>>
  /\ at # 0 => /\ last \in Nat
               /\ \A e \in Sessions!ToSet(w) : last < e /\ Holds(r, r.streams[at].id, e)
               /\ \A e \in Nat : last < e /\ Holds(r, r.streams[at].id, e) => e \in Sessions!ToSet(w)
               /\ Holds(r, r.streams[at].id, last) \/ Len(r.streams) = 1
  /\ \A i \in DOMAIN r.streams : Holds(r, r.streams[i].id, last) => at = i
  /\ Len(r.streams) = 1 /\ last \in Nat => at = 1

LEMMA Replaying ==
  ASSUME NEW r \in Sessions!Recorded, StreamsOK(r), NEW last \in Nat \cup {Nothing},
         NEW at, at = Sessions!Resumed(r.streams, last), NEW w, w = Sessions!Replay(r.streams, last)
  PROVE  Replays(r, last, at, w)
<1> DEFINE st == r.streams
           claims == {i \in DOMAIN st : last \in Sessions!ToSet(st[i].log)}
           log == st[at].log
           places == {k \in DOMAIN log : log[k] > last}
<1>1. st \in Seq(Sessions!Stream) /\ r.next \in Nat /\ Len(st) \in Nat /\ DOMAIN st = 1 .. Len(st)
  BY DEF Sessions!Recorded
<1>0. \A i \in DOMAIN st : st[i].log \in Seq(Nat) /\ Increasing(st[i].log) /\ Below(st[i].log, r.next)
  <2>1. \A i \in DOMAIN st : st[i] \in Sessions!Stream
    BY <1>1
  <2>2. \A i \in DOMAIN st : st[i].log \in Seq(Nat)
    BY <2>1 DEF Sessions!Stream
  <2> QED BY <2>2 DEF StreamsOK
<1>2. at \in {0} \cup DOMAIN st
  BY <1>1, Resuming
<1>3. at = IF last = Nothing THEN 0 ELSE IF claims # {} THEN Sessions!Min(claims) ELSE IF Len(st) = 1 THEN 1 ELSE 0
  BY DEF Sessions!Resumed
<1>4. \A i \in DOMAIN st : \A e : Holds(r, st[i].id, e) <=> e \in Sessions!ToSet(st[i].log)
  BY DEF StreamsOK, Holds, Sessions!ToSet
<1>5. claims # {} => Sessions!Min(claims) \in claims
  <2>1. claims \in SUBSET (1 .. Len(st))
    BY <1>1
  <2> HIDE DEF claims
  <2> QED BY <1>1, <2>1, LastPlace
<1>6. \A i \in claims, j \in claims : i = j
  BY DEF StreamsOK, Sessions!ToSet
<1>7. w = IF at = 0 THEN <<>> ELSE Sessions!Filtered(log, places)
  BY DEF Sessions!Replay
<1>8. ASSUME at # 0 PROVE last \in Nat /\ (last \in Sessions!ToSet(log) \/ Len(st) = 1)
  BY <1>3, <1>5, <1>8
<1>9. ASSUME NEW i \in DOMAIN st, last \in Sessions!ToSet(st[i].log) PROVE at = i
  <2>1. last \in Nat
    <3>1. st[i].log \in Seq(Nat)
      BY <1>0, <1>9
    <3> QED BY <1>9, <3>1 DEF Sessions!ToSet
  <2>2. last # Nothing
    BY <2>1, SessionsAssumption
  <2>3. i \in claims
    BY <1>9
  <2> HIDE DEF claims
  <2> QED BY <1>3, <1>5, <1>6, <2>2, <2>3
<1>10. ASSUME Len(st) = 1, last \in Nat PROVE at = 1
  <2>1. last # Nothing
    BY <1>10, SessionsAssumption
  <2>2. claims \subseteq {1}
    BY <1>1, <1>10
  <2> HIDE DEF claims
  <2> QED BY <1>3, <1>5, <1>10, <2>1, <2>2
<1> HIDE DEF claims
<1>11. CASE at = 0
  <2>1. w = <<>>
    BY <1>7, <1>11
  <2>2. w \in Seq(Nat) /\ Increasing(w) /\ Below(w, r.next)
    BY <2>1 DEF Increasing, Below
  <2>3. \A i \in DOMAIN st : Holds(r, st[i].id, last) => at = i
    BY <1>4, <1>9
  <2> QED BY <1>2, <1>10, <1>11, <2>1, <2>2, <2>3 DEF Replays
<1>12. CASE at # 0
  <2>1. log \in Seq(Nat) /\ Increasing(log) /\ Below(log, r.next) /\ at \in DOMAIN st
    BY <1>0, <1>2, <1>12
  <2>2. w = Sessions!Filtered(log, places) /\ places \in SUBSET (DOMAIN log) /\ last \in Nat
    BY <1>7, <1>8, <1>12
  <2> HIDE DEF places, log
  <2>3. w \in Seq(Nat) /\ Increasing(w) /\ Below(w, r.next)
    BY <1>1, <2>1, <2>2, FilteredLog
  <2>4. PICK from : TakenFrom(from, w, log, places)
    BY <2>1, <2>2, FilteredFacts
  <2>5. DOMAIN w = 1 .. Len(w)
    BY <2>3
  <2>6. \A e \in Sessions!ToSet(w) : last < e /\ e \in Sessions!ToSet(log)
    <3>1. \A k \in 1 .. Len(w) : from[k] \in places /\ w[k] = log[from[k]]
      BY <2>4 DEF TakenFrom
    <3>2. \A k \in places : k \in DOMAIN log /\ log[k] > last
      BY DEF places
    <3>3. \A k \in DOMAIN log : log[k] \in Nat
      BY <2>1
    <3> QED BY <2>2, <2>5, <3>1, <3>2, <3>3 DEF Sessions!ToSet
  <2>7. \A e \in Nat : last < e /\ e \in Sessions!ToSet(log) => e \in Sessions!ToSet(w)
    <3>1. \A i \in places : \E k \in 1 .. Len(w) : from[k] = i /\ w[k] = log[i]
      BY <2>4 DEF TakenFrom
    <3>2. \A k \in DOMAIN log : last < log[k] => k \in places
      BY <2>1, <2>2 DEF places
    <3> QED BY <2>5, <3>1, <3>2 DEF Sessions!ToSet
  <2>8. \A e : Holds(r, st[at].id, e) <=> e \in Sessions!ToSet(log)
    BY <1>4, <2>1 DEF log
  <2>9. last \in Sessions!ToSet(log) \/ Len(st) = 1
    BY <1>8, <1>12 DEF log
  <2>10. \A i \in DOMAIN st : Holds(r, st[i].id, last) => at = i
    BY <1>4, <1>9
  <2> HIDE DEF st
  <2> QED BY ONLY <1>2, <1>10, <1>12, <2>1, <2>2, <2>3, <2>6, <2>7, <2>8, <2>9, <2>10 DEF st, Replays
<1> QED BY <1>11, <1>12

\* A cursor a client has is of an event that its session emitted, and what is
\* not after it in the stream it resumes was heard there.
LEMMA SeenBefore ==
  ASSUME StreamsInv, HeardInv, NEW s \in Sessions!Live, NEW r, r = sessions[s], NEW last \in Sessions!Cursors(s),
         NEW at, at = Sessions!Resumed(r.streams, last)
  PROVE  /\ last \in Nat \cup {Nothing} /\ (last \in Nat => last < r.next)
         /\ at # 0 => \A e \in Nat : Holds(r, r.streams[at].id, e) /\ e <= last => HeardOn(s, r.streams[at].id, e)
<1>1. StreamsTypeOK /\ r \in Sessions!Recorded /\ StreamsOK(r) /\ r.next \in Nat /\ r.opened \in Nat /\ r.streams \in Seq(Sessions!Stream)
  BY LiveIs DEF StreamsInv, Sessions!Recorded
<1>2. CASE last = Nothing
  <2>1. at = 0
    BY <1>2 DEF Sessions!Resumed
  <2> QED BY <1>2, <2>1, SessionsAssumption
<1>3. CASE last = 0
  <2>1. 0 < r.next
    BY <1>1 DEF StreamsOK
  <2>2. ASSUME NEW e \in Nat, NEW id, Holds(r, id, e), e <= last PROVE FALSE
    BY <1>1, <1>3, <2>2, HeldIsPast
  <2> QED BY <1>3, <2>1, <2>2
<1>4. CASE last # 0 /\ last # Nothing
  <2>1. PICK d \in Conn : conns[d] # Nothing /\ conns[d].session = s /\ conns[d].got # <<>> /\ last = conns[d].got[Len(conns[d].got)]
    BY <1>4 DEF Sessions!Cursors, Sessions!Last
  <2>2. conns[d].got \in Seq(Nat) /\ conns[d].stream \in Nat /\ conns[d].from \in Nat
    BY <1>1, <2>1, ConnIs
  <2>3. last \in Nat /\ last \in Sessions!Got(d) /\ last \in Told(d)
    BY <2>1, <2>2 DEF Sessions!Got, Sessions!ToSet, Told
  <2>4. conns[d].state # "answered"
    BY <2>1 DEF StreamsInv, ConnOK
  <2>5. Past(d, r) /\ Covered(d, r)
    BY <2>1 DEF HeardInv, HeardOK
  <2>6. last < r.next /\ conns[d].stream < r.opened
    BY <2>3, <2>5 DEF Past
  <2>7. ASSUME at # 0, NEW e \in Nat, NEW id, id = r.streams[at].id, Holds(r, id, e), e <= last PROVE HeardOn(s, id, e)
    <3>1. last \in Nat \cup {Nothing}
      BY <2>3
    <3>2. (Holds(r, id, last) \/ Len(r.streams) = 1) /\ at \in DOMAIN r.streams
      <4> DEFINE w == Sessions!Replay(r.streams, last)
      <4>1. w = Sessions!Replay(r.streams, last)
        OBVIOUS
      <4> HIDE DEF w
      <4>2. /\ at \in {0} \cup DOMAIN r.streams
            /\ at # 0 => Holds(r, r.streams[at].id, last) \/ Len(r.streams) = 1
        <5>1. Replays(r, last, at, w)
          BY <1>1, <3>1, <4>1, Replaying
        <5> QED BY <5>1 DEF Replays
      <4> QED BY <2>7, <4>2
    <3>3. id \in Nat /\ id < r.opened /\ Len(r.streams[at].log) <= ReplayBuffer /\ r.streams[at].log \in Seq(Nat)
      <4>1. r.streams[at] \in Sessions!Stream
        BY <1>1, <3>2
      <4> QED BY <1>1, <2>7, <3>2, <4>1 DEF StreamsOK, Sessions!Stream
    <3>4. id = conns[d].stream
      <4>1. CASE Holds(r, id, last)
        BY <2>3, <2>5, <3>3, <4>1 DEF Past
      <4>2. CASE Len(r.streams) = 1
        <5>1. \E k \in DOMAIN r.streams[at].log : r.streams[at].log[k] = e
          <6>1. PICK i \in DOMAIN r.streams : r.streams[i].id = id /\ \E k \in DOMAIN r.streams[i].log : r.streams[i].log[k] = e
            BY <2>7 DEF Holds
          <6>2. i = at
            BY <1>1, <2>7, <3>2, <6>1 DEF StreamsOK
          <6> QED BY <6>1, <6>2
        <5>2. ReplayBuffer # 0
          BY <3>3, <5>1
        <5>3. r.opened = 1
          BY <1>1, <3>3, <4>2, <5>2 DEF StreamsOK
        <5> QED BY <2>2, <2>6, <3>3, <5>3
      <4> QED BY <3>2, <4>1, <4>2
    <3>5. e <= conns[d].from \/ conns[d].from < e
      BY <2>2
    <3>6. e <= conns[d].from => HeardOn(s, id, e)
      BY <2>1, <2>5, <2>7, <3>4 DEF Covered
    <3>7. conns[d].from < e => e \in Sessions!Got(d) \/ Sessions!InWindow(d, e) \/ last < e
      BY <2>3, <2>4, <2>5, <2>7, <3>4 DEF Covered
    <3>8. ~(last < e)
      BY <2>3, <2>7
    <3> QED BY <2>1, <3>4, <3>5, <3>6, <3>7, <3>8 DEF HeardOn
  <2> QED BY <2>3, <2>6, <2>7
<1> QED BY <1>2, <1>3, <1>4

\* The response to a GET, its cursor being from and the session's next event n.
Answer(s, w, id, from, n) ==
  [session |-> s, state |-> "answered", got |-> <<>>, backlog |-> w, stream |-> id,
   from |-> from, asked |-> n, joined |-> 0]

\* The answer to a GET carries what its stream has that its client did not see.
LEMMA Getting ==
  ASSUME StreamsInv, HeardInv, NEW c \in Conn, NEW s \in Session, Sessions!Get(c, s)
  PROVE  StreamsInv' /\ HeardInv'
<1>0. /\ conns[c] = Nothing /\ Sessions!Reaches(s) /\ dropped' = dropped \cup Sessions!Idle
      /\ clock' = clock /\ toolset' = toolset
  BY DEF Sessions!Get
<1>1. PICK last \in Sessions!Cursors(s) :
       LET at == Sessions!Resumed(sessions[s].streams, last)
       IN  /\ sessions' = Sessions!Touched(s, IF at = 0 THEN Sessions!OpenStream(sessions[s]) ELSE sessions[s])
           /\ conns' = [Sessions!EndConns(Sessions!Idle) EXCEPT ![c] =
                [session |-> s, state |-> "answered", got |-> <<>>, backlog |-> Sessions!Replay(sessions[s].streams, last),
                 stream |-> IF at = 0 THEN sessions[s].opened ELSE sessions[s].streams[at].id,
                 from |-> IF last = Nothing THEN 0 ELSE last, asked |-> sessions[s].next, joined |-> 0]]
  BY DEF Sessions!Get
<1> SUFFICES ASSUME NEW r, r = sessions[s] PROVE StreamsInv' /\ HeardInv'
  OBVIOUS
<1> SUFFICES ASSUME NEW at, at = Sessions!Resumed(r.streams, last) PROVE StreamsInv' /\ HeardInv'
  OBVIOUS
<1> SUFFICES ASSUME NEW w, w = Sessions!Replay(r.streams, last) PROVE StreamsInv' /\ HeardInv'
  OBVIOUS
<1> SUFFICES ASSUME NEW from, from = IF last = Nothing THEN 0 ELSE last PROVE StreamsInv' /\ HeardInv'
  OBVIOUS
<1> SUFFICES ASSUME NEW id, id = IF at = 0 THEN r.opened ELSE r.streams[at].id PROVE StreamsInv' /\ HeardInv'
  OBVIOUS
<1> SUFFICES ASSUME NEW q, q = IF at = 0 THEN Sessions!OpenStream(r) ELSE r PROVE StreamsInv' /\ HeardInv'
  OBVIOUS
<1> SUFFICES ASSUME NEW resp, resp = Answer(s, w, id, from, r.next) PROVE StreamsInv' /\ HeardInv'
  OBVIOUS
<1>2. sessions' = Sessions!Touched(s, q) /\ conns' = [Sessions!EndConns(Sessions!Idle) EXCEPT ![c] = resp]
  BY <1>1 DEF Answer
<1>3. s \in Sessions!Live /\ Sessions!Idle \in SUBSET Sessions!Live /\ s \notin Sessions!Idle
  BY <1>0 DEF Sessions!Reaches, Sessions!Idle
<1>4. r \in Sessions!Recorded /\ StreamsOK(r) /\ StreamsTypeOK
  BY <1>3, LiveIs DEF StreamsInv
<1>5. r.streams \in Seq(Sessions!Stream) /\ r.next \in Nat /\ r.opened \in Nat /\ 0 < r.next
  BY <1>4 DEF Sessions!Recorded, StreamsOK
<1>6. /\ last \in Nat \cup {Nothing} /\ (last \in Nat => last < r.next)
      /\ at # 0 => \A e \in Nat : Holds(r, id, e) /\ e <= last => HeardOn(s, id, e)
  BY <1>3, SeenBefore
<1>7. /\ at \in {0} \cup DOMAIN r.streams /\ w \in Seq(Nat) /\ Increasing(w) /\ Below(w, r.next)
      /\ at = 0 => w = <<>>
      /\ at # 0 => last \in Nat
      /\ at # 0 => \A e \in Sessions!ToSet(w) : last < e /\ Holds(r, id, e)
      /\ at # 0 => \A e \in Nat : last < e /\ Holds(r, id, e) => e \in Sessions!ToSet(w)
  <2>1. Replays(r, last, at, w)
    BY <1>4, <1>6, Replaying
  <2> QED BY <2>1 DEF Replays
<1>8. q \in Sessions!Recorded /\ Grown(r, q) /\ q.next = r.next /\ id \in Nat /\ id < q.opened
  <2>1. CASE at = 0
    BY <1>4, <1>5, <2>1, Opening
  <2>2. CASE at # 0
    <3>1. Grown(r, r)
      BY <1>4, <1>5, SameStreams
    <3>2. r.streams[at].id \in Nat /\ r.streams[at].id < r.opened
      <4>1. at \in DOMAIN r.streams
        BY <1>7, <2>2
      <4>2. r.streams[at] \in Sessions!Stream
        BY <1>5, <4>1
      <4> QED BY <1>4, <4>1, <4>2 DEF Sessions!Stream, StreamsOK
    <3> QED BY <1>4, <2>2, <3>1, <3>2
  <2> QED BY <2>1, <2>2
<1>9. from \in Nat /\ from < r.next /\ (at # 0 => from = last) /\ (at = 0 => \A e : ~Holds(r, id, e))
  <2>1. from \in Nat /\ from < r.next
    BY <1>5, <1>6
  <2>2. at # 0 => from = last
    BY <1>7, SessionsAssumption
  <2>3. ASSUME at = 0, NEW e, Holds(r, id, e) PROVE FALSE
    BY <1>4, <1>5, <2>3 DEF Holds, StreamsOK
  <2> QED BY <2>1, <2>2, <2>3
<1>10. resp \in Sessions!Response
  BY <1>5, <1>7, <1>8, <1>9 DEF Sessions!Response, Answer
<1>11. /\ resp.session = s /\ resp.state = "answered" /\ resp.got = <<>> /\ resp.backlog = w /\ resp.stream = id
       /\ resp.from = from /\ resp.asked = r.next /\ resp.joined = 0
  BY DEF Answer
<1>12. /\ conns' \in [Conn -> Sessions!Response \cup {Nothing}]
       /\ conns'[c] = resp /\ \A d \in Conn \ {c} : conns'[d] = Sessions!EndConns(Sessions!Idle)[d]
  BY <1>2, <1>3, <1>10, Ending
<1>13. sessions'[s].streams = q.streams /\ sessions'[s].next = q.next /\ sessions'[s].opened = q.opened
  <2>1. sessions'[s] = [q EXCEPT !.seen = clock]
    <3>1. DOMAIN sessions = Session
      BY <1>4 DEF StreamsTypeOK
    <3> QED BY <1>2, <3>1 DEF Sessions!Touched, Sessions!Without
  <2> QED BY <1>8, <2>1 DEF Sessions!Recorded
<1>14. \A e \in Nat : HeardOn(s, id, e) => HeardOn(s, id, e)'
  <2> SUFFICES ASSUME NEW e \in Nat, NEW d \in Conn, conns[d] # Nothing, conns[d].session = s, conns[d].stream = id,
                      e \in Sessions!Got(d) \/ Sessions!InWindow(d, e)
               PROVE  HeardOn(s, id, e)'
    BY DEF HeardOn
  <2>1. conns'[d] = conns[d] \/ (conns'[d] = [conns[d] EXCEPT !.state = "ended"] /\ conns[d].state = "attached")
    <3>1. d # c
      BY <1>0
    <3>2. conns'[d] = Sessions!EndConns(Sessions!Idle)[d]
      BY <1>12, <3>1
    <3> QED BY <1>3, <3>2, Ended
  <2>2. conns[d] \in Sessions!Response
    BY <1>4, ConnIs
  <2>3. /\ conns'[d] # Nothing /\ conns'[d].session = s /\ conns'[d].stream = id /\ conns'[d].got = conns[d].got
        /\ conns'[d].asked = conns[d].asked /\ conns'[d].joined = conns[d].joined
        /\ conns[d].state = "answered" => conns'[d].state = "answered"
    <3>1. CASE conns'[d] = conns[d]
      BY <3>1
    <3>2. CASE conns'[d] = [conns[d] EXCEPT !.state = "ended"] /\ conns[d].state = "attached"
      <4>1. conns'[d] \in Sessions!Response
        <5>1. [conns[d] EXCEPT !.state = "ended"] \in Sessions!Response
          BY <2>2 DEF Sessions!Response
        <5> QED BY <3>2, <5>1
      <4>2. conns'[d] # Nothing
        BY <1>12, <3>2, <2>2, <4>1, SessionsAssumption
      <4> QED BY <2>2, <3>2, <4>2 DEF Sessions!Response
    <3> QED BY <2>1, <3>1, <3>2
  <2>4. e \in Sessions!Got(d)' \/ Sessions!InWindow(d, e)'
    BY <2>3 DEF Sessions!Got, Sessions!InWindow
  <2> QED BY <2>3, <2>4 DEF HeardOn
<1>15. Told(c)' = Sessions!ToSet(w) /\ \A e \in Told(c)' : e \in Nat /\ e < r.next /\ at # 0
  <2>1. Sessions!ToSet(<<>>) = {}
    BY DEF Sessions!ToSet
  <2>2. \A e \in Sessions!ToSet(w) : e \in Nat /\ e < r.next
    BY <1>7 DEF Sessions!ToSet, Below
  <2>3. at = 0 => Sessions!ToSet(w) = {}
    BY <1>7, <2>1
  <2> QED BY <1>11, <1>12, <2>1, <2>2, <2>3 DEF Told, Sessions!Got
<1>16. \A e \in Told(c)' : conns'[c].from < e
  <2>1. conns'[c].from = from
    BY <1>11, <1>12
  <2>2. \A e \in Told(c)' : at # 0 /\ e \in Sessions!ToSet(w)
    BY <1>15
  <2> QED BY <1>7, <1>9, <2>1, <2>2
<1>17. \A i \in Nat, e \in Nat : Holds(sessions'[s], i, e) => Holds(r, i, e)
  <2>1. \A i \in Nat, e \in Nat : Holds(q, i, e) => Holds(r, i, e)
    BY <1>5, <1>8 DEF Grown
  <2>2. \A i, e : Holds(sessions'[s], i, e) <=> Holds(q, i, e)
    <3> DEFINE z == sessions'[s]
    <3>1. z.streams = q.streams
      BY <1>13
    <3> HIDE DEF z
    <3>2. \A i, e : Holds(z, i, e) <=> Holds(q, i, e)
      BY ONLY <3>1 DEF Holds
    <3> QED BY <3>2 DEF z
  <2> QED BY <2>1, <2>2
<1>18. Past(c, sessions[s])'
  <2>1. \A e \in Told(c)', i \in Nat : Holds(sessions'[s], i, e) => i = id
    <3> SUFFICES ASSUME NEW e \in Told(c)', NEW i \in Nat, Holds(sessions'[s], i, e) PROVE i = id
      OBVIOUS
    <3>1. Holds(r, i, e) /\ Holds(r, id, e)
      BY <1>7, <1>15, <1>17
    <3> QED BY <1>4, <3>1 DEF Holds, StreamsOK
  <2>2. /\ conns'[c].stream = id /\ conns'[c].from = from /\ conns'[c].asked = r.next /\ conns'[c].joined = 0
    BY <1>11, <1>12
  <2>3. /\ id < sessions'[s].opened /\ from < sessions'[s].next /\ r.next <= sessions'[s].next /\ 0 <= sessions'[s].next
    BY <1>5, <1>8, <1>9, <1>13
  <2>4. \A e \in Told(c)' : e < sessions'[s].next
    BY <1>8, <1>13, <1>15
  <2> QED BY <2>1, <2>2, <2>3, <2>4 DEF Past
<1>19. Covered(c, sessions[s])'
  <2> SUFFICES ASSUME NEW e \in Nat, Holds(sessions'[s], id, e)
               PROVE  /\ e <= from => HeardOn(s, id, e)'
                      /\ from < e /\ e < r.next => e \in Told(c)'
    <3>1. conns'[c].session = s /\ conns'[c].stream = id /\ conns'[c].state = "answered" /\ conns'[c].from = from
          /\ conns'[c].asked = r.next
      BY <1>11, <1>12
    <3> QED BY <3>1 DEF Covered
  <2>1. Holds(r, id, e)
    BY <1>8, <1>17
  <2>2. at # 0 /\ from = last
    BY <1>9, <2>1
  <2>3. e <= from => HeardOn(s, id, e)'
    BY <1>6, <1>14, <2>1, <2>2
  <2>4. from < e => e \in Told(c)'
    BY <1>7, <1>15, <2>1, <2>2
  <2> QED BY <2>3, <2>4
<1>20. s \in Sessions!Live'
  <2> DEFINE t == [q EXCEPT !.seen = clock]
  <2>1. t \in Sessions!Recorded
    <3>1. t = [streams |-> q.streams, next |-> q.next, opened |-> q.opened, seen |-> clock, advertised |-> q.advertised,
               reads |-> q.reads, listed |-> q.listed, notice |-> q.notice, unread |-> q.unread]
      <4>1. q \in Sessions!Recorded
        BY <1>8
      <4> QED BY <4>1 DEF Sessions!Recorded
    <3>2. clock \in Nat
      BY <1>4 DEF StreamsTypeOK
    <3> QED BY <1>8, <3>1, <3>2 DEF Sessions!Recorded
  <2>2. DOMAIN sessions = Session
    BY <1>4 DEF StreamsTypeOK
  <2>3. sessions' = [Sessions!Without(Sessions!Idle) EXCEPT ![s] = t]
    BY <1>2 DEF Sessions!Touched
  <2> HIDE DEF t
  <2>4. sessions'[s] = t
    BY <2>2, <2>3 DEF Sessions!Without
  <2>5. t # Nothing
    BY <2>1, SessionsAssumption
  <2> QED BY <2>4, <2>5 DEF Sessions!Live
<1>21. HeardOK(c)'
  <2>1. Accompanied(c, sessions[s])'
    BY <1>11, <1>12 DEF Accompanied
  <2> QED BY <1>11, <1>12, <1>16, <1>18, <1>19, <2>1 DEF HeardOK
<1>22. Answers(c)
  <2>1. conns'[c].session = s /\ conns'[c].state = "answered" /\ conns'[c].got = <<>> /\ conns'[c].backlog = w
    BY <1>11, <1>12
  <2>2. Below(w, sessions'[s].next)
    BY <1>7, <1>8, <1>13
  <2> QED BY <1>0, <1>3, <1>7, <1>20, <1>21, <2>1, <2>2 DEF Answers
<1>23. \A d \in Conn : conns'[d] = Sessions!EndConns(Sessions!Idle)[d] \/ Answers(d)
  BY <1>12, <1>22
<1>24. Refreshes(Sessions!Idle)
  BY <1>0, <1>2, <1>8, <1>12, <1>23, Requested
<1> QED BY <1>24, HeardRefreshed

\* The record from which its oldest read was taken, what the read makes of it and
\* the transport that is told.
Popped(r) == [r EXCEPT !.reads = Tail(@)]

Made(r, read) == IF read.kind = "list" THEN Sessions!Answered(r, read.tools) ELSE Sessions!Announced(r, read.tools)

Goes(r, read) == IF read.kind = "announce" /\ Sessions!Announces(r, read.tools) THEN Sessions!Carrier(r) ELSE Nothing

\* A read that resumes takes q from r: it emits one event, n, to the stream it is
\* for, and that event goes to that stream's transport.
Announcing(r, q, to, n) ==
  /\ q \in Sessions!Recorded /\ Grown(r, q) /\ to \in Conn \cup {Nothing}
  /\ (q.next = n /\ to = Nothing) \/ q.next = n + 1
  /\ to # Nothing => \E i \in DOMAIN r.streams : r.streams[i].subscriber = to
  /\ q.next = n + 1 => /\ \A id \in Nat, c \in Conn : Carries(r, id, c) => to \in Conn /\ (Holds(q, id, n) => to = c)
                       /\ \A id \in Nat, other \in Nat : Holds(q, id, n) /\ Carries(r, other, to) => Carries(r, id, to)

LEMMA Rereading ==
  ASSUME NEW r \in Sessions!Recorded, StreamsOK(r), NEW read \in Sessions!Read, NEW q, q = Made(r, read), NEW to, to = Goes(r, read)
  PROVE  Announcing(r, q, to, r.next)
<1>00. /\ q = IF read.kind = "list" THEN Sessions!Answered(r, read.tools) ELSE Sessions!Announced(r, read.tools)
       /\ to = IF read.kind = "announce" /\ Sessions!Announces(r, read.tools) THEN Sessions!Carrier(r) ELSE Nothing
  BY DEF Made, Goes
<1> DEFINE d == Sessions!Digest(read.tools)
           n == r.next
<1>1. d \in {0, 1}
  BY DEF Sessions!Digest, Sessions!Read
<1>2. r.next \in Nat /\ r.opened \in Nat
  BY DEF Sessions!Recorded
<1>0. /\ r.streams \in Seq(Sessions!Stream) /\ r.seen \in Nat /\ r.reads \in Seq(Sessions!Read)
      /\ r.listed \in {0, 1, Nothing} /\ r.notice \in Nat
  BY DEF Sessions!Recorded
<1> HIDE DEF d
<1>3. CASE read.kind = "list"
  <2>1. q = [streams |-> r.streams, next |-> r.next, opened |-> r.opened, seen |-> r.seen, advertised |-> d,
             reads |-> r.reads, listed |-> d, notice |-> 0, unread |-> FALSE]
    BY <1>00, <1>3 DEF Sessions!Recorded, Sessions!Answered, d
  <2>2. q \in Sessions!Recorded /\ q.streams = r.streams /\ q.next = r.next /\ q.opened = r.opened
    BY <1>0, <1>1, <1>2, <2>1 DEF Sessions!Recorded
  <2>3. Grown(r, q)
    BY <1>2, <2>2, SameStreams
  <2>4. to = Nothing /\ q.next # n + 1
    BY <1>00, <1>2, <1>3, <2>2
  <2> QED BY <2>2, <2>3, <2>4 DEF Announcing
<1>4. CASE read.kind # "list" /\ ~Sessions!Announces(r, read.tools)
  <2>1. q = [r EXCEPT !.advertised = d, !.unread = FALSE]
    BY <1>00, <1>4 DEF Sessions!Announced, Sessions!Recorded, d
  <2>2. q = [streams |-> r.streams, next |-> r.next, opened |-> r.opened, seen |-> r.seen, advertised |-> d,
             reads |-> r.reads, listed |-> r.listed, notice |-> r.notice, unread |-> FALSE]
    BY <2>1 DEF Sessions!Recorded
  <2>3. q \in Sessions!Recorded /\ q.streams = r.streams /\ q.next = r.next /\ q.opened = r.opened
    BY <1>0, <1>1, <1>2, <2>2 DEF Sessions!Recorded
  <2>4. Grown(r, q)
    BY <1>2, <2>3, SameStreams
  <2>5. to = Nothing /\ q.next # n + 1
    BY <1>00, <1>2, <1>4, <2>3
  <2> QED BY <2>3, <2>4, <2>5 DEF Announcing
<1>5. CASE read.kind # "list" /\ Sessions!Announces(r, read.tools)
  <2> SUFFICES ASSUME NEW base, base = Sessions!Emitted(r) PROVE Announcing(r, q, to, r.next)
    OBVIOUS
  <2>1. to = Sessions!Carrier(r)
    BY <1>00, <1>5 DEF Sessions!Read
  <2>2. base \in Sessions!Recorded /\ Grown(r, base) /\ base.next = n + 1
    BY Emitting
  <2>3. q = [base EXCEPT !.advertised = d, !.notice = n, !.unread = FALSE]
    BY <1>00, <1>5 DEF Sessions!Announced, d
  <2>4. q = [streams |-> base.streams, next |-> base.next, opened |-> base.opened, seen |-> base.seen,
             advertised |-> d, reads |-> base.reads, listed |-> base.listed, notice |-> n, unread |-> FALSE]
    BY <2>2, <2>3 DEF Sessions!Recorded
  <2>5. q \in Sessions!Recorded /\ q.streams = base.streams /\ q.next = base.next /\ q.opened = base.opened
    <3>1. /\ base.streams \in Seq(Sessions!Stream) /\ base.next \in Nat /\ base.opened \in Nat /\ base.seen \in Nat
          /\ base.reads \in Seq(Sessions!Read) /\ base.listed \in {0, 1, Nothing}
      BY <2>2 DEF Sessions!Recorded
    <3>2. d \in {0, 1, Nothing} /\ n \in Nat /\ FALSE \in BOOLEAN
      BY <1>1, <1>2
    <3> HIDE DEF n
    <3>3. q.streams = base.streams /\ q.next = base.next /\ q.opened = base.opened
      BY <2>4
    <3> QED BY <2>4, <3>1, <3>2, <3>3 DEF Sessions!Recorded
  <2>6. Grown(r, q)
    <3>1. StreamsOK(q) /\ r.next <= q.next /\ q.next <= r.next + 1 /\ r.opened <= q.opened
      BY <2>2, <2>5 DEF Grown, StreamsOK
    <3>2. \A id, c : Carries(q, id, c) <=> Carries(base, id, c)
      BY <2>5 DEF Carries
    <3>3. \A id, e : (Names(q, id) <=> Names(base, id)) /\ (Holds(q, id, e) <=> Holds(base, id, e))
      BY <2>5 DEF Names, Holds
    <3> QED BY <2>2, <2>5, <3>1, <3>2, <3>3 DEF Grown
  <2>7. \A id, e : Holds(q, id, e) <=> Holds(base, id, e)
    BY <2>5 DEF Holds
  <2>8. /\ to \in Conn => \E i \in DOMAIN r.streams : r.streams[i].subscriber = to
        /\ to \in Conn \cup {Nothing}
    BY <2>1, Emitting
  <2>9. \A id \in Nat, c \in Conn : Carries(r, id, c) => to \in Conn /\ (Holds(q, id, n) => to = c)
    BY <2>1, <2>7, Emitting
  <2>10. \A id \in Nat, other \in Nat : Holds(q, id, n) /\ Carries(r, other, to) => Carries(r, id, to)
    BY <2>1, <2>7, Emitting
  <2> QED BY <2>2, <2>5, <2>6, <2>8, <2>9, <2>10 DEF Announcing
<1> QED BY <1>3, <1>4, <1>5

\* A read that resumes leaves the other sessions, and all transports but one, as
\* they are.
LEMMA Reading ==
  ASSUME StreamsInv, HeardInv, NEW s \in Session, Sessions!Resume(s)
  PROVE  StreamsInv' /\ HeardInv'
<1> DEFINE L == Sessions!Live
<1>0. /\ s \in L /\ sessions[s].reads # <<>> /\ dropped' = dropped /\ clock' = clock /\ toolset' = toolset
      /\ LET read == Head(sessions[s].reads)
             r == Popped(sessions[s])
             to == Goes(r, read)
         IN  /\ sessions' = [sessions EXCEPT ![s] = Made(r, read)]
             /\ conns' = IF to = Nothing THEN conns ELSE [conns EXCEPT ![to].got = Append(@, r.next)]
  BY DEF Sessions!Resume, Popped, Goes, Made
<1> SUFFICES ASSUME NEW read, read = Head(sessions[s].reads) PROVE StreamsInv' /\ HeardInv'
  OBVIOUS
<1> SUFFICES ASSUME NEW r, r = Popped(sessions[s]) PROVE StreamsInv' /\ HeardInv'
  OBVIOUS
<1> SUFFICES ASSUME NEW to, to = Goes(r, read) PROVE StreamsInv' /\ HeardInv'
  OBVIOUS
<1> SUFFICES ASSUME NEW q, q = Made(r, read) PROVE StreamsInv' /\ HeardInv'
  OBVIOUS
<1> SUFFICES ASSUME NEW n, n = sessions[s].next PROVE StreamsInv' /\ HeardInv'
  OBVIOUS
<1>1. /\ s \in L /\ sessions[s].reads # <<>> /\ dropped' = dropped /\ clock' = clock /\ toolset' = toolset
      /\ sessions' = [sessions EXCEPT ![s] = q]
      /\ conns' = IF to = Nothing THEN conns ELSE [conns EXCEPT ![to].got = Append(@, r.next)]
  BY <1>0
<1>2. /\ conns \in [Conn -> Sessions!Response \cup {Nothing}] /\ sessions \in [Session -> Sessions!Recorded \cup {Nothing}]
      /\ L \subseteq Session /\ sessions[s] \in Sessions!Recorded /\ StreamsOK(sessions[s])
      /\ dropped \in SUBSET Session /\ clock \in Nat /\ toolset \in Nat
  BY <1>1, LiveIs DEF StreamsInv, StreamsTypeOK, Sessions!Live
<1>3. read \in Sessions!Read /\ Tail(sessions[s].reads) \in Seq(Sessions!Read) /\ n \in Nat
  BY <1>1, <1>2 DEF Sessions!Recorded
<1>4. r \in Sessions!Recorded /\ r.streams = sessions[s].streams /\ r.next = n /\ r.opened = sessions[s].opened
  <2> DEFINE rest == Tail(sessions[s].reads)
  <2>1. r = [sessions[s] EXCEPT !.reads = rest] /\ rest \in Seq(Sessions!Read)
    BY <1>3 DEF Popped
  <2> HIDE DEF rest
  <2>2. r = [streams |-> sessions[s].streams, next |-> n, opened |-> sessions[s].opened, seen |-> sessions[s].seen,
             advertised |-> sessions[s].advertised, reads |-> rest, listed |-> sessions[s].listed,
             notice |-> sessions[s].notice, unread |-> sessions[s].unread]
    BY <1>2, <2>1 DEF Sessions!Recorded
  <2> QED BY <1>2, <1>3, <2>1, <2>2 DEF Sessions!Recorded
<1>5. Grown(sessions[s], r) /\ StreamsOK(r) /\ \A id, c : Carries(sessions[s], id, c) <=> Carries(r, id, c)
  <2>1. Grown(sessions[s], r)
    <3>1. sessions[s].next \in Nat /\ sessions[s].opened \in Nat
      BY <1>2 DEF Sessions!Recorded
    <3> QED BY <1>2, <1>4, <3>1, SameStreams
  <2> QED BY <1>4, <2>1 DEF Grown, Carries
<1>6. Announcing(r, q, to, n)
  BY <1>3, <1>4, <1>5, Rereading
<1>7. /\ q \in Sessions!Recorded /\ Grown(sessions[s], q) /\ ((q.next = n /\ to = Nothing) \/ q.next = n + 1) /\ to \in Conn \cup {Nothing}
  <2>1. StreamsOK(q) /\ n <= q.next /\ q.next <= n + 1 /\ r.opened <= q.opened
    BY <1>3, <1>4, <1>6 DEF Announcing, Grown
  <2>2. \A id \in Nat : /\ \A c \in Conn : Carries(r, id, c) <=> Carries(q, id, c)
                        /\ Names(q, id) => Names(r, id) \/ r.opened <= id
                        /\ \A e \in Nat : Holds(q, id, e) => Holds(r, id, e) \/ (e = n /\ n < q.next)
    BY <1>4, <1>6 DEF Announcing, Grown
  <2>3. \A id, e : (Names(r, id) <=> Names(sessions[s], id)) /\ (Holds(r, id, e) <=> Holds(sessions[s], id, e))
    BY <1>4 DEF Names, Holds
  <2>4. Grown(sessions[s], q)
    BY <1>4, <1>5, <2>1, <2>2, <2>3 DEF Grown
  <2> QED BY <1>6, <2>4 DEF Announcing
<1>8. sessions'[s] = q /\ \A u \in Session \ {s} : sessions'[u] = sessions[u]
  BY <1>1, <1>2
<1>9. to # Nothing => conns[to] # Nothing /\ conns[to].state = "attached" /\ conns[to].session = s
  <2> SUFFICES ASSUME to # Nothing PROVE conns[to] # Nothing /\ conns[to].state = "attached" /\ conns[to].session = s
    OBVIOUS
  <2>1. PICK i \in DOMAIN sessions[s].streams : sessions[s].streams[i].subscriber = to
    BY <1>4, <1>6 DEF Announcing
  <2>2. to \in Conn
    BY <1>7
  <2> QED BY <1>1, <2>1, <2>2 DEF StreamsInv
<1>10. ASSUME NEW d \in Conn
       PROVE  /\ conns'[d] \in Sessions!Response \cup {Nothing}
              /\ \/ conns'[d] = conns[d] /\ d # to
                 \/ d = to /\ to # Nothing /\ conns'[d] = [conns[d] EXCEPT !.got = Append(@, n)]
  <2>1. CASE d = to /\ to # Nothing
    <3>1. conns[d] \in Sessions!Response
      BY <1>2, <1>9, <2>1
    <3>2. Append(conns[d].got, n) \in Seq(Nat)
      BY <1>3, <3>1 DEF Sessions!Response
    <3>3. [conns[d] EXCEPT !.got = Append(@, n)] \in Sessions!Response
      BY <3>1, <3>2 DEF Sessions!Response
    <3>4. conns'[d] = [conns[d] EXCEPT !.got = Append(@, n)]
      BY <1>1, <1>2, <1>4, <2>1
    <3> QED BY <2>1, <3>3, <3>4
  <2>2. CASE ~(d = to /\ to # Nothing)
    BY <1>1, <1>2, <2>2, SessionsAssumption
  <2> QED BY <2>1, <2>2
<1>11. StreamsTypeOK'
  <2>1. conns' = [d \in Conn |-> conns'[d]]
    <3>1. CASE to = Nothing
      BY <1>1, <1>2, <3>1
    <3>2. CASE to # Nothing
      <4> DEFINE y == [conns[to] EXCEPT !.got = Append(@, r.next)]
      <4>1. conns' = [conns EXCEPT ![to] = y]
        BY <1>1, <3>2
      <4> HIDE DEF y
      <4> QED BY <1>2, <4>1
    <3> QED BY <3>1, <3>2
  <2>2. conns' \in [Conn -> Sessions!Response \cup {Nothing}]
    BY <1>10, <2>1
  <2>3. sessions' \in [Session -> Sessions!Recorded \cup {Nothing}]
    BY <1>1, <1>2, <1>7
  <2> QED BY <1>1, <1>2, <2>2, <2>3 DEF StreamsTypeOK
<1>12. s \in L'
  BY <1>7, <1>8, SessionsAssumption DEF Sessions!Live
<1>13. ASSUME to # Nothing PROVE Receives(to)
  <2>1. to \in Conn /\ conns[to] # Nothing /\ conns[to].state = "attached" /\ conns[to].session = s /\ conns[to].stream \in Nat
    BY <1>2, <1>7, <1>9, <1>13, ConnIs DEF StreamsInv
  <2>2. Carries(r, conns[to].stream, to)
    BY <1>5, <2>1 DEF StreamsInv, ConnOK
  <2>3. q.next = n + 1
    BY <1>7, <1>13
  <2>4. ASSUME NEW id \in Nat, Holds(q, id, n) PROVE id = conns[to].stream
    <3>1. Carries(sessions[s], id, to)
      BY <1>5, <1>6, <2>1, <2>2, <2>3, <2>4 DEF Announcing
    <3> QED BY <1>1, <2>1, <3>1 DEF Carries, StreamsInv
  <2>5. conns'[to] = [conns[to] EXCEPT !.got = Append(@, n)]
    BY <1>10, <1>13, <2>1
  <2>6. n < q.next
    BY <1>3, <2>3
  <2> QED BY <1>8, <1>12, <2>1, <2>4, <2>5, <2>6 DEF Receives
<1>14. q.next = n \/ Emits(s)
  <2> SUFFICES ASSUME q.next = n + 1, NEW c \in Conn, conns[c] # Nothing, conns[c].state = "attached", conns[c].session = s
               PROVE  /\ \E d \in Conn : Receives(d) /\ conns[d].session = s
                      /\ Holds(sessions'[s], conns[c].stream, sessions[s].next) => Receives(c)
    BY <1>7 DEF Emits
  <2>1. conns[c].stream \in Nat
    BY ConnIs DEF StreamsInv
  <2>2. Carries(r, conns[c].stream, c)
    BY <1>5 DEF StreamsInv, ConnOK
  <2>3. to \in Conn /\ (Holds(q, conns[c].stream, n) => to = c)
    BY <1>6, <2>1, <2>2 DEF Announcing
  <2>4. to # Nothing
    BY <2>3, SessionsAssumption
  <2> QED BY <1>8, <1>9, <1>13, <2>3, <2>4
<1>15. ASSUME NEW u \in L
       PROVE  sessions'[u] # Nothing /\ Grown(sessions[u], sessions'[u]) /\ (sessions'[u].next = sessions[u].next \/ Emits(u))
  <2>1. CASE u = s
    BY <1>7, <1>8, <1>14, <2>1, SessionsAssumption
  <2>2. CASE u # s
    <3>1. sessions'[u] = sessions[u] /\ sessions[u] # Nothing /\ sessions[u] \in Sessions!Recorded /\ StreamsOK(sessions[u])
      BY <1>2, <1>8, <2>2, LiveIs DEF StreamsInv, Sessions!Live
    <3>2. sessions[u].next \in Nat /\ sessions[u].opened \in Nat
      BY <3>1 DEF Sessions!Recorded
    <3> QED BY <3>1, <3>2, SameStreams
  <2> QED BY <2>1, <2>2
<1>16. \A u \in Session \ L : sessions'[u] = Nothing
  BY <1>1, <1>8 DEF Sessions!Live
<1>17. \A d \in Conn : Sessions!EndConns({})[d] = conns[d]
  BY Ending
<1>18. \A d \in Conn : conns'[d] = Sessions!EndConns({})[d] \/ Receives(d)
  BY <1>10, <1>13, <1>17
<1>19. Refreshes({})
  BY <1>1, <1>11, <1>15, <1>16, <1>18 DEF Refreshes
<1> QED BY <1>19, HeardRefreshed

\* What every record keeps under an update of its reads.
LEMMA Queued ==
  ASSUME NEW r \in Sessions!Recorded, NEW read \in Sessions!Read, NEW q, q = [r EXCEPT !.reads = Append(@, read)]
  PROVE  /\ q \in Sessions!Recorded /\ q.streams = r.streams /\ q.next = r.next /\ q.opened = r.opened
         /\ q.advertised = r.advertised /\ q.listed = r.listed /\ q.notice = r.notice /\ q.unread = r.unread
         /\ q.reads = Append(r.reads, read)
<1> DEFINE longer == Append(r.reads, read)
<1>1. q = [r EXCEPT !.reads = longer] /\ longer \in Seq(Sessions!Read)
  BY DEF Sessions!Recorded
<1> HIDE DEF longer
<1>2. q = [streams |-> r.streams, next |-> r.next, opened |-> r.opened, seen |-> r.seen, advertised |-> r.advertised,
           reads |-> longer, listed |-> r.listed, notice |-> r.notice, unread |-> r.unread]
  BY <1>1 DEF Sessions!Recorded
<1>3. /\ q \in Sessions!Recorded /\ q.streams = r.streams /\ q.next = r.next /\ q.opened = r.opened
      /\ q.advertised = r.advertised /\ q.listed = r.listed /\ q.notice = r.notice /\ q.unread = r.unread /\ q.reads = longer
  BY <1>1, <1>2 DEF Sessions!Recorded
<1> QED BY <1>3 DEF longer

LEMMA FreshIs ==
  ASSUME StreamsTypeOK
  PROVE  Sessions!Fresh \in Sessions!Recorded /\ Sessions!Fresh.streams = <<>> /\ Sessions!Fresh.reads = <<>>
         /\ Sessions!Fresh.advertised = Nothing /\ Sessions!Fresh.listed = Nothing
         /\ Sessions!Fresh.notice = 0 /\ Sessions!Fresh.next = 1 /\ StreamsOK(Sessions!Fresh)
<1>1. clock \in Nat
  BY DEF StreamsTypeOK
<1>2. Sessions!Fresh \in Sessions!Recorded
  BY <1>1 DEF Sessions!Fresh, Sessions!Recorded
<1>3. /\ Sessions!Fresh.streams = <<>> /\ Sessions!Fresh.reads = <<>> /\ Sessions!Fresh.opened = 0
      /\ Sessions!Fresh.advertised = Nothing /\ Sessions!Fresh.listed = Nothing
      /\ Sessions!Fresh.notice = 0 /\ Sessions!Fresh.next = 1
  BY DEF Sessions!Fresh
<1>4. StreamsOK(Sessions!Fresh)
  BY <1>3 DEF StreamsOK
<1> QED BY <1>2, <1>3, <1>4

LEMMA StreamsInitially == Sessions!Init => StreamsInv /\ HeardInv
<1>1. Sessions!Init => StreamsInv
  BY DEF Sessions!Init, StreamsInv, StreamsTypeOK, Sessions!Live
<1>2. Sessions!Init => HeardInv
  BY DEF Sessions!Init, HeardInv
<1> QED BY <1>1, <1>2

LEMMA Initializing ==
  ASSUME StreamsInv, NEW s \in Session, Sessions!Initialize(s) PROVE Refreshes(Sessions!Idle)
<1> DEFINE L == Sessions!Live
           gone == Sessions!Idle
<1>1. /\ L \subseteq Session /\ sessions \in [Session -> Sessions!Recorded \cup {Nothing}] /\ dropped \in SUBSET Session
      /\ clock \in Nat /\ toolset \in Nat /\ gone \in SUBSET L
  BY DEF StreamsInv, StreamsTypeOK, Sessions!Live, Sessions!Idle
<1>2. /\ s \notin L \cup dropped /\ dropped' = dropped \cup gone /\ conns' = Sessions!EndConns(gone)
      /\ clock' = clock /\ toolset' = toolset
      /\ sessions' = [u \in Session |-> IF u = s THEN Sessions!Fresh ELSE IF u \in gone THEN Nothing ELSE sessions[u]]
  BY <1>1 DEF Sessions!Initialize, Sessions!Without
<1>3. Sessions!Fresh \in Sessions!Recorded /\ Sessions!Fresh.streams = <<>> /\ StreamsOK(Sessions!Fresh)
  BY FreshIs DEF StreamsInv
<1>4. StreamsTypeOK'
  BY <1>1, <1>2, <1>3, Ending DEF StreamsTypeOK
<1> HIDE DEF gone
<1>5. ASSUME NEW u \in L \ gone
      PROVE  sessions'[u] # Nothing /\ Grown(sessions[u], sessions'[u]) /\ sessions'[u].next = sessions[u].next
  <2>1. sessions'[u] = sessions[u] /\ sessions[u] # Nothing /\ sessions[u] \in Sessions!Recorded /\ StreamsOK(sessions[u])
    BY <1>1, <1>2, LiveIs DEF StreamsInv, Sessions!Live
  <2>2. sessions[u].next \in Nat /\ sessions[u].opened \in Nat
    BY <2>1 DEF Sessions!Recorded
  <2> QED BY <2>1, <2>2, SameStreams
<1>6. \A u \in Session \ (L \ gone) :
        sessions'[u] = Nothing \/ (u \notin L \cup dropped /\ sessions'[u].streams = <<>> /\ StreamsOK(sessions'[u]))
  BY <1>2, <1>3 DEF Sessions!Live
<1>7. \A c \in Conn : conns'[c] = Sessions!EndConns(gone)[c]
  BY <1>2
<1> QED BY <1>1, <1>2, <1>4, <1>5, <1>6, <1>7 DEF Refreshes, gone

LEMMA StreamsStep == StreamsInv /\ HeardInv /\ [Sessions!Next]_(Sessions!vars) => StreamsInv' /\ HeardInv'
<1> SUFFICES ASSUME StreamsInv, HeardInv, [Sessions!Next]_(Sessions!vars) PROVE StreamsInv' /\ HeardInv'
  OBVIOUS
<1>0. /\ Sessions!Idle \in SUBSET Sessions!Live /\ Sessions!Live \subseteq Session /\ StreamsTypeOK
      /\ Sessions!EndConns(Sessions!Idle) \in [Conn -> Sessions!Response \cup {Nothing}]
  BY Ending DEF Sessions!Idle, Sessions!Live, StreamsInv
<1>00. ASSUME NEW gone, Refreshes(gone) PROVE StreamsInv' /\ HeardInv'
  BY <1>00, HeardRefreshed
<1>1. ASSUME NEW gone \in SUBSET Sessions!Live, Sessions!Drop(gone) PROVE StreamsInv' /\ HeardInv'
  BY <1>00, <1>1, Dropping
<1>2. CASE Sessions!Close \/ Sessions!Unknown
  BY <1>0, <1>1, <1>2 DEF Sessions!Close, Sessions!Unknown
<1>3. ASSUME NEW s \in Session, Sessions!Delete(s) PROVE StreamsInv' /\ HeardInv'
  BY <1>0, <1>1, <1>3 DEF Sessions!Delete, Sessions!Reaches
<1>4. ASSUME NEW s \in Session, Sessions!List(s) PROVE StreamsInv' /\ HeardInv'
  <2> DEFINE q == [sessions[s] EXCEPT !.reads = Append(@, [kind |-> "list", tools |-> toolset])]
  <2>1. /\ Sessions!Reaches(s) /\ sessions' = Sessions!Touched(s, q) /\ conns' = Sessions!EndConns(Sessions!Idle)
        /\ dropped' = dropped \cup Sessions!Idle /\ clock' = clock /\ toolset' = toolset
    BY <1>4 DEF Sessions!List
  <2>2. s \in Sessions!Live /\ sessions[s] \in Sessions!Recorded /\ StreamsOK(sessions[s])
    BY <1>0, <2>1, LiveIs DEF Sessions!Reaches, StreamsInv
  <2>3. [kind |-> "list", tools |-> toolset] \in Sessions!Read
    BY <1>0 DEF Sessions!Read, StreamsTypeOK
  <2>4. q \in Sessions!Recorded /\ q.streams = sessions[s].streams /\ q.next = sessions[s].next /\ q.opened = sessions[s].opened
    BY <2>2, <2>3, Queued
  <2> HIDE DEF q
  <2>5. Grown(sessions[s], q)
    BY <2>2, <2>4, SameStreams DEF Sessions!Recorded
  <2>6. Refreshes(Sessions!Idle)
    BY <1>0, <2>1, <2>4, <2>5, Requested
  <2> QED BY <1>00, <2>6
<1>5. ASSUME NEW s \in Session, Sessions!Reaches(s), sessions' = Sessions!Touched(s, sessions[s]),
             conns' = Sessions!EndConns(Sessions!Idle), dropped' = dropped \cup Sessions!Idle,
             clock' = clock, toolset' = toolset
      PROVE  StreamsInv' /\ HeardInv'
  <2>1. s \in Sessions!Live /\ sessions[s] \in Sessions!Recorded /\ StreamsOK(sessions[s])
    BY <1>0, <1>5, LiveIs DEF Sessions!Reaches, StreamsInv
  <2>2. Grown(sessions[s], sessions[s])
    BY <2>1, SameStreams DEF Sessions!Recorded
  <2>3. Refreshes(Sessions!Idle)
    BY <1>0, <1>5, <2>1, <2>2, Requested
  <2> QED BY <1>00, <2>3
<1>6. ASSUME NEW s \in Session, NEW k \in Request, Sessions!CallTool(k, s) PROVE StreamsInv' /\ HeardInv'
  BY <1>5, <1>6 DEF Sessions!CallTool
<1>7. ASSUME NEW k \in Request, Sessions!Cancelled(k) PROVE StreamsInv' /\ HeardInv'
  <2>1. calls[k].session \in Session
    BY <1>0, <1>7 DEF Sessions!Cancelled, Sessions!Reaches
  <2> QED BY <1>5, <1>7, <2>1 DEF Sessions!Cancelled
<1>8. CASE Sessions!ToolsChange
  <2>1. /\ toolset' = toolset + 1 /\ conns' = conns /\ dropped' = dropped /\ clock' = clock
        /\ sessions' = [s \in DOMAIN sessions |-> IF s \notin Sessions!Live THEN Nothing ELSE
              [sessions[s] EXCEPT !.reads = Append(@, [kind |-> "announce", tools |-> toolset'])]]
    BY <1>8 DEF Sessions!ToolsChange
  <2>2. toolset \in Nat /\ toolset' \in Nat /\ clock' \in Nat /\ DOMAIN sessions = Session
    BY <1>0, <2>1 DEF StreamsTypeOK
  <2>3. [kind |-> "announce", tools |-> toolset'] \in Sessions!Read
    BY <2>2 DEF Sessions!Read
  <2>4. ASSUME NEW s \in Session
        PROVE  /\ sessions'[s] \in Sessions!Recorded \cup {Nothing}
               /\ IF s \in Sessions!Live
                  THEN /\ sessions'[s] # Nothing /\ sessions'[s].streams = sessions[s].streams
                       /\ sessions'[s].next = sessions[s].next /\ sessions'[s].opened = sessions[s].opened
                  ELSE sessions'[s] = Nothing
    <3>1. CASE s \in Sessions!Live
      <4>1. sessions'[s] = [sessions[s] EXCEPT !.reads = Append(@, [kind |-> "announce", tools |-> toolset'])]
        BY <2>1, <2>2, <3>1
      <4>2. sessions[s] \in Sessions!Recorded
        BY <1>0, <3>1, LiveIs
      <4>3. sessions'[s] \in Sessions!Recorded /\ sessions'[s].streams = sessions[s].streams
            /\ sessions'[s].next = sessions[s].next /\ sessions'[s].opened = sessions[s].opened
        BY <2>3, <4>1, <4>2, Queued
      <4> QED BY <3>1, <4>3, SessionsAssumption
    <3>2. CASE s \notin Sessions!Live
      BY <2>1, <2>2, <3>2
    <3> QED BY <3>1, <3>2
  <2>5. sessions' \in [Session -> Sessions!Recorded \cup {Nothing}]
    BY <2>1, <2>2, <2>4
  <2>6. Refreshes({})
    BY <2>1, <2>2, <2>4, <2>5, StreamsRest
  <2> QED BY <1>00, <2>6
<1>9. ASSUME sessions' = sessions, conns' = conns, dropped' = dropped, clock' \in Nat, toolset' = toolset PROVE StreamsInv' /\ HeardInv'
  <2>1. \A s \in Session : s \in Sessions!Live <=> sessions[s] # Nothing
    BY DEF Sessions!Live
  <2>2. Refreshes({})
    BY <1>0, <1>9, <2>1, StreamsRest DEF StreamsTypeOK
  <2> QED BY <1>00, <2>2
<1>10. CASE Sessions!Tick
  BY <1>0, <1>9, <1>10 DEF Sessions!Tick, StreamsTypeOK
<1>11. ASSUME NEW k \in Request, Sessions!CallEnds(k) PROVE StreamsInv' /\ HeardInv'
  BY <1>0, <1>9, <1>11 DEF Sessions!CallEnds, StreamsTypeOK
<1>12. CASE UNCHANGED Sessions!vars
  BY <1>0, <1>9, <1>12 DEF Sessions!vars, StreamsTypeOK
<1>13. ASSUME NEW s \in Session, Sessions!Initialize(s) PROVE StreamsInv' /\ HeardInv'
  BY <1>00, <1>13, Initializing
<1>14. ASSUME NEW s \in Session, Sessions!Resume(s) PROVE StreamsInv' /\ HeardInv'
  BY <1>14, Reading
<1>15. ASSUME NEW s \in Session, NEW c \in Conn, Sessions!Get(c, s) PROVE StreamsInv' /\ HeardInv'
  BY <1>15, Getting
<1>16. ASSUME NEW c \in Conn, Sessions!Attach(c) \/ Sessions!Leave(c) PROVE StreamsInv' /\ HeardInv'
  BY <1>16, Attaching, Leaving
<1>17. ASSUME NEW s \in Session, Sessions!Fail(s) PROVE StreamsInv' /\ HeardInv'
  <2> DEFINE rest == Tail(sessions[s].reads)
  <2>1. /\ s \in Sessions!Live /\ sessions[s].reads # <<>> /\ conns' = conns /\ dropped' = dropped /\ clock' = clock
        /\ toolset' = toolset /\ sessions' = [sessions EXCEPT ![s] = [sessions[s] EXCEPT !.reads = rest, !.unread = TRUE]]
    BY <1>17 DEF Sessions!Fail
  <2>2. sessions \in [Session -> Sessions!Recorded \cup {Nothing}] /\ sessions[s] \in Sessions!Recorded /\ clock \in Nat /\ toolset \in Nat
    BY <1>0, <2>1, LiveIs DEF StreamsTypeOK
  <2>3. rest \in Seq(Sessions!Read)
    BY <2>1, <2>2 DEF Sessions!Recorded
  <2> HIDE DEF rest
  <2>4. ASSUME NEW q, q = [sessions[s] EXCEPT !.reads = rest, !.unread = TRUE]
        PROVE  q \in Sessions!Recorded /\ q.streams = sessions[s].streams /\ q.next = sessions[s].next /\ q.opened = sessions[s].opened
    <3>1. q = [streams |-> sessions[s].streams, next |-> sessions[s].next, opened |-> sessions[s].opened, seen |-> sessions[s].seen,
               advertised |-> sessions[s].advertised, reads |-> rest, listed |-> sessions[s].listed,
               notice |-> sessions[s].notice, unread |-> TRUE]
      BY <2>2, <2>4 DEF Sessions!Recorded
    <3> QED BY <2>2, <2>3, <3>1 DEF Sessions!Recorded
  <2>5. sessions'[s] = [sessions[s] EXCEPT !.reads = rest, !.unread = TRUE] /\ \A u \in Session \ {s} : sessions'[u] = sessions[u]
    BY <2>1, <2>2
  <2>6. sessions'[s] \in Sessions!Recorded /\ sessions'[s].streams = sessions[s].streams
        /\ sessions'[s].next = sessions[s].next /\ sessions'[s].opened = sessions[s].opened
    BY <2>4, <2>5
  <2>7. sessions' \in [Session -> Sessions!Recorded \cup {Nothing}]
    <3>1. sessions' = [u \in Session |-> sessions'[u]]
      BY <2>1, <2>2
    <3>2. \A u \in Session : sessions'[u] \in Sessions!Recorded \cup {Nothing}
      BY <2>2, <2>5, <2>6
    <3> QED BY <3>1, <3>2
  <2>8. \A u \in Session : IF u \in Sessions!Live
                          THEN /\ sessions'[u] # Nothing /\ sessions'[u].streams = sessions[u].streams
                               /\ sessions'[u].next = sessions[u].next /\ sessions'[u].opened = sessions[u].opened
                          ELSE sessions'[u] = Nothing
    BY <2>1, <2>5, <2>6, SessionsAssumption DEF Sessions!Live
  <2>9. Refreshes({})
    BY <2>1, <2>2, <2>7, <2>8, StreamsRest
  <2> QED BY <1>00, <2>9
<1> QED BY <1>2, <1>3, <1>4, <1>6, <1>7, <1>8, <1>10, <1>11, <1>12, <1>13, <1>14, <1>15, <1>16, <1>17 DEF Sessions!Next

(***************************************************************************)
(* What a client knows of the tools.  The last read begun sees the tools   *)
(* of now; without one, what was advertised last is what they are, unless  *)
(* that read failed.                                                       *)
(***************************************************************************)

Noticed(r) == 0 < r.notice /\ r.notice < r.next

ReadsOK(r, now) ==
  /\ r.reads # <<>> => r.reads[Len(r.reads)].tools = now
  /\ r.reads = <<>> /\ ~r.unread /\ r.advertised # Nothing => r.advertised = Sessions!Digest(now)
  /\ r.listed # Nothing => Noticed(r) \/ r.advertised = r.listed

ReadsInv == \A s \in Sessions!Live : ReadsOK(sessions[s], toolset)

SameReads(r, q) ==
  /\ q.reads = r.reads /\ q.advertised = r.advertised /\ q.listed = r.listed
  /\ q.notice = r.notice /\ q.unread = r.unread /\ q.next = r.next

LEMMA ReadsRest ==
  ASSUME ReadsInv, toolset' = toolset,
         \A s \in Sessions!Live' : \/ s \in Sessions!Live /\ SameReads(sessions[s], sessions'[s])
                                   \/ ReadsOK(sessions'[s], toolset)
  PROVE  ReadsInv'
BY DEF ReadsInv, ReadsOK, SameReads, Noticed

LEMMA TouchedIs ==
  ASSUME StreamsTypeOK, NEW s \in Session, Sessions!Reaches(s), NEW q \in Sessions!Recorded, sessions' = Sessions!Touched(s, q)
  PROVE  \A u \in Sessions!Live' : /\ u \in Sessions!Live
                                   /\ u = s => SameReads(q, sessions'[u])
                                   /\ u # s => sessions'[u] = sessions[u]
<1> DEFINE t == [q EXCEPT !.seen = clock]
<1>1. sessions \in [Session -> Sessions!Recorded \cup {Nothing}]
  BY DEF StreamsTypeOK
<1>2. t.reads = q.reads /\ t.advertised = q.advertised /\ t.listed = q.listed /\ t.notice = q.notice /\ t.unread = q.unread
      /\ t.next = q.next
  BY DEF Sessions!Recorded
<1>3. \A u \in Session : sessions'[u] = IF u = s THEN t ELSE IF u \in Sessions!Idle THEN Nothing ELSE sessions[u]
  BY <1>1 DEF Sessions!Touched, Sessions!Without
<1> HIDE DEF t
<1> QED BY <1>2, <1>3 DEF SameReads, Sessions!Live, Sessions!Reaches

\* A record whose streams alone differ.
LEMMA OnlyStreams ==
  ASSUME NEW r \in Sessions!Recorded, NEW qs, NEW q, q = [r EXCEPT !.streams = qs] PROVE SameReads(r, q)
BY DEF SameReads, Sessions!Recorded

\* The oldest read goes; the last one stays.
LEMMA LastStays ==
  ASSUME NEW S, NEW x \in Seq(S), x # <<>>
  PROVE  /\ Tail(x) \in Seq(S) /\ Head(x) \in S
         /\ Tail(x) = <<>> => Head(x) = x[Len(x)]
         /\ Tail(x) # <<>> => Tail(x)[Len(Tail(x))] = x[Len(x)]
<1>1. Len(x) \in Nat \ {0} /\ x \in [1 .. Len(x) -> S]
  BY EmptySeq
<1>2. Tail(x) \in Seq(S) /\ Head(x) \in S /\ Head(x) = x[1] /\ Len(Tail(x)) = Len(x) - 1
  BY HeadTailProperties
<1>3. \A i \in 1 .. Len(Tail(x)) : Tail(x)[i] = x[i + 1]
  BY HeadTailProperties
<1>4. Tail(x) = <<>> <=> Len(Tail(x)) = 0
  BY <1>2, EmptySeq
<1> QED BY <1>1, <1>2, <1>3, <1>4

LEMMA Reads ==
  ASSUME StreamsInv, ReadsInv, NEW s \in Session, Sessions!Resume(s) PROVE ReadsOK(sessions'[s], toolset)
<1> DEFINE read == Head(sessions[s].reads)
           rest == Tail(sessions[s].reads)
           r == [sessions[s] EXCEPT !.reads = rest]
           d == Sessions!Digest(read.tools)
           now == Sessions!Digest(toolset)
           q == IF read.kind = "list" THEN Sessions!Answered(r, read.tools) ELSE Sessions!Announced(r, read.tools)
<1>1. /\ s \in Sessions!Live /\ sessions[s].reads # <<>> /\ sessions' = [sessions EXCEPT ![s] = q]
  BY DEF Sessions!Resume
<1>2. sessions[s] \in Sessions!Recorded /\ StreamsOK(sessions[s]) /\ ReadsOK(sessions[s], toolset)
  BY <1>1, LiveIs DEF StreamsInv, ReadsInv
<1>3. sessions'[s] = q
  BY <1>1 DEF StreamsInv, StreamsTypeOK
<1>4. /\ rest \in Seq(Sessions!Read) /\ sessions[s].reads \in Seq(Sessions!Read) /\ read \in Sessions!Read
      /\ rest = <<>> => read = sessions[s].reads[Len(sessions[s].reads)]
      /\ rest # <<>> => rest[Len(rest)] = sessions[s].reads[Len(sessions[s].reads)]
  <2> DEFINE S == Sessions!Read
  <2>1. sessions[s].reads \in Seq(S)
    BY <1>2 DEF Sessions!Recorded
  <2> HIDE DEF S
  <2> QED BY <1>1, <2>1, LastStays DEF S
<1>5. /\ rest # <<>> => rest[Len(rest)].tools = toolset
      /\ rest = <<>> => d = now
  BY <1>1, <1>2, <1>4 DEF ReadsOK
<1>6. d \in {0, 1}
  BY <1>4 DEF Sessions!Digest, Sessions!Read
<1> HIDE DEF rest
<1>7. r = [streams |-> sessions[s].streams, next |-> sessions[s].next, opened |-> sessions[s].opened, seen |-> sessions[s].seen,
           advertised |-> sessions[s].advertised, reads |-> rest, listed |-> sessions[s].listed,
           notice |-> sessions[s].notice, unread |-> sessions[s].unread]
  BY <1>2 DEF Sessions!Recorded
<1>8. r \in Sessions!Recorded
  BY <1>2, <1>4, <1>7 DEF Sessions!Recorded
<1>9. /\ r.reads = rest /\ StreamsOK(r) /\ (r.listed # Nothing => Noticed(r) \/ r.advertised = r.listed)
      /\ 0 < r.next /\ r.next \in Nat
  <2>1. StreamsOK(r) /\ 0 < r.next
    BY <1>2, <1>7 DEF StreamsOK
  <2>2. r.listed # Nothing => Noticed(r) \/ r.advertised = r.listed
    BY <1>2, <1>7 DEF ReadsOK, Noticed
  <2>3. r.reads = rest /\ r.next \in Nat
    BY <1>2, <1>7 DEF Sessions!Recorded
  <2> QED BY <2>1, <2>2, <2>3
<1> HIDE DEF r, read, now
<1>10. CASE read.kind = "list"
  <2>1. q.advertised = d /\ q.listed = d /\ q.reads = rest /\ q.unread = FALSE
    BY <1>8, <1>9, <1>10 DEF Sessions!Answered, Sessions!Recorded
  <2> HIDE DEF q, d
  <2> QED BY <1>3, <1>5, <2>1 DEF ReadsOK, now
<1>11. CASE read.kind # "list" /\ Sessions!Announces(r, read.tools)
  <2> DEFINE base == Sessions!Emitted(r)
  <2>1. base \in Sessions!Recorded /\ base.reads = rest /\ base.listed = r.listed /\ base.next = r.next + 1
    BY <1>8, <1>9, Emitting
  <2>2. q = [base EXCEPT !.advertised = d, !.notice = r.next, !.unread = FALSE]
    BY <1>11 DEF Sessions!Announced
  <2> HIDE DEF base, q, d
  <2>3. q = [streams |-> base.streams, next |-> base.next, opened |-> base.opened, seen |-> base.seen,
             advertised |-> d, reads |-> base.reads, listed |-> base.listed, notice |-> r.next, unread |-> FALSE]
    BY <2>1, <2>2 DEF Sessions!Recorded
  <2>4. q.advertised = d /\ q.reads = rest /\ q.notice = r.next /\ q.next = r.next + 1
    BY <2>1, <2>3
  <2>5. Noticed(q)
    BY <1>9, <2>4 DEF Noticed
  <2> QED BY <1>3, <1>5, <2>4, <2>5 DEF ReadsOK, now
<1>12. CASE read.kind # "list" /\ ~Sessions!Announces(r, read.tools)
  <2>1. q = [r EXCEPT !.advertised = d, !.unread = FALSE]
    BY <1>8, <1>12 DEF Sessions!Announced, Sessions!Recorded
  <2>2. r.advertised = Nothing \/ r.advertised = d
    BY <1>12 DEF Sessions!Announces
  <2> HIDE DEF q, d
  <2>3. q = [streams |-> r.streams, next |-> r.next, opened |-> r.opened, seen |-> r.seen,
             advertised |-> d, reads |-> r.reads, listed |-> r.listed, notice |-> r.notice, unread |-> FALSE]
    BY <1>8, <2>1 DEF Sessions!Recorded
  <2>4. q.advertised = d /\ q.reads = rest /\ q.listed = r.listed /\ q.notice = r.notice /\ q.next = r.next
    BY <1>9, <2>3
  <2>5. q.listed # Nothing => Noticed(q) \/ q.advertised = q.listed
    BY <1>9, <2>2, <2>4 DEF Noticed
  <2> QED BY <1>3, <1>5, <2>4, <2>5 DEF ReadsOK, now
<1> QED BY <1>10, <1>11, <1>12

LEMMA ReadsStep == ASSUME StreamsInv, ReadsInv, [Sessions!Next]_(Sessions!vars) PROVE ReadsInv'
<1> DEFINE L == Sessions!Live
<1>0. /\ L \subseteq Session /\ StreamsTypeOK /\ sessions \in [Session -> Sessions!Recorded \cup {Nothing}] /\ toolset \in Nat
      /\ \A s \in L : sessions[s] \in Sessions!Recorded /\ StreamsOK(sessions[s])
      /\ \A r : SameReads(r, r)
  BY LiveIs DEF StreamsInv, StreamsTypeOK, Sessions!Live, SameReads
<1>1. ASSUME NEW gone, Sessions!Drop(gone) PROVE ReadsInv'
  <2>1. toolset' = toolset /\ \A u \in Session : sessions'[u] = IF u \in gone THEN Nothing ELSE sessions[u]
    BY <1>0, <1>1 DEF Sessions!Drop, Sessions!Without
  <2>2. \A u \in L' : u \in L /\ sessions'[u] = sessions[u]
    BY <2>1 DEF Sessions!Live
  <2> QED BY <1>0, <2>1, <2>2, ReadsRest
<1>2. ASSUME NEW s \in Session, Sessions!Reaches(s), NEW q \in Sessions!Recorded, SameReads(sessions[s], q) \/ ReadsOK(q, toolset),
             sessions' = Sessions!Touched(s, q), toolset' = toolset
      PROVE  ReadsInv'
  <2>1. ASSUME NEW u \in L'
        PROVE  (u \in L /\ SameReads(sessions[u], sessions'[u])) \/ ReadsOK(sessions'[u], toolset)
    <3>1. u \in L /\ (u = s => SameReads(q, sessions'[u])) /\ (u # s => sessions'[u] = sessions[u])
      BY <1>0, <1>2, TouchedIs
    <3>2. CASE u # s
      BY <1>0, <3>1, <3>2
    <3>3. CASE u = s
      <4>1. SameReads(q, sessions'[u])
        BY <3>1, <3>3
      <4>2. SameReads(sessions[s], q) => SameReads(sessions[u], sessions'[u])
        BY <3>3, <4>1 DEF SameReads
      <4>3. ReadsOK(q, toolset) => ReadsOK(sessions'[u], toolset)
        BY <4>1 DEF SameReads, ReadsOK, Noticed
      <4> QED BY <1>2, <3>1, <4>2, <4>3
    <3> QED BY <3>2, <3>3
  <2> QED BY <1>2, <2>1, ReadsRest
<1>3. ASSUME NEW s \in Session, Sessions!List(s) PROVE ReadsInv'
  <2> DEFINE read == [kind |-> "list", tools |-> toolset]
             q == [sessions[s] EXCEPT !.reads = Append(@, read)]
  <2>1. Sessions!Reaches(s) /\ sessions' = Sessions!Touched(s, q) /\ toolset' = toolset
    BY <1>3 DEF Sessions!List
  <2>2. s \in L /\ sessions[s] \in Sessions!Recorded
    BY <1>0, <2>1 DEF Sessions!Reaches
  <2>3. read \in Sessions!Read
    BY <1>0 DEF Sessions!Read
  <2>4. /\ q \in Sessions!Recorded /\ q.reads = Append(sessions[s].reads, read) /\ q.advertised = sessions[s].advertised
        /\ q.listed = sessions[s].listed /\ q.notice = sessions[s].notice /\ q.unread = sessions[s].unread
        /\ q.next = sessions[s].next
    BY <2>2, <2>3, Queued
  <2>5. q.reads # <<>> /\ q.reads[Len(q.reads)] = read
    <3>1. sessions[s].reads \in Seq(Sessions!Read)
      BY <2>2 DEF Sessions!Recorded
    <3> HIDE DEF read
    <3> QED BY <2>3, <2>4, <3>1
  <2>6. ReadsOK(sessions[s], toolset)
    BY <2>2 DEF ReadsInv
  <2> HIDE DEF q
  <2>7. ReadsOK(q, toolset)
    BY <2>4, <2>5, <2>6 DEF ReadsOK, Noticed
  <2> QED BY <1>2, <2>1, <2>4, <2>7
<1>4. ASSUME NEW s \in Session, Sessions!Reaches(s), sessions' = Sessions!Touched(s, sessions[s]), toolset' = toolset PROVE ReadsInv'
  <2>1. s \in L
    BY <1>4 DEF Sessions!Reaches
  <2> QED BY <1>0, <1>2, <1>4, <2>1
<1>5. ASSUME NEW s \in Session, NEW c \in Conn, Sessions!Get(c, s) PROVE ReadsInv'
  <2>1. s \in L /\ Sessions!Reaches(s) /\ toolset' = toolset
    BY <1>5 DEF Sessions!Get, Sessions!Reaches
  <2>2. sessions' = Sessions!Touched(s, sessions[s]) \/ sessions' = Sessions!Touched(s, Sessions!OpenStream(sessions[s]))
    BY <1>5 DEF Sessions!Get
  <2>3. Sessions!OpenStream(sessions[s]) \in Sessions!Recorded /\ SameReads(sessions[s], Sessions!OpenStream(sessions[s]))
    BY <1>0, <2>1, Opening DEF SameReads
  <2> QED BY <1>2, <1>4, <2>1, <2>2, <2>3
<1>6. ASSUME NEW s \in Session, NEW k \in Request, Sessions!CallTool(k, s) PROVE ReadsInv'
  BY <1>4, <1>6 DEF Sessions!CallTool
<1>7. ASSUME NEW k \in Request, Sessions!Cancelled(k) PROVE ReadsInv'
  <2>1. calls[k].session \in Session
    BY <1>0, <1>7 DEF Sessions!Cancelled, Sessions!Reaches
  <2> QED BY <1>4, <1>7, <2>1 DEF Sessions!Cancelled
<1>8. CASE Sessions!ToolsChange
  <2>1. /\ toolset' = toolset + 1
        /\ \A u \in Session : sessions'[u] = IF u \notin Sessions!Live THEN Nothing ELSE
              [sessions[u] EXCEPT !.reads = Append(@, [kind |-> "announce", tools |-> toolset'])]
    BY <1>0, <1>8 DEF Sessions!ToolsChange
  <2> DEFINE read == [kind |-> "announce", tools |-> toolset']
  <2>2. read \in Sessions!Read /\ read.tools = toolset'
    BY <1>0, <2>1 DEF Sessions!Read
  <2> HIDE DEF read
  <2>3. ASSUME NEW u \in L' PROVE ReadsOK(sessions'[u], toolset')
    <3>1. u \in L /\ sessions'[u] = [sessions[u] EXCEPT !.reads = Append(@, read)]
      BY <2>1 DEF Sessions!Live, read
    <3>2. /\ sessions'[u].reads = Append(sessions[u].reads, read) /\ sessions'[u].advertised = sessions[u].advertised
          /\ sessions'[u].listed = sessions[u].listed /\ sessions'[u].notice = sessions[u].notice /\ sessions'[u].unread = sessions[u].unread
          /\ sessions'[u].next = sessions[u].next
      BY <1>0, <2>2, <3>1, Queued
    <3>3. sessions'[u].reads # <<>> /\ sessions'[u].reads[Len(sessions'[u].reads)] = read
      <4>1. sessions[u].reads \in Seq(Sessions!Read)
        BY <1>0, <3>1 DEF Sessions!Recorded
      <4> QED BY <2>2, <3>2, <4>1
    <3>4. ReadsOK(sessions[u], toolset)
      BY <3>1 DEF ReadsInv
    <3> QED BY <2>2, <3>2, <3>3, <3>4 DEF ReadsOK, Noticed
  <2> QED BY <2>3 DEF ReadsInv
<1>9. ASSUME NEW s \in Session, Sessions!Initialize(s) PROVE ReadsInv'
  <2>1. /\ toolset' = toolset
        /\ \A u \in Session : sessions'[u] = IF u = s THEN Sessions!Fresh ELSE IF u \in Sessions!Idle THEN Nothing ELSE sessions[u]
    BY <1>0, <1>9 DEF Sessions!Initialize, Sessions!Without
  <2>2. ReadsOK(Sessions!Fresh, toolset)
    BY <1>0, FreshIs DEF ReadsOK
  <2>3. \A u \in L' : (u = s /\ sessions'[u] = Sessions!Fresh) \/ (u \in L /\ sessions'[u] = sessions[u])
    BY <2>1 DEF Sessions!Live
  <2> QED BY <1>0, <2>1, <2>2, <2>3, ReadsRest
<1>10. ASSUME NEW s \in Session, Sessions!Resume(s) PROVE ReadsInv'
  <2>1. ReadsOK(sessions'[s], toolset)
    BY <1>10, Reads
  <2>2. toolset' = toolset /\ s \in L /\ \A u \in Session \ {s} : sessions'[u] = sessions[u]
    BY <1>0, <1>10 DEF Sessions!Resume
  <2>3. \A u \in L' : u = s \/ (u \in L /\ sessions'[u] = sessions[u])
    BY <2>2 DEF Sessions!Live
  <2> QED BY <1>0, <2>1, <2>2, <2>3, ReadsRest
<1>11. ASSUME NEW c \in Conn, Sessions!Attach(c) PROVE ReadsInv'
  <2> DEFINE s == conns[c].session
             qs == [i \in DOMAIN sessions[s].streams |-> IF sessions[s].streams[i].id = conns[c].stream
                      THEN [sessions[s].streams[i] EXCEPT !.subscriber = c] ELSE sessions[s].streams[i]]
  <2>1. toolset' = toolset /\ s \in L \cup dropped
    BY <1>11 DEF Sessions!Attach, StreamsInv, ConnOK
  <2>2. CASE s \in dropped
    <3>1. sessions' = sessions
      BY <1>11, <2>2 DEF Sessions!Attach
    <3> QED BY <1>0, <2>1, <3>1, ReadsRest DEF Sessions!Live
  <2>3. CASE s \notin dropped
    <3>1. sessions' = [sessions EXCEPT ![s].streams = [i \in DOMAIN @ |->
                   IF sessions[s].streams[i].id = conns[c].stream THEN [@[i] EXCEPT !.subscriber = c] ELSE @[i]]]
      BY <1>11, <2>3 DEF Sessions!Attach
    <3>2. sessions' = [sessions EXCEPT ![s] = [sessions[s] EXCEPT !.streams = qs]]
      BY <3>1
    <3>3. s \in L
      BY <2>1, <2>3
    <3>4. SameReads(sessions[s], [sessions[s] EXCEPT !.streams = qs])
      BY <1>0, <3>3, OnlyStreams
    <3> HIDE DEF qs
    <3>5. sessions'[s] = [sessions[s] EXCEPT !.streams = qs] /\ \A u \in Session \ {s} : sessions'[u] = sessions[u]
      BY <1>0, <3>2, <3>3
    <3>6. \A u \in L' : u \in L /\ SameReads(sessions[u], sessions'[u])
      BY <1>0, <3>3, <3>4, <3>5 DEF Sessions!Live
    <3> QED BY <2>1, <3>6, ReadsRest
  <2> QED BY <2>2, <2>3
<1>12. ASSUME NEW c \in Conn, Sessions!Leave(c) PROVE ReadsInv'
  <2> DEFINE qs(u) == [i \in DOMAIN sessions[u].streams |-> IF sessions[u].streams[i].subscriber = c
                         THEN [sessions[u].streams[i] EXCEPT !.subscriber = Nothing] ELSE sessions[u].streams[i]]
  <2>1. sessions' = [s \in DOMAIN sessions |-> IF s \notin Sessions!Live THEN Nothing ELSE
                   [sessions[s] EXCEPT !.streams = [i \in DOMAIN @ |->
                      IF @[i].subscriber = c THEN [@[i] EXCEPT !.subscriber = Nothing] ELSE @[i]]]]
        /\ toolset' = toolset
    BY <1>12 DEF Sessions!Leave
  <2>2. \A u \in Session : sessions'[u] = IF u \notin Sessions!Live THEN Nothing ELSE [sessions[u] EXCEPT !.streams = qs(u)]
    BY <1>0, <2>1
  <2> HIDE DEF qs
  <2>3. \A u \in L' : u \in L /\ sessions'[u] = [sessions[u] EXCEPT !.streams = qs(u)]
    BY <2>2 DEF Sessions!Live
  <2>4. \A u \in L' : SameReads(sessions[u], sessions'[u])
    BY <1>0, <2>3, OnlyStreams
  <2> QED BY <2>1, <2>3, <2>4, ReadsRest
<1>13. ASSUME sessions' = sessions, toolset' = toolset PROVE ReadsInv'
  BY <1>13, <1>0, ReadsRest DEF Sessions!Live
<1>14. CASE UNCHANGED Sessions!vars \/ Sessions!Tick \/ \E k \in Request : Sessions!CallEnds(k)
  BY <1>13, <1>14 DEF Sessions!vars, Sessions!Tick, Sessions!CallEnds
<1>15. CASE Sessions!Close \/ Sessions!Unknown \/ \E s \in Session : Sessions!Delete(s)
  BY <1>1, <1>15 DEF Sessions!Close, Sessions!Unknown, Sessions!Delete
<1>16. ASSUME NEW s \in Session, Sessions!Fail(s) PROVE ReadsInv'
  <2> DEFINE rest == Tail(sessions[s].reads)
  <2>1. /\ s \in L /\ sessions[s].reads # <<>> /\ toolset' = toolset
        /\ sessions' = [sessions EXCEPT ![s] = [sessions[s] EXCEPT !.reads = rest, !.unread = TRUE]]
    BY <1>16 DEF Sessions!Fail
  <2>2. sessions[s] \in Sessions!Recorded /\ ReadsOK(sessions[s], toolset)
    BY <1>0, <2>1 DEF ReadsInv
  <2>3. rest # <<>> => rest[Len(rest)] = sessions[s].reads[Len(sessions[s].reads)]
    BY <2>1, <2>2, LastStays DEF Sessions!Recorded
  <2> HIDE DEF rest
  <2>4. sessions'[s] = [sessions[s] EXCEPT !.reads = rest, !.unread = TRUE] /\ \A u \in Session \ {s} : sessions'[u] = sessions[u]
    BY <1>0, <2>1
  <2>5. /\ sessions'[s].reads = rest /\ sessions'[s].unread = TRUE /\ sessions'[s].advertised = sessions[s].advertised
        /\ sessions'[s].listed = sessions[s].listed /\ sessions'[s].notice = sessions[s].notice /\ sessions'[s].next = sessions[s].next
    BY <2>2, <2>4 DEF Sessions!Recorded
  <2>6. ReadsOK(sessions'[s], toolset)
    BY <2>1, <2>2, <2>3, <2>5 DEF ReadsOK, Noticed
  <2>7. \A u \in L' : u = s \/ (u \in L /\ sessions'[u] = sessions[u])
    BY <2>4 DEF Sessions!Live
  <2> QED BY <1>0, <2>1, <2>6, <2>7, ReadsRest
<1> QED BY <1>3, <1>5, <1>6, <1>7, <1>8, <1>9, <1>10, <1>11, <1>12, <1>14, <1>15, <1>16 DEF Sessions!Next

(***************************************************************************)
(* Calls in flight.                                                        *)
(***************************************************************************)

CallRecord == [session : Session, running : BOOLEAN, aborted : BOOLEAN]

\* A call belongs to one session, and one whose session was terminated runs on aborted only.
CallsInv == calls \in [Request -> CallRecord \cup {Nothing}] /\ Sessions!TerminatedIsAborted

\* Every call that runs for one of the sessions gone is aborted in c.
AbortedIn(c, gone) == \A k \in Request : c[k] # Nothing /\ c[k].running /\ c[k].session \in gone => c[k].aborted

LEMMA Aborting ==
  ASSUME CallsInv, NEW gone
  PROVE  /\ Sessions!AbortCalls(gone) \in [Request -> CallRecord \cup {Nothing}]
         /\ AbortedIn(Sessions!AbortCalls(gone), dropped \cup gone)
         /\ \A k \in Request : calls[k] # Nothing => Sessions!AbortCalls(gone)[k] \in CallRecord /\ Sessions!AbortCalls(gone)[k].session = calls[k].session
<1> DEFINE a == Sessions!AbortCalls(gone)
<1>1. DOMAIN calls = Request /\ \A k \in Request : calls[k] # Nothing => calls[k] \in CallRecord
  BY DEF CallsInv
<1>2. a = [k \in Request |-> IF calls[k] # Nothing /\ calls[k].running /\ calls[k].session \in gone
                             THEN [calls[k] EXCEPT !.aborted = TRUE] ELSE calls[k]]
  BY <1>1 DEF Sessions!AbortCalls
<1>3. ASSUME NEW k \in Request, calls[k] # Nothing
      PROVE  /\ a[k] \in CallRecord /\ a[k].session = calls[k].session
             /\ a[k].running /\ a[k].session \in dropped \cup gone => a[k].aborted
  <2>1. calls[k] \in CallRecord /\ (calls[k].running /\ calls[k].session \in dropped => calls[k].aborted)
    BY <1>1, <1>3 DEF CallsInv, Sessions!TerminatedIsAborted
  <2>2. CASE calls[k].running /\ calls[k].session \in gone
    <3>1. a[k] = [session |-> calls[k].session, running |-> calls[k].running, aborted |-> TRUE]
      BY <1>2, <1>3, <2>1, <2>2 DEF CallRecord
    <3> HIDE DEF a
    <3> QED BY <2>1, <3>1 DEF CallRecord
  <2>3. CASE ~(calls[k].running /\ calls[k].session \in gone)
    <3>1. a[k] = calls[k]
      BY <1>2, <2>3
    <3> HIDE DEF a
    <3> QED BY <2>1, <2>3, <3>1
  <2> QED BY <2>2, <2>3
<1>4. \A k \in Request : calls[k] = Nothing => a[k] = Nothing
  BY <1>2
<1>5. DOMAIN a = Request /\ a = [k \in Request |-> a[k]]
  BY <1>2
<1> HIDE DEF a
<1>6. a \in [Request -> CallRecord \cup {Nothing}]
  BY <1>3, <1>4, <1>5
<1>7. AbortedIn(a, dropped \cup gone)
  BY <1>3, <1>4 DEF AbortedIn
<1> QED BY <1>3, <1>6, <1>7 DEF a

\* A step that aborts the calls of the sessions it terminates and starts or
\* changes at most the call k, for a session that lives on.
LEMMA Calling ==
  ASSUME CallsInv, NEW gone, NEW k, NEW r \in CallRecord, r.running /\ r.session \in dropped \cup gone => r.aborted,
         calls' = [Sessions!AbortCalls(gone) EXCEPT ![k] = r] \/ calls' = Sessions!AbortCalls(gone), dropped' = dropped \cup gone
  PROVE  CallsInv'
<1>1. /\ Sessions!AbortCalls(gone) \in [Request -> CallRecord \cup {Nothing}]
      /\ AbortedIn(Sessions!AbortCalls(gone), dropped')
  BY Aborting
<1>2. calls' \in [Request -> CallRecord \cup {Nothing}]
  BY <1>1
<1>3. AbortedIn(calls', dropped')
  <2> SUFFICES ASSUME NEW j \in Request, calls'[j] # Nothing, calls'[j].running, calls'[j].session \in dropped' PROVE calls'[j].aborted
    BY DEF AbortedIn
  <2>1. CASE calls'[j] = Sessions!AbortCalls(gone)[j]
    BY <1>1, <2>1 DEF AbortedIn
  <2>2. CASE calls'[j] # Sessions!AbortCalls(gone)[j]
    <3>1. calls'[j] = r
      BY <1>1, <2>2
    <3> QED BY <3>1
  <2> QED BY <2>1, <2>2
<1> QED BY <1>2, <1>3 DEF CallsInv, AbortedIn, Sessions!TerminatedIsAborted

LEMMA CallsStep == ASSUME StreamsInv, CallsInv, [Sessions!Next]_(Sessions!vars) PROVE CallsInv'
<1>0. Sessions!Live \subseteq Session /\ Sessions!Live \cap dropped = {} /\ \A k \in Request : calls[k] # Nothing => calls[k] \in CallRecord
  BY DEF StreamsInv, Sessions!Live, CallsInv
<1>1. ASSUME NEW gone, calls' = Sessions!AbortCalls(gone), dropped' = dropped \cup gone PROVE CallsInv'
  BY <1>1, Aborting DEF CallsInv, AbortedIn, Sessions!TerminatedIsAborted
<1>2. CASE \/ Sessions!Close \/ Sessions!Unknown
           \/ \E s \in Session : \/ Sessions!Initialize(s) \/ Sessions!Delete(s) \/ Sessions!List(s)
                                 \/ \E c \in Conn : Sessions!Get(c, s)
  BY <1>1, <1>2 DEF Sessions!Close, Sessions!Unknown, Sessions!Drop, Sessions!Initialize, Sessions!Delete, Sessions!List, Sessions!Get
<1>3. CASE \/ UNCHANGED Sessions!vars \/ Sessions!ToolsChange \/ Sessions!Tick
           \/ \E s \in Session : Sessions!Resume(s) \/ Sessions!Fail(s)
           \/ \E c \in Conn : Sessions!Attach(c) \/ Sessions!Leave(c)
  <2>1. calls' = calls /\ dropped' = dropped
    BY <1>3 DEF Sessions!vars, Sessions!ToolsChange, Sessions!Tick, Sessions!Resume, Sessions!Fail, Sessions!Attach, Sessions!Leave
  <2> QED BY <2>1 DEF CallsInv, Sessions!TerminatedIsAborted
<1>4. ASSUME NEW s \in Session, NEW k \in Request, Sessions!CallTool(k, s) PROVE CallsInv'
  <2> DEFINE r == [session |-> s, running |-> TRUE, aborted |-> FALSE]
  <2>1. /\ calls' = [Sessions!AbortCalls(Sessions!Idle) EXCEPT ![k] = r] /\ dropped' = dropped \cup Sessions!Idle
        /\ s \notin dropped \cup Sessions!Idle
    BY <1>0, <1>4 DEF Sessions!CallTool, Sessions!Reaches
  <2>2. r \in CallRecord /\ r.session = s
    BY DEF CallRecord
  <2> HIDE DEF r
  <2> QED BY <2>1, <2>2, Calling
<1>5. ASSUME NEW k \in Request, Sessions!Cancelled(k) PROVE CallsInv'
  <2> DEFINE a == Sessions!AbortCalls(Sessions!Idle)
             r == [a[k] EXCEPT !.aborted = TRUE]
  <2>1. /\ calls' = [a EXCEPT ![k] = r] /\ dropped' = dropped \cup Sessions!Idle /\ calls[k] # Nothing
    BY <1>5 DEF Sessions!Cancelled
  <2>2. a[k] \in CallRecord
    BY <2>1, Aborting
  <2> HIDE DEF a
  <2>3. r \in CallRecord /\ r.aborted
    BY <2>2 DEF CallRecord
  <2> HIDE DEF r
  <2> QED BY <2>1, <2>3, Calling DEF a
<1>6. ASSUME NEW k \in Request, Sessions!CallEnds(k) PROVE CallsInv'
  <2> DEFINE r == [calls[k] EXCEPT !.running = FALSE]
  <2>1. calls' = [calls EXCEPT ![k] = r] /\ dropped' = dropped /\ calls[k] \in CallRecord
    BY <1>0, <1>6 DEF Sessions!CallEnds
  <2>2. ASSUME NEW c, c \in CallRecord, NEW d, d = [c EXCEPT !.running = FALSE] PROVE d \in CallRecord /\ d.running = FALSE
    <3>1. DOMAIN c = {"session", "running", "aborted"} /\ c.session \in Session /\ c.aborted \in BOOLEAN
      BY <2>2 DEF CallRecord
    <3>2. /\ DOMAIN d = {"session", "running", "aborted"}
          /\ d.session = c.session /\ d.running = FALSE /\ d.aborted = c.aborted
      BY <2>2, <3>1
    <3>3. d = [session |-> c.session, running |-> FALSE, aborted |-> c.aborted]
      BY <2>2, <3>1, <3>2
    <3> QED BY <3>1, <3>2, <3>3 DEF CallRecord
  <2>3. r \in CallRecord /\ ~r.running
    BY <2>1, <2>2
  <2> HIDE DEF r
  <2>4. calls' \in [Request -> CallRecord \cup {Nothing}]
    BY <2>1, <2>3 DEF CallsInv
  <2>5. \A j \in Request : calls'[j] = calls[j] \/ calls'[j] = r
    BY <2>1 DEF CallsInv
  <2> QED BY <2>1, <2>3, <2>4, <2>5 DEF CallsInv, Sessions!TerminatedIsAborted
<1> QED BY <1>2, <1>3, <1>4, <1>5, <1>6 DEF Sessions!Next

(***************************************************************************)
(* What the sessions promise.                                              *)
(***************************************************************************)

LEMMA SessionsInitially == Sessions!Init => ReadsInv /\ CallsInv
BY DEF Sessions!Init, ReadsInv, CallsInv, Sessions!Live, Sessions!TerminatedIsAborted

\* An event of stream i that none of its transports got or missed in its window
\* waits for each of them.
LEMMA Waiting ==
  ASSUME StreamsInv, HeardInv, NEW s \in Sessions!Live, NEW r, r = sessions[s], NEW i \in DOMAIN r.streams,
         NEW id, id = r.streams[i].id, NEW e \in Sessions!ToSet(r.streams[i].log), ~HeardOn(s, id, e),
         NEW c \in Conn, conns[c] # Nothing, conns[c].session = s, conns[c].stream = id
  PROVE  Sessions!Waits(c, e, r.streams, i)
<1>1. /\ StreamsTypeOK /\ r \in Sessions!Recorded /\ StreamsOK(r) /\ HeardOK(c) /\ ConnOK(c)
      /\ r.streams \in Seq(Sessions!Stream)
  BY LiveIs DEF StreamsInv, HeardInv, Sessions!Recorded
<1>2. conns[c].got \in Seq(Nat) /\ conns[c].from \in Nat /\ conns[c].asked \in Nat /\ Covered(c, r)
  BY <1>1, ConnIs DEF HeardOK
<1>3. Holds(r, id, e) /\ e \in Nat
  <2>1. r.streams[i].log \in Seq(Nat)
    <3>1. r.streams[i] \in Sessions!Stream
      BY <1>1
    <3> QED BY <3>1 DEF Sessions!Stream
  <2> QED BY <2>1 DEF Holds, Sessions!ToSet
<1>4. e \notin Sessions!Got(c) /\ ~Sessions!InWindow(c, e)
  BY DEF HeardOn
<1>5. conns[c].from < e
  BY <1>2, <1>3 DEF Covered
<1>6. conns[c].state # "attached"
  BY <1>2, <1>3, <1>4, <1>5 DEF Covered
<1>7. conns[c].state = "answered" => e \in Sessions!ToSet(conns[c].backlog) /\ conns[c].got = <<>>
  <2> SUFFICES ASSUME conns[c].state = "answered" PROVE e \in Sessions!ToSet(conns[c].backlog) /\ conns[c].got = <<>>
    OBVIOUS
  <2>1. e < conns[c].asked
    BY <1>2, <1>3, <1>4 DEF Sessions!InWindow
  <2>2. e \in Told(c)
    BY <1>2, <1>3, <1>5, <2>1 DEF Covered
  <2> QED BY <1>1, <1>4, <2>2 DEF Told, ConnOK
<1>8. conns[c].state # "answered" => \A g \in Sessions!Got(c) : g < e
  BY <1>2, <1>3, <1>4, <1>5 DEF Covered
<1> SUFFICES ASSUME NEW last, last = Sessions!Cursor(c) PROVE Sessions!Waits(c, e, r.streams, i)
  OBVIOUS
<1>9. last \in Nat /\ last < e
  <2>1. CASE conns[c].got = <<>>
    BY <1>2, <1>5, <2>1 DEF Sessions!Cursor
  <2>2. CASE conns[c].got # <<>>
    <3>1. last = conns[c].got[Len(conns[c].got)]
      BY <2>2 DEF Sessions!Cursor, Sessions!Last
    <3>2. last \in Nat /\ last \in Sessions!Got(c)
      BY <1>2, <2>2, <3>1 DEF Sessions!Got, Sessions!ToSet
    <3> QED BY <1>7, <1>8, <2>2, <3>2
  <2> QED BY <2>1, <2>2
<1>10. ASSUME last \in Sessions!ToSet(r.streams[i].log) \/ Len(r.streams) = 1
       PROVE  e \in Sessions!ToSet(Sessions!Replay(r.streams, last))
  <2> SUFFICES ASSUME NEW w, w = Sessions!Replay(r.streams, last), NEW at, at = Sessions!Resumed(r.streams, last)
               PROVE  e \in Sessions!ToSet(w)
    OBVIOUS
  <2>1. Replays(r, last, at, w)
    BY <1>1, <1>9, Replaying
  <2>2. at = i
    <3>1. CASE last \in Sessions!ToSet(r.streams[i].log)
      <4>1. Holds(r, r.streams[i].id, last)
        BY <3>1 DEF Holds, Sessions!ToSet
      <4> QED BY <2>1, <4>1 DEF Replays
    <3>2. CASE Len(r.streams) = 1
      <4>1. i = 1
        BY <1>1, <3>2
      <4> QED BY <1>9, <2>1, <3>2, <4>1 DEF Replays
    <3> QED BY <1>10, <3>1, <3>2
  <2>3. at # 0
    BY <1>1, <2>2
  <2> QED BY <1>3, <1>9, <2>1, <2>2, <2>3 DEF Replays
<1> QED BY <1>6, <1>7, <1>9, <1>10 DEF Sessions!Waits

LEMMA StreamsPromise ==
  ASSUME StreamsInv, HeardInv
  PROVE  /\ Sessions!OneStreamPerEvent /\ Sessions!DeliveredInOrder /\ Sessions!OpenIsCarried
         /\ Sessions!WhileAttachedIsHeard /\ Sessions!DeliveredOrReplayed
<1>1. Sessions!OneStreamPerEvent
  <2> SUFFICES ASSUME NEW s \in Sessions!Live
               PROVE  /\ \A i, j \in DOMAIN sessions[s].streams : i # j =>
                           Sessions!ToSet(sessions[s].streams[i].log) \cap Sessions!ToSet(sessions[s].streams[j].log) = {}
                      /\ \A i \in DOMAIN sessions[s].streams : \A k \in DOMAIN sessions[s].streams[i].log :
                           /\ sessions[s].streams[i].log[k] < sessions[s].next /\ k <= ReplayBuffer
                           /\ k > 1 => sessions[s].streams[i].log[k - 1] < sessions[s].streams[i].log[k]
    BY DEF Sessions!OneStreamPerEvent
  <2>1. sessions[s] \in Sessions!Recorded /\ StreamsOK(sessions[s])
    BY LiveIs DEF StreamsInv
  <2>2. ASSUME NEW i \in DOMAIN sessions[s].streams
        PROVE  /\ Len(sessions[s].streams[i].log) \in Nat /\ Len(sessions[s].streams[i].log) <= ReplayBuffer
               /\ DOMAIN sessions[s].streams[i].log = 1 .. Len(sessions[s].streams[i].log)
    <3>1. sessions[s].streams \in Seq(Sessions!Stream)
      BY <2>1 DEF Sessions!Recorded
    <3>2. sessions[s].streams[i] \in Sessions!Stream
      BY <3>1
    <3>3. sessions[s].streams[i].log \in Seq(Nat)
      BY <3>2 DEF Sessions!Stream
    <3> QED BY <2>1, <3>3 DEF StreamsOK
  <2>3. \A i, j \in DOMAIN sessions[s].streams : i # j =>
          Sessions!ToSet(sessions[s].streams[i].log) \cap Sessions!ToSet(sessions[s].streams[j].log) = {}
    BY <2>1 DEF StreamsOK, Sessions!ToSet
  <2>4. ASSUME NEW i \in DOMAIN sessions[s].streams, NEW k \in DOMAIN sessions[s].streams[i].log
        PROVE  /\ sessions[s].streams[i].log[k] < sessions[s].next /\ k <= ReplayBuffer
               /\ k > 1 => sessions[s].streams[i].log[k - 1] < sessions[s].streams[i].log[k]
    <3>1. /\ k \in Nat /\ k <= Len(sessions[s].streams[i].log) /\ k <= ReplayBuffer
          /\ k > 1 => k - 1 \in DOMAIN sessions[s].streams[i].log /\ k - 1 < k
      BY <2>2, SessionsAssumption
    <3>2. Increasing(sessions[s].streams[i].log) /\ Below(sessions[s].streams[i].log, sessions[s].next)
      BY <2>1 DEF StreamsOK
    <3> QED BY <3>1, <3>2 DEF Increasing, Below
  <2> QED BY <2>3, <2>4
<1>2. Sessions!DeliveredInOrder
  <2> SUFFICES ASSUME NEW c \in Conn, conns[c] # Nothing
               PROVE  /\ \A i, j \in DOMAIN conns[c].got : i < j => conns[c].got[i] < conns[c].got[j]
                      /\ \A i \in DOMAIN conns[c].got : conns[c].from < conns[c].got[i]
    BY DEF Sessions!DeliveredInOrder
  <2>1. Increasing(conns[c].got) /\ \A e \in Told(c) : conns[c].from < e
    BY DEF StreamsInv, HeardInv, ConnOK, HeardOK
  <2>2. \A i \in DOMAIN conns[c].got : conns[c].got[i] \in Told(c)
    BY DEF Told, Sessions!Got, Sessions!ToSet
  <2> QED BY <2>1, <2>2 DEF Increasing
<1>3. Sessions!OpenIsCarried
  <2> SUFFICES ASSUME NEW c \in Conn, conns[c] # Nothing, NEW s, s = conns[c].session
               PROVE  /\ conns[c].state = "attached" =>
                           /\ s \in Sessions!Live
                           /\ \E i \in DOMAIN sessions[s].streams :
                                sessions[s].streams[i].id = conns[c].stream /\ sessions[s].streams[i].subscriber = c
                      /\ conns[c].state = "displaced" =>
                           \E d \in Conn \ {c} : /\ conns[d] # Nothing /\ conns[d].state # "answered"
                                                /\ conns[d].session = s /\ conns[d].stream = conns[c].stream
                      /\ conns[c].state = "orphan" /\ s \in Sessions!Live =>
                           \A i \in DOMAIN sessions[s].streams : sessions[s].streams[i].id # conns[c].stream
    BY DEF Sessions!OpenIsCarried
  <2>1. ConnOK(c) /\ HeardOK(c)
    BY DEF StreamsInv, HeardInv
  <2>2. conns[c].state = "attached" =>
           s \in Sessions!Live /\ Carries(sessions[s], conns[c].stream, c)
    BY <2>1 DEF ConnOK
  <2>3. conns[c].state = "displaced" => Displaced(c)
    BY <2>1 DEF HeardOK
  <2>4. conns[c].state = "orphan" /\ s \in Sessions!Live => ~Names(sessions[s], conns[c].stream)
    BY <2>1 DEF HeardOK
  <2> QED BY <2>2, <2>3, <2>4 DEF Carries, Displaced, Names
<1>4. Sessions!WhileAttachedIsHeard
  <2> SUFFICES ASSUME NEW c \in Conn, conns[c] # Nothing, conns[c].state = "attached", NEW s, s = conns[c].session,
                      NEW e \in conns[c].joined .. sessions[s].next - 1
               PROVE  Heard(s, e)
    BY DEF Sessions!WhileAttachedIsHeard, Heard
  <2>1. s \in Sessions!Live /\ HeardOK(c) /\ StreamsTypeOK
    BY DEF StreamsInv, HeardInv, ConnOK
  <2>2. sessions[s].next \in Nat /\ conns[c].joined \in Nat
    BY <2>1, LiveIs, ConnIs DEF Sessions!Recorded
  <2>3. e \in Nat /\ conns[c].joined <= e /\ e < sessions[s].next
    BY <2>2
  <2> QED BY <2>1, <2>3 DEF HeardOK, Accompanied
<1>5. Sessions!DeliveredOrReplayed
  <2> SUFFICES ASSUME NEW s \in Sessions!Live, NEW r, r = sessions[s], NEW i \in DOMAIN r.streams,
                      NEW e \in Sessions!ToSet(r.streams[i].log),
                      NEW on, on = {c \in Conn : conns[c] # Nothing /\ conns[c].session = s /\ conns[c].stream = r.streams[i].id}
               PROVE  \/ \E c \in on : e \in Sessions!Got(c) \/ Sessions!InWindow(c, e)
                      \/ \A c \in on : Sessions!Waits(c, e, r.streams, i)
    BY DEF Sessions!DeliveredOrReplayed
  <2>1. CASE HeardOn(s, r.streams[i].id, e)
    BY <2>1 DEF HeardOn
  <2>2. CASE ~HeardOn(s, r.streams[i].id, e)
    BY <2>2, Waiting
  <2> QED BY <2>1, <2>2
<1> QED BY <1>1, <1>2, <1>3, <1>4, <1>5

LEMMA ReadsPromise == ASSUME StreamsInv, HeardInv, ReadsInv PROVE Sessions!ListIsCurrent
<1> SUFFICES ASSUME NEW s \in Sessions!Live, NEW r, r = sessions[s], r.reads = <<>>, r.listed # Nothing, ~r.unread
             PROVE  \/ r.listed = Sessions!Digest(toolset)
                    \/ /\ 0 < r.notice /\ r.notice < r.next
                       /\ (\E c \in Conn : /\ conns[c] # Nothing /\ conns[c].session = s
                                           /\ conns[c].state = "attached" /\ conns[c].joined <= r.notice) =>
                            \E c \in Conn : conns[c] # Nothing /\ conns[c].session = s /\ r.notice \in Sessions!Got(c)
  BY DEF Sessions!ListIsCurrent
<1>1. ReadsOK(r, toolset) /\ r \in Sessions!Recorded
  BY LiveIs DEF ReadsInv, StreamsInv
<1>2. CASE r.advertised = r.listed
  BY <1>1, <1>2 DEF ReadsOK
<1>3. CASE Noticed(r)
  <2>1. r.notice \in Nat
    BY <1>1 DEF Sessions!Recorded
  <2>2. ASSUME NEW c \in Conn, conns[c] # Nothing, conns[c].session = s, conns[c].state = "attached", conns[c].joined <= r.notice
        PROVE  Heard(s, r.notice)
    <3>1. HeardOK(c)
      BY <2>2 DEF HeardInv
    <3> QED BY <1>3, <2>1, <2>2, <3>1 DEF HeardOK, Accompanied, Noticed
  <2> QED BY <1>3, <2>2 DEF Noticed, Heard
<1> QED BY <1>1, <1>2, <1>3 DEF ReadsOK

\* McpSessions: no event is in two histories or twice on a transport; an event in
\* a history was received on its stream, is replayed to every client of it, or
\* fell between a GET's answer and its subscription; while a transport is
\* attached, every event reaches one; an open transport hears its stream unless
\* another took it or it was forgotten; termination aborts what runs; and a
\* client's tool list is current or its change was announced, to an attached
\* transport if there was one.
THEOREM SessionsAlwaysDeliver == Sessions!Spec => []SessionsDeliver
<1>1. Sessions!Init => StreamsInv /\ HeardInv /\ ReadsInv /\ CallsInv
  BY StreamsInitially, SessionsInitially
<1>2. StreamsInv /\ HeardInv /\ ReadsInv /\ CallsInv /\ [Sessions!Next]_(Sessions!vars)
        => (StreamsInv /\ HeardInv /\ ReadsInv /\ CallsInv)'
  BY StreamsStep, ReadsStep, CallsStep
<1>3. StreamsInv /\ HeardInv /\ ReadsInv /\ CallsInv => SessionsDeliver
  BY StreamsPromise, ReadsPromise DEF SessionsDeliver, CallsInv
<1> QED BY <1>1, <1>2, <1>3, PTL DEF Sessions!Spec
=============================================================================
