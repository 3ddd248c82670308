--------------------------- MODULE SharedDocument ---------------------------
(***************************************************************************)
(* What replication promises, without storage, network or outbox: one log  *)
(* of operations in a total order, each identity in it once, and replicas  *)
(* that have applied a prefix of it and only move forward or start over.   *)
(***************************************************************************)
EXTENDS Integers, Sequences

CONSTANTS OpId, Data, Replica

VARIABLES log,    \* the committed operations, in the order everyone applies them
          view    \* replica -> what it has applied

Op == [id : OpId, data : Data]

Init == log = <<>> /\ view = [r \in Replica |-> <<>>]

\* The document server commits a new operation.
Commit ==
  /\ \E op \in Op :
       /\ \A i \in DOMAIN log : log[i].id # op.id
       /\ log' = Append(log, op)
  /\ view' = view

\* A replica catches up with some prefix of the log.
CatchUp(r) ==
  /\ \E n \in Len(view[r])..Len(log) : view' = [view EXCEPT ![r] = SubSeq(log, 1, n)]
  /\ log' = log

\* A replica that lost its storage starts over.
Forget(r) == view' = [view EXCEPT ![r] = <<>>] /\ log' = log

Next == Commit \/ \E r \in Replica : CatchUp(r) \/ Forget(r)

Spec == Init /\ [][Next]_<<log, view>>

\* Replicas never diverge: of any two, one has applied a prefix of what the
\* other has.
ViewsAgree ==
  \A q, r \in Replica : \A i \in DOMAIN view[q] \cap DOMAIN view[r] : view[q][i] = view[r][i]
=============================================================================
