----------------------------- MODULE MCJournal -----------------------------
(***************************************************************************)
(* Small instances of Journal for TLC.                                     *)
(***************************************************************************)
EXTENDS Journal

CONSTANTS c1, c2, o1, o2, x, y, alice, guest

MCCaller == {c1, c2}
MCOpId   == {o1, o2}
MCData   == {x, y}
MCActor  == {alice, guest}

\* A payload y needs a non-empty document (reduce throws otherwise); a guest
\* may write x only (authorize).
MCAccept(snapshot, op, actor) ==
  CASE actor = guest /\ op.data = y         -> "refused"
    [] op.data = y /\ snapshot = <<>>       -> "invalid"
    [] OTHER                                -> "reduce"

One(a, id, d)  == [actor |-> a, ops |-> <<[id |-> id, data |-> d]>>]
Two(a, i, d, j, e) ==
  [actor |-> a, ops |-> <<[id |-> i, data |-> d], [id |-> j, data |-> e]>>]

\* Single appends with every identity, payload and actor, and batches whose
\* second half succeeds, is refused, or depends on the first.
MCBatch ==
  {One(a, id, d) : a \in MCActor, id \in MCOpId, d \in MCData}
    \cup {Two(alice, o1, x, o2, y), Two(alice, o2, x, o1, x), Two(guest, o1, x, o2, y),
          Two(alice, o1, x, o1, x)}

\* Fewer batches where callers interleave.
FewBatches ==
  {One(alice, o1, x), One(alice, o2, x), One(alice, o2, y), One(guest, o1, x),
   Two(alice, o1, x, o2, y)}

\* One operation identity in dispute: enough to have something to announce.
OneBatch == {One(alice, o1, x), One(alice, o2, x)}
=============================================================================
