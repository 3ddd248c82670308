--------------------------- MODULE MCRemoteReads ---------------------------
(***************************************************************************)
(* Small instances of RemoteReads for TLC.                                 *)
(***************************************************************************)
EXTENDS RemoteReads, TLC

CONSTANTS e1, e2, a, b, list, page, board

\* A list shows field a of both entities, a page both fields of the first, a
\* board field a of the first.
MCNeeds ==
  [s \in Surface |->
     CASE s = list  -> e1 :> {a} @@ e2 :> {a}
       [] s = page  -> e1 :> {a, b} @@ e2 :> {}
       [] s = board -> e1 :> {a} @@ e2 :> {}]

MCOrder == <<e1, e2>>

\* Nothing tells one call of runAll from another.
Runs == Permutations(Run)
=============================================================================
