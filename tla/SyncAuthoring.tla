--------------------------- MODULE SyncAuthoring ---------------------------
(***************************************************************************)
(* Sync.forApplication(App).make (packages/sync/src/make.ts): the fields   *)
(* and Messages of a document merged from fragments, the replay derived    *)
(* from the application's update.                                          *)
(*                                                                         *)
(* The Model has a shared field, a field shared in part (its shared and    *)
(* its local half), and a local field.  An update function maps the Model  *)
(* and the one durable Message of interest to a Model and its Commands.    *)
(***************************************************************************)
EXTENDS Naturals, Sequences

CONSTANTS Update,    \* update functions an application may have
          Fragment,  \* fragments a feature may contribute
          Owner,     \* applications
          Nothing

VARIABLES update,    \* the application's update for the durable Message
          fragments, \* what the document is composed of
          defined,   \* what make yields: "none", "refused", or the contract
          model,     \* the Model of a mounted application
          replica,   \* the shared value its replica holds
          steps      \* durable Messages so far, and how replay took the last

authoringVars == <<update, fragments, defined, model, replica, steps>>

Bit == {0, 1}
Model == [shared : Bit, half : Bit, rest : Bit, local : Bit]
Initial == [shared |-> 0, half |-> 0, rest |-> 0, local |-> 0]

\* The projection: the shared field, and one half of the partly shared one.
Get(m) == [shared |-> m.shared, half |-> m.half]
Set(m, value) == [m EXCEPT !.shared = value.shared, !.half = value.half]

(***************************************************************************)
(* Composition of fragments.                                               *)
(***************************************************************************)

FieldsOf(fs) == UNION {fs[i].fields : i \in DOMAIN fs}

\* Projection.compose: a field of two fragments has one codec.
SameCodecs(fs) == \A f, g \in FieldsOf(fs) : f.name = g.name => f.codec = g.codec

\* MessageSet.union: a tag belongs to one fragment, all of one application.
DistinctTags(fs) == \A i, j \in DOMAIN fs : i # j => fs[i].tags \cap fs[j].tags = {}

Composable(fs, owner) ==
  /\ fs # <<>> /\ \A i \in DOMAIN fs : fs[i].owner = owner
  /\ SameCodecs(fs) /\ DistinctTags(fs)

\* make: the contract of the document.
Make ==
  /\ defined = Nothing
  /\ defined' = IF Composable(fragments, "app")
                THEN [outcome |-> "made", owns |-> {f.name : f \in FieldsOf(fragments)},
                      messages |-> UNION {{[of |-> i, tag |-> t] : t \in fragments[i].tags} : i \in DOMAIN fragments}]
                ELSE [outcome |-> "refused", owns |-> {}, messages |-> {}]
  /\ UNCHANGED <<update, fragments, model, replica, steps>>

(***************************************************************************)
(* The derived replay.                                                     *)
(***************************************************************************)

\* Mutant: a field shared in part counts as owned.
LocalHalfOwned(m) == [local |-> m.local]

\* What the projection does not own outright, as it reads with the projection
\* written back.
LocalHalf(m) == [rest |-> m.rest, local |-> m.local]

\* derivedReplay: refused with a Command or a change outside the projection.
Replay(value) ==
  LET result  == update[Set(Initial, value)]
      written == Set(Initial, Get(result.model))
  IN  IF result.commands > 0 \/ LocalHalf(result.model) # LocalHalf(written) THEN Nothing ELSE Get(result.model)

\* A durable Message: the Model is updated at once, then it is submitted; a
\* refused one puts the replica's value back.
Apply ==
  /\ defined # Nothing /\ steps.count < 2
  /\ LET result   == update[model]
         replayed == Replay(replica)
     IN  /\ replica' = IF replayed = Nothing THEN replica ELSE replayed
         /\ model' = IF replayed = Nothing THEN Set(result.model, replica) ELSE result.model
         /\ steps' = [count |-> steps.count + 1, from |-> model,
                      taken |-> IF replayed = Nothing THEN "refused" ELSE "recorded"]
  /\ UNCHANGED <<update, fragments, defined>>

\* A local Message changes a local part of the Model.
TypeLocally ==
  /\ defined # Nothing /\ steps.count = 1
  /\ \E r, l \in Bit : model' = [model EXCEPT !.rest = r, !.local = l]
  /\ steps' = [steps EXCEPT !.taken = "none"]
  /\ UNCHANGED <<update, fragments, defined, replica>>

Init ==
  /\ update \in Update
  /\ fragments \in {<<f, g>> : f, g \in Fragment} \cup {<<f>> : f \in Fragment}
  /\ defined = Nothing
  /\ model = Initial /\ replica = Get(Initial) /\ steps = [count |-> 0, from |-> Initial, taken |-> "none"]

Next == Make \/ Apply \/ TypeLocally

Spec == Init /\ [][Next]_authoringVars

(***************************************************************************)
(* Properties.                                                             *)
(***************************************************************************)

\* A durable tag of a composed document belongs to one of its fragments.
TagsHaveOneFragment ==
  defined # Nothing => \A m, n \in defined.messages : m.tag = n.tag => m.of = n.of

\* A Message recorded over the initial local state is lossless: the shared value
\* written over the state before it is all the update did, a change of the local
\* half of a partly shared field included.
ReplayLosesNothing ==
  steps.taken = "recorded" /\ LocalHalf(steps.from) = LocalHalf(Initial) =>
    update[steps.from].commands = 0 /\ (steps.count = 1 => model = Set(steps.from, replica))
=============================================================================
