----------------------------- MODULE SurfaceTree -----------------------------
(***************************************************************************)
(* The typed references of an application's Model and the projections made *)
(* of them (packages/surface/src/index.ts): a reference reads and replaces *)
(* one place of the Model; a projection reads several, declares the paths  *)
(* it depends on, and, when it is picked from references, is installed     *)
(* back.  The state is the Model; one step replaces a place of it or       *)
(* installs a projection's value.                                          *)
(*                                                                         *)
(* A path is a sequence of segments: a field by its key, an entry of a     *)
(* record `at` a key, an item of an array at an `index`.  An Option is the *)
(* sequence of its value, or the empty one.                                *)
(***************************************************************************)
EXTENDS Naturals, Sequences, SequencesExt, FiniteSetsExt, Functions, TLC

CONSTANTS Models,        \* the Models the application may start in
          Refs,          \* the references of its tree: paths
          Values,        \* for each of them, what may be put there
          Projections,   \* read-only projections, as trees of operators
          Picks,         \* writable ones: parts, each a set of paths
          MaxSteps       \* bound: steps

VARIABLES model, before, step, steps

treeVars == <<model, before, step, steps>>

Key(name) == [by |-> "key", name |-> name]
At(name) == [by |-> "at", name |-> name]
Index(i) == [by |-> "index", name |-> i]
IsOptional(path) == Last(path).by # "key"

(***************************************************************************)
(* References                                                              *)
(***************************************************************************)

Focus(container, segment) ==
    IF segment.by = "key" THEN container[segment.name]
    ELSE IF segment.name \in DOMAIN container THEN <<container[segment.name]>> ELSE <<>>

Get(root, path) == FoldLeft(Focus, root, path)

(* The container with a place of it replaced: an entry of a record is      *)
(* inserted or removed, an item of an array replaced or removed where      *)
(* there is one.                                                           *)
Replaced(container, segment, value) ==
    CASE segment.by = "key" -> [container EXCEPT ![segment.name] = value]
      [] segment.by = "at" ->
            IF value = <<>> THEN Restrict(container, DOMAIN container \ {segment.name})
            ELSE (segment.name :> value[1]) @@ container
      [] segment.by = "index" ->
            IF segment.name \notin DOMAIN container THEN container
            ELSE IF value = <<>> THEN RemoveAt(container, segment.name)
            ELSE [container EXCEPT ![segment.name] = value[1]]

RECURSIVE Put(_, _, _)
Put(root, path, value) ==
    IF path = <<>> THEN value
    ELSE Put(root, Front(path), Replaced(Get(root, Front(path)), Last(path), value))

(***************************************************************************)
(* Projections: a tree of operators, each with the reader it makes and the *)
(* paths it declares.                                                      *)
(***************************************************************************)

RECURSIVE Read(_, _)
Read(projection, root) ==
    CASE projection.op = "all"    -> root
      [] projection.op = "ref"    -> Get(root, projection.path)
      [] projection.op = "struct" -> [n \in DOMAIN projection.of |-> Read(projection.of[n], root)]
      [] projection.op = "of"     -> [n \in DOMAIN projection.of |-> Read(projection.of[n], root[n])]
      [] projection.op = "array"  -> [i \in DOMAIN root |-> Read(projection.of, root[i])]
      [] projection.op = "select" ->
            LET at == Get(root, projection.path)
            IN  IF IsOptional(projection.path)
                THEN [i \in DOMAIN at |-> Read(projection.of, at[i])]
                ELSE Read(projection.of, at)

\* Mutant: what is selected from a reference depends on its own parts only.
RECURSIVE DepsBelow(_)
DepsBelow(projection) ==
    CASE projection.op = "all"   -> {}
      [] projection.op = "ref"   -> {projection.path}
      [] projection.op \in {"struct", "of"} ->
            UNION {DepsBelow(projection.of[n]) : n \in DOMAIN projection.of}
      [] OTHER -> DepsBelow(projection.of)

(* A selection declares its own path: what the nested projections of a     *)
(* value declare is relative to that value.                                *)
RECURSIVE Deps(_)
Deps(projection) ==
    CASE projection.op = "all"    -> {}
      [] projection.op = "ref"    -> {projection.path}
      [] projection.op \in {"struct", "of"} ->
            UNION {Deps(projection.of[n]) : n \in DOMAIN projection.of}
      [] projection.op = "array"  -> Deps(projection.of)
      [] projection.op = "select" -> {projection.path} \cup Deps(projection.of)

(***************************************************************************)
(* Writable projections                                                    *)
(***************************************************************************)

PickDeps(pick) == UNION ToSet(pick)

(* Its schema has a field for every key: two references of one key are     *)
(* refused unless their codecs are the same, and the references picked     *)
(* here have distinct keys.                                                *)
Picked(pick, root) ==
    FoldSet(LAMBDA path, out: (Last(path).name :> Get(root, path)) @@ out, <<>>, PickDeps(pick))

Installed(pick, root, shared) ==
    FoldLeft(LAMBDA given, part:
                FoldSet(LAMBDA path, next: Put(next, path, shared[Last(path).name]), given, part),
             root, pick)

(***************************************************************************)
(* The application                                                         *)
(***************************************************************************)

NoStep == [kind |-> "none"]

TreeInit ==
    /\ model \in Models
    /\ before = model
    /\ step = NoStep
    /\ steps = 0

SetRef(path, value) ==
    /\ model' = Put(model, path, value)
    /\ before' = model
    /\ step' = [kind |-> "set", at |-> {path}, path |-> path, value |-> value]
    /\ steps' = steps + 1

Install(pick, from) ==
    /\ model' = Installed(pick, model, Picked(pick, from))
    /\ before' = model
    /\ step' = [kind |-> "install", at |-> PickDeps(pick), pick |-> pick,
                shared |-> Picked(pick, from)]
    /\ steps' = steps + 1

TreeNext ==
    /\ steps < MaxSteps
    /\ \/ \E path \in Refs : \E value \in Values[path] : SetRef(path, value)
       \/ \E pick \in Picks, from \in Models : Install(pick, from)

TreeSpec == TreeInit /\ [][TreeNext]_treeVars

(***************************************************************************)
(* Properties                                                              *)
(***************************************************************************)

(* What is put at a reference, or installed through a writable projection, *)
(* is what a read of it gives afterwards, an entry that was absent and one *)
(* that is taken away included; only an item of an array beyond its end    *)
(* stays absent (makeTree's setters, Projection.pick and .compose).        *)
WrittenIsRead ==
    /\ step.kind = "set" =>
          \/ Get(model, step.path) = step.value
          \/ Last(step.path).by = "index" /\ (Get(before, step.path) = <<>> \/ step.value = <<>>)
    /\ step.kind = "install" => Picked(step.pick, model) = step.shared

Touches(path, other) == IsPrefix(path, other) \/ IsPrefix(other, path)
Shifts(path, other) ==
    /\ Len(path) = Len(other) /\ Front(path) = Front(other)
    /\ Last(path).by = "index" /\ Last(other).by = "index"
    /\ Last(other).name > Last(path).name

(* A write through references changes no place of the Model that is        *)
(* neither above nor below them, later items of an array that loses one    *)
(* aside: two features that own disjoint fields cannot disturb each other  *)
(* (makeTree's setters copy every container on the way up).                *)
WritesAreLocal ==
    step # NoStep =>
        \A other \in Refs :
            \/ \E path \in step.at : Touches(path, other) \/ Shifts(path, other)
            \/ Get(model, other) = Get(before, other)

(* A projection whose value a write changed had declared a path the write  *)
(* touched: who re-renders or re-observes by dependencies misses nothing   *)
(* (mergeDependencies, select, struct, pick).                              *)
DependenciesAreTrue ==
    step # NoStep =>
        \A projection \in Projections :
            Read(projection, model) # Read(projection, before) =>
                \E path \in step.at, dependency \in Deps(projection) :
                    Touches(path, dependency) \/ Shifts(path, dependency)
=============================================================================
