------------------------------ MODULE RemoteGraph ------------------------------
(***************************************************************************)
(* A view that selects through relations: the planner that says what of it *)
(* the store lacks (packages/remote/src/plan.ts), the server's read, which *)
(* follows the relations level by level (packages/remote-server/src/       *)
(* index.ts:565-686), the write of its result (packages/remote/src/        *)
(* model.ts:335-416), the assembly of what is shown (selection.ts) and the *)
(* collection of what no view reaches (retain.ts).                         *)
(*                                                                         *)
(* One kind of entity: a scalar, a relation to one entity and a relation   *)
(* to many, of which a window takes the first so many.  A slice of an      *)
(* entity is [fields, window, rel]: the fields it selects, the window of   *)
(* the many-relation (0 for none) and, for a relation it selects through,  *)
(* the slice of the target.                                                *)
(***************************************************************************)
EXTENDS Naturals, Sequences, SequencesExt, FiniteSetsExt, Functions

CONSTANTS Ids,           \* the entities
          Shapes,        \* what the server's data may be at first
          Links,         \* where a relation to one may be pointed later
          Views,         \* the views the application may show: <<id, slice>>
          Patches,       \* optimistic patches: [id, vals]
          Denied,        \* fields the reader may not see
          MaxChanges,    \* bound: changes of the data and mutations begun
          MaxShown,      \* bound: views shown, one after another
          None

Fields == {"name", "one", "many"}
Relations == {"one", "many"}

VARIABLES db,            \* the server's data: id -> field -> value
          store,         \* the client's: id -> [vals, win]
          view,          \* the view shown
          shown,         \* how many have been shown
          layer,         \* the optimistic patch of a pending mutation, or None
          read,          \* the read in flight, or None
          asked,         \* the requirements the last read was for
          retained,      \* the roots of the last collection, or None
          changed        \* how often the data or a mutation has changed it

graphVars == <<db, store, view, shown, layer, read, asked, retained, changed>>

Pairs(requests) == {<<id, requests[id]>> : id \in DOMAIN requests}
Targets(field, value) ==
    IF field = "many" THEN ToSet(value) ELSE IF field = "one" /\ value # None THEN {value} ELSE {}

(***************************************************************************)
(* Requirements                                                            *)
(***************************************************************************)

(* `mergeRelation` (surface/src/index.ts:287-324): fields and relations    *)
(* are united; of two windows the later wins.                              *)
RECURSIVE MergeSlice(_, _)
MergeSlice(a, b) ==
    [fields |-> a.fields \cup b.fields,
     window |-> IF b.window # 0 THEN b.window ELSE a.window,
     rel    |-> [f \in DOMAIN a.rel \cap DOMAIN b.rel |-> MergeSlice(a.rel[f], b.rel[f])]
                   @@ a.rel @@ b.rel]

NoRelation == [f \in {} |-> None]
EmptySlice == [fields |-> {}, window |-> 0, rel |-> NoRelation]
MergeSlices(slices) == FoldSet(MergeSlice, EmptySlice, slices)

(* `mergeRequirements`: one slice for each entity. *)
MergePairs(pairs) ==
    FoldSet(LAMBDA p, all : (p[1] :> (IF p[1] \in DOMAIN all THEN MergeSlice(all[p[1]], p[2]) ELSE p[2])) @@ all,
            NoRelation, pairs)

(***************************************************************************)
(* The store                                                               *)
(***************************************************************************)

Empty == [vals |-> [f \in {} |-> None], win |-> 0]

(* `written` (store.ts:48-76): a field written without a window forgets    *)
(* the one it was fetched with.                                            *)
Written(entry, vals, window) ==
    [vals |-> vals @@ entry.vals, win |-> IF "many" \in DOMAIN vals THEN window ELSE entry.win]

(* The base store under the pending layer (`visibleStore`). *)
VisibleOver(base) ==
    IF layer = None THEN base ELSE [base EXCEPT ![layer.id] = Written(@, layer.vals, 0)]

Missing(entry, slice) ==
    {f \in slice.fields : \/ f \notin DOMAIN entry.vals
                          \/ f = "many" /\ slice.window # 0 /\ entry.win \notin {0, slice.window}}

(* `plan`: the fields the store lacks, each with its window and relation;  *)
(* a relation the store holds is followed into its targets instead.        *)
RECURSIVE PlanPairs(_, _)
PlanPairs(s, pairs) ==
    UNION {LET lacks(id) == Missing(s[id], requests[id])
               planned == {<<id, [fields |-> lacks(id),
                                  window |-> IF "many" \in lacks(id) THEN requests[id].window ELSE 0,
                                  rel |-> Restrict(requests[id].rel, DOMAIN requests[id].rel \cap lacks(id))]>> :
                              id \in {i \in DOMAIN requests : lacks(i) # {}}}
               held(id) == {f \in DOMAIN requests[id].rel \ lacks(id) : f \in DOMAIN s[id].vals}
               followed == UNION {UNION {{<<target, requests[id].rel[f]>> : target \in Targets(f, s[id].vals[f])} :
                                            f \in held(id)} : id \in DOMAIN requests}
           IN  planned \cup (IF followed = {} THEN {} ELSE PlanPairs(s, followed)) :
              requests \in {MergePairs(pairs)}}

PlanAfter(base) == MergePairs(UNION {PlanPairs(s, {view}) : s \in {VisibleOver(base)}})
Plan == PlanAfter(store)

(***************************************************************************)
(* The server's read                                                       *)
(***************************************************************************)

(* What the source answers for one entity: the allowed fields, the window  *)
(* applied to the relation it pages.                                       *)
Record(id, slice) ==
    [f \in slice.fields \ Denied |->
        IF f = "many" /\ slice.window # 0 /\ slice.window < Len(db[id].many)
        THEN SubSeq(db[id].many, 1, slice.window) ELSE db[id][f]]

(* The targets a level's values lead to, asked only for what the batch has *)
(* not read of them; one that was read in full is followed further from    *)
(* what was read.                                                          *)
RECURSIVE Follow(_, _, _)
Follow(batch, vals, rel) ==
    UNION {LET left == rel[p[1]].fields \ batch.fetched[p[2]]
           IN  IF left # {} THEN {<<p[2], [rel[p[1]] EXCEPT !.fields = left]>>}
               ELSE Follow(batch, batch.values[p[2]], rel[p[1]].rel) :
             p \in UNION {{<<f, target>> : target \in Targets(f, vals[f])} : f \in DOMAIN rel \cap DOMAIN vals}}

(* One entity of one group is read. *)
ReadOne(batch, id, slice) ==
    LET vals == Record(id, slice)
        done == [batch EXCEPT !.got = Append(@, [id |-> id, vals |-> vals]),
                              !.fetched[id] = @ \cup DOMAIN vals,
                              !.values[id] = vals @@ @]
    IN  IF DOMAIN vals = {} THEN batch
        ELSE [done EXCEPT !.next = @ \cup Follow(done, vals, slice.rel)]

(* A level: the requests grouped by window, the slices of a group united,  *)
(* so that one window never answers for another id.                        *)
ReadLevel(batch) ==
    LET windows == SetToSortSeq({p[2].window : p \in batch.pending}, <)
        group(w) == {p \in batch.pending : p[2].window = w}
        readGroup(b, w) == FoldLeft(LAMBDA c, id : ReadOne(c, id, MergeSlices({p[2] : p \in group(w)})),
                                    b, SetToSeq({p[1] : p \in group(w)}))
        done == FoldLeft(readGroup, [batch EXCEPT !.next = {}], windows)
        rest == {<<p[1], [p[2] EXCEPT !.fields = @ \ done.fetched[p[1]]]>> : p \in done.next}
    IN  [done EXCEPT !.pending = {p \in rest : p[2].fields # {}}, !.next = {}]

(***************************************************************************)
(* The write of a result                                                   *)
(***************************************************************************)

(* The windows a request recorded, for its entity and for the targets the  *)
(* returned refs name.                                                     *)
RECURSIVE Recorded(_, _, _)
Recorded(returned, id, slice) ==
    (IF slice.window = 0 THEN {} ELSE {<<id, slice.window>>}) \cup
    UNION {UNION {Recorded(returned, target, slice.rel[f]) : target \in Targets(f, returned[id][f])} :
              f \in DOMAIN slice.rel \cap DOMAIN returned[id]}

WriteRead(requests, got) ==
    LET returned == FoldLeft(LAMBDA r, e : [r EXCEPT ![e.id] = e.vals @@ @],
                             [id \in Ids |-> Empty.vals], got)
        recorded == UNION {Recorded(returned, id, requests[id]) : id \in DOMAIN requests}
        window(id) == LET ws == {p[2] : p \in {q \in recorded : q[1] = id}}
                      IN  IF ws = {} THEN 0 ELSE CHOOSE w \in ws : TRUE
    IN  FoldLeft(LAMBDA s, e : [s EXCEPT ![e.id] = Written(@, e.vals, window(e.id))], store, got)

(***************************************************************************)
(* Assembly and collection                                                 *)
(***************************************************************************)

(* What a slice shows: each selected field by its path, None where the     *)
(* store lacks it.                                                         *)
RECURSIVE Assemble(_, _, _, _)
Assemble(s, id, slice, path) ==
    UNION {LET at == Append(path, f)
               vals == s[id].vals
           IN  IF f \notin DOMAIN vals THEN {<<at, None>>}
               ELSE IF f \notin DOMAIN slice.rel THEN {<<at, <<vals[f]>>>>}
               ELSE {<<at, <<vals[f]>>>>}
                       \cup UNION {Assemble(s, target, slice.rel[f], Append(at, target)) :
                                      target \in Targets(f, vals[f])} : f \in slice.fields}

ShownOver(s) == Assemble(s, view[1], view[2], <<>>)
IsWhole == \A leaf \in ShownOver(VisibleOver(store)) : leaf[2] # None

\* Mutant: relations are not followed.
ReachableRoot(id, slice) == {id}

(* `reachable`: the entities the slice is read from, and every one its     *)
(* fields refer to.                                                        *)
RECURSIVE Reachable(_, _)
Reachable(id, slice) ==
    {id} \cup UNION {UNION {IF f \in DOMAIN slice.rel THEN Reachable(target, slice.rel[f]) ELSE {target} :
                               target \in Targets(f, store[id].vals[f])} :
                        f \in slice.fields \cap DOMAIN store[id].vals}

(* `gc`: what the view does not reach is dropped, except an entity that a  *)
(* pending mutation patches.                                               *)
Collected ==
    [id \in Ids |-> IF id \in Reachable(view[1], view[2]) \/ (layer # None /\ layer.id = id)
                    THEN store[id] ELSE Empty]

(***************************************************************************)
(* The system                                                              *)
(***************************************************************************)

NothingAsked == NoRelation

Init ==
    /\ db \in Shapes
    /\ store = [id \in Ids |-> Empty]
    /\ view \in Views
    /\ shown = 1 /\ changed = 0
    /\ layer = None /\ read = None /\ retained = None
    /\ asked = NothingAsked

(* `Remote.observe`: the requirements the plan leaves are read when they   *)
(* are others than the ones read last; a read in flight is given up.       *)
Observe ==
    /\ asked' \in {Plan} \ {asked}
    /\ read' = IF asked' = NothingAsked THEN None
               ELSE [pending |-> Pairs(asked'), got |-> <<>>, next |-> {},
                     fetched |-> [id \in Ids |-> {}], values |-> [id \in Ids |-> Empty.vals]]
    /\ UNCHANGED <<db, store, view, shown, layer, retained, changed>>

ServerReads ==
    /\ read # None /\ read.pending # {}
    /\ read' = ReadLevel(read)
    /\ UNCHANGED <<db, store, view, shown, layer, asked, retained, changed>>

(* The runtime evaluates the dependencies of its subscriptions after every *)
(* Message, before it takes the next one.                                  *)
Evaluated == asked \in {Plan}

(* `ReadReceived`. *)
Answer ==
    /\ Evaluated
    /\ read # None /\ read.pending = {}
    /\ store' = WriteRead(asked, read.got)
    /\ read' = None
    /\ UNCHANGED <<db, view, shown, layer, asked, retained, changed>>

(* The data changes, between the levels of a read too. *)
Change(id, target) ==
    /\ changed < MaxChanges
    /\ db[id].one # target
    /\ db' = [db EXCEPT ![id].one = target]
    /\ changed' = changed + 1
    /\ UNCHANGED <<store, view, shown, layer, read, asked, retained>>

(* Another view takes its place, and with it another entry. *)
Show(v) ==
    /\ Evaluated
    /\ shown < MaxShown /\ v # view
    /\ view' = v
    /\ shown' = shown + 1
    /\ read' = None
    /\ asked' = NothingAsked
    /\ UNCHANGED <<db, store, layer, retained, changed>>

(* `RetentionChanged`, once for new roots, when they have been stable. *)
Collect ==
    /\ Evaluated
    /\ retained # view
    /\ retained' = view
    /\ store' = Collected
    /\ UNCHANGED <<db, view, shown, layer, read, asked, changed>>

Patch(p) ==
    /\ Evaluated
    /\ layer = None
    /\ changed < MaxChanges
    /\ layer' = p
    /\ changed' = changed + 1
    /\ UNCHANGED <<db, store, view, shown, read, asked, retained>>

(* The mutation failed: its layer is released, the base was never touched. *)
Release ==
    /\ Evaluated
    /\ layer # None
    /\ layer' = None
    /\ UNCHANGED <<db, store, view, shown, read, asked, retained, changed>>

ChangeSome == \E id \in Ids, target \in Links : Change(id, target)
ShowSome == \E v \in Views : Show(v)
PatchSome == \E p \in Patches : Patch(p)
Next == Observe \/ ServerReads \/ Answer \/ ChangeSome \/ ShowSome \/ Collect \/ PatchSome \/ Release

(***************************************************************************)
(* Properties                                                              *)
(***************************************************************************)

GraphTypeOK ==
    /\ \A id \in Ids : DOMAIN store[id].vals \subseteq Fields
    /\ view \in Views /\ layer \in Patches \cup {None}
    /\ DOMAIN asked \subseteq Ids

(* Nothing the reader may not see leaves the server, nor anything that     *)
(* only a relation it may not see leads to.                                *)
RECURSIVE Within(_, _, _)
Within(vals, id, slice) ==
    {id} \cup UNION {UNION {Within(vals, target, slice.rel[f]) : target \in Targets(f, vals[id][f])} :
                        f \in (DOMAIN slice.rel \cap DOMAIN vals[id]) \ Denied}
NothingDeniedIsRead ==
    read # None =>
        \A k \in DOMAIN read.got :
            /\ DOMAIN read.got[k].vals \cap Denied = {}
            /\ read.got[k].id \in UNION {Within(read.values, id, asked[id]) : id \in DOMAIN asked}

(* A read answers what it was asked, whatever changed at the server        *)
(* meanwhile: once it is written, no field of its plan that the reader may *)
(* see is planned again, so the entry does not refetch for ever.           *)
NoReadIsInVain ==
    read # None /\ read.pending = {} =>
        \A after \in {PlanAfter(WriteRead(asked, read.got))} : \A id \in DOMAIN asked \cap DOMAIN after :
            after[id].fields \cap asked[id].fields \subseteq Denied

(* A page is stored under the window it was read with: it holds the first  *)
(* so many refs of the relation, no more and no fewer, and a relation      *)
(* stored without one is held whole.                                       *)
WindowIsTheOneRead ==
    \A id \in Ids : "many" \in DOMAIN store[id].vals =>
        Len(store[id].vals.many) =
            IF store[id].win = 0 THEN Len(db[id].many) ELSE Min({store[id].win, Len(db[id].many)})

(* Collection takes nothing from the view, and what it shows whole stays   *)
(* whole, unless a pending mutation has pointed a relation elsewhere.      *)
CollectionIsUnseen ==
    layer = None \/ DOMAIN layer.vals \cap Relations = {} =>
        ShownOver(VisibleOver(Collected)) = ShownOver(VisibleOver(store))

(* However the data changed while it was read, the view is whole in the    *)
(* end, in one read or several, once the data and the view rest.           *)
ViewIsLoaded == Denied = {} => <>[]IsWhole
=============================================================================
