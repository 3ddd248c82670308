---------------------------- MODULE SurfaceModule ----------------------------
(***************************************************************************)
(* The composition root of an application (Module, MessageSet and          *)
(* Surface.contract, packages/surface/src/index.ts): what its features     *)
(* declare is collected as contracts, one after the other; validation      *)
(* finds what the types cannot, and the manifest says who owns each path   *)
(* of the Model.                                                           *)
(*                                                                         *)
(* A path is a sequence of field names.  Identity matters: a contract has  *)
(* an `id`, and a Surface becomes a contract of its own each time it is    *)
(* listed.                                                                 *)
(***************************************************************************)
EXTENDS Naturals, Sequences, SequencesExt, FiniteSets, Functions

CONSTANTS App,            \* this application's identity
          Fields, Tags,   \* the fields of its Model, its Messages
          Items,          \* what a Module may be given
          MaxContracts    \* bound: contracts of a Module

VARIABLE contracts

(***************************************************************************)
(* Message subsets: a subset is a sequence of constructors [app, tag].     *)
(***************************************************************************)

IsDistinct(subset) == \A i, j \in DOMAIN subset : i # j => subset[i].tag # subset[j].tag

Makeable(subset) ==
    /\ \A i \in DOMAIN subset : subset[i].app = App /\ subset[i].tag \in Tags
    /\ IsDistinct(subset)

TagsIn(subset) == {subset[i].tag : i \in DOMAIN subset}

\* What MessageSet.make and .union accept; what they refuse throws.
Unionable(parts) ==
    /\ \A i \in DOMAIN parts : Makeable(parts[i])
    /\ \A i, j \in DOMAIN parts : i # j => TagsIn(parts[i]) \cap TagsIn(parts[j]) = {}

TagsOf(parts) == UNION {TagsIn(parts[i]) : i \in DOMAIN parts}

(***************************************************************************)
(* Contracts                                                               *)
(***************************************************************************)

\* A value that carries a contract keeps it; a Surface gets a new one for each
\* place it is listed at.
ToContract(item, place) ==
    [id       |-> IF item.kind = "surface" THEN <<item.name, place>> ELSE <<item.id>>,
     kind     |-> item.kind,
     name     |-> item.name,
     owner    |-> item.owner,
     owns     |-> IF item.kind = "surface" THEN {} ELSE item.owns,
     observes |-> item.observes,
     parts    |-> item.parts,
     messages |-> TagsOf(item.parts)]

Local == <<>>
Label(contract) == <<contract.kind, contract.name>>
Finding(rule, about) == [rule |-> rule, contracts |-> {Label(c) : c \in about}]

Overlap(p, q) == p # <<>> /\ q # <<>> /\ (IsPrefix(p, q) \/ IsPrefix(q, p))
\* Mutant: the owners are kept by name.
OwnersByName(list) ==
    {i \in DOMAIN list : /\ list[i].owns # {}
                          /\ \A j \in (i + 1)..Len(list) : Label(list[j]) # Label(list[i])}

Owners(list) == {i \in DOMAIN list : list[i].owns # {}}
Overlaps(a, b) == \E p \in a.owns, q \in b.owns : Overlap(p, q)

KnowsPaths(contract) ==
    \A path \in contract.owns \cup contract.observes : path # <<>> /\ path[1] \in Fields
KnowsMessages(contract) == contract.messages \subseteq Tags

\* The last contract of that name before this one is another value.
Duplicate(list, i) ==
    LET same == {j \in 1..(i - 1) : Label(list[j]) = Label(list[i])}
    IN  same # {} /\ \A j \in same : (\A k \in same : k <= j) => list[j] # list[i]

\* The first sync contract that records a tag claims it.
ClaimedTwice(list, i) ==
    {list[j] : j \in {j \in 1..(i - 1) :
        /\ list[i].kind = "sync" /\ list[j].kind = "sync" /\ list[j] # list[i]
        /\ \E tag \in list[i].messages \cap list[j].messages :
               \A k \in 1..(j - 1) : list[k].kind = "sync" => tag \notin list[k].messages}}

Validate(list) ==
    UNION {
        {Finding("foreign-contract", {list[i]}) : i \in {i \in DOMAIN list : list[i].owner \notin {App, "unknown"}}},
        {Finding("duplicate-name", {list[i]}) : i \in {i \in DOMAIN list : Duplicate(list, i)}},
        {Finding("unknown-path", {list[i]}) : i \in {i \in DOMAIN list : ~KnowsPaths(list[i])}},
        {Finding("unknown-message", {list[i]}) : i \in {i \in DOMAIN list : ~KnowsMessages(list[i])}},
        UNION {{Finding("ownership-overlap", {list[i], list[j]}) :
                  j \in {j \in Owners(list) : j > i /\ list[i] # list[j] /\ Overlaps(list[i], list[j])}}
               : i \in Owners(list)},
        UNION {{Finding("message-claimed-twice", {list[i], other}) : other \in ClaimedTwice(list, i)}
               : i \in DOMAIN list}}

(***************************************************************************)
(* The manifest: the rows of a field.  A claim of the whole field is its   *)
(* only row; otherwise it is local, with a row for each nested claim.      *)
(***************************************************************************)

Claims(list, field) ==
    UNION {{[path |-> p, owner |-> Label(c)] : p \in {q \in c.owns : q # <<>> /\ q[1] = field}} : c \in ToSet(list)}

Rows(list, field) ==
    LET whole == {claim \in Claims(list, field) : Len(claim.path) = 1}
    IN  IF whole # {} THEN {CHOOSE claim \in whole : TRUE}
        ELSE {[path |-> <<field>>, owner |-> Local]} \cup Claims(list, field)

Manifest(list) == UNION {Rows(list, field) : field \in Fields}

ModuleInit == contracts = <<>>

Add(item) ==
    /\ Unionable(item.parts)
    /\ contracts' = Append(contracts, ToContract(item, Len(contracts)))

ModuleNext == Len(contracts) < MaxContracts /\ \E item \in Items : Add(item)

ModuleSpec == ModuleInit /\ [][ModuleNext]_contracts

(***************************************************************************)
(* Properties                                                              *)
(***************************************************************************)

Clean == Validate(contracts) = {}

(* In a Module without findings every path of the Model has one authority  *)
(* at most, a path and those above and below it taken together, every      *)
(* Message is recorded by one part of one sync contract, and a name stands *)
(* for one contract.  It is what lets Sync, Remote and the Agent write the *)
(* same Model without knowing of each other (Module.validate, surface      *)
(* README "Module").                                                       *)
CleanIsOwnedOnce ==
    Clean =>
        \A c, d \in ToSet(contracts) :
            /\ c # d => /\ Label(c) # Label(d)
                        /\ \A p \in c.owns, q \in d.owns : ~IsPrefix(p, q) /\ ~IsPrefix(q, p)
            /\ c.kind = "sync" /\ d.kind = "sync" =>
                 \A i \in DOMAIN c.parts, j \in DOMAIN d.parts :
                     <<c, i>> # <<d, j>> => TagsIn(c.parts[i]) \cap TagsIn(d.parts[j]) = {}

(* The order in which features are added decides nothing: the same rules   *)
(* are broken when the contracts are listed backwards, although validation *)
(* compares each contract with earlier ones only (`seen`, `recorded`).     *)
OrderIsIrrelevant ==
    LET Rules(list) == {f.rule : f \in Validate(list)}
    IN  Rules(contracts) = Rules(Reverse(contracts))

(* Adding a feature never hides a finding: what is found in the contracts  *)
(* so far is found with one more (`seen` is overwritten, `recorded` not).  *)
AddingHidesNothing ==
    contracts # <<>> => Validate(Front(contracts)) \subseteq Validate(contracts)

(* The committed manifest tells the truth about a Module without findings: *)
(* every claim is in a row of its owner, every row with an owner is one's  *)
(* claim, and a field is local when nobody owns it whole (Module.manifest).*)
ManifestIsTrue ==
    Clean =>
        /\ \A c \in ToSet(contracts) : \A path \in c.owns :
              \E row \in Manifest(contracts) : row.owner = Label(c) /\ IsPrefix(row.path, path)
        /\ \A row \in Manifest(contracts) : row.owner # Local =>
              \E c \in ToSet(contracts) : row.owner = Label(c) /\ row.path \in c.owns
        /\ \A field \in Fields :
              [path |-> <<field>>, owner |-> Local] \in Manifest(contracts)
                <=> \A c \in ToSet(contracts) : <<field>> \notin c.owns
=============================================================================
