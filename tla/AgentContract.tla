--------------------------- MODULE AgentContract ---------------------------
(***************************************************************************)
(* Building an agent contract (packages/agent/src: expose.ts, naming.ts,   *)
(* completion.ts, make.ts, introspect.ts, runtime.ts bind) and what the    *)
(* MCP handler lists and reads of it.  Construction throws or yields a     *)
(* contract; nothing else checks these conditions later.                   *)
(*                                                                         *)
(* A tag is a sequence of characters; payloads are told apart by shape.    *)
(***************************************************************************)
EXTENDS Naturals, Sequences, FiniteSets, SequencesExt

CONSTANTS Declaration, \* variants an application may declare
          ResourceName,\* names of resources, "context" among them
          Lower,       \* toLowerCase of each character
          Valid,       \* the characters a protocol-facing name may have
          Shape,       \* shapes of untrusted input
          Nothing

VARIABLES declared,  \* the variants given to expose, in order
          resourceNames, \* the resources given to make, in order
          projecting,  \* the contract has a context projection
          observing,   \* the host can observe Messages
          contract     \* what construction yields: [outcome, variants]

contractVars == <<declared, resourceNames, projecting, observing, contract>>

(***************************************************************************)
(* Names.                                                                  *)
(***************************************************************************)

Word(c, i) == IF i > 1 /\ Lower[c] # c THEN <<"_", Lower[c]>> ELSE <<Lower[c]>>

\* RequestedDeleteTodo becomes requested_delete_todo.
DefaultName(tag) == FlattenSeq([i \in DOMAIN tag |-> Word(tag[i], i)])

NameOf(d) == IF d.name = Nothing THEN DefaultName(d.tag) ELSE d.name

ValidName(name) == Len(name) \in 1 .. 128 /\ ToSet(name) \subseteq Valid

(***************************************************************************)
(* Input schemas.  The payload of a Message without fields accepts {} and  *)
(* nothing else; Struct({}) alone accepts any object, array or string.     *)
(***************************************************************************)

\* What decoding with onExcessProperty "error" lets through.
StructAccepts(fields) == IF fields = {} THEN Shape ELSE {fields}

ClosedAccepts(fields) == IF fields = {} THEN {{}} ELSE {fields}

\* EmptyPayload for a payload, closedEmptyObject added to an external struct.
InputAccepts(d) ==
  IF ~d.external THEN ClosedAccepts(d.fields)
  ELSE IF d.fields = {} THEN StructAccepts({}) \cap {{}} ELSE StructAccepts(d.fields)

\* toJsonSchema: properties, all required, additionalProperties false.
Advertised(d) == {shape \in Shape : shape = d.fields}

(***************************************************************************)
(* Construction.                                                           *)
(***************************************************************************)

\* compileCompletion refuses a contract nothing completes, or one Message both ways.
Decidable(d) == d.completes => d.success # {} /\ d.success \cap d.failure = {}

Exposable(d) ==
  /\ d.known /\ (d.external => d.toMessage)
  /\ ValidName(NameOf(d)) /\ Decidable(d)

Distinct(names) == \A i, j \in DOMAIN names : names[i] = names[j] => i = j

UniqueNames(ds) == Distinct([i \in DOMAIN ds |-> NameOf(ds[i])])

\* Mutant: the missing observer is found out at the first call.
BindableLater(ds) == TRUE

\* bind: a completion needs a host that can observe.
Bindable(ds) == observing \/ \A i \in DOMAIN ds : ~ds[i].completes

Compiled(d) == [tag |-> d.tag, name |-> NameOf(d), accepts |-> InputAccepts(d), advertises |-> Advertised(d),
                success |-> d.success, failure |-> d.failure, completes |-> d.completes]

\* expose, make and bind.
Build ==
  /\ contract.outcome = "none"
  /\ contract' = IF /\ \A i \in DOMAIN declared : Exposable(declared[i])
                    /\ UniqueNames(declared) /\ Distinct(resourceNames) /\ Bindable(declared)
                 THEN [outcome |-> "built", variants |-> [i \in DOMAIN declared |-> Compiled(declared[i])]]
                 ELSE [outcome |-> "refused", variants |-> <<>>]
  /\ UNCHANGED <<declared, resourceNames, projecting, observing>>

Init ==
  /\ declared \in {<<d, e>> : d, e \in Declaration}
  /\ declared[1].tag # declared[2].tag     \* keys of one object
  /\ resourceNames \in UNION {[1 .. n -> ResourceName] : n \in 0 .. 2}
  /\ projecting \in BOOLEAN /\ observing \in BOOLEAN
  /\ contract = [outcome |-> "none", variants |-> <<>>]

Next == Build

Spec == Init /\ [][Next]_contractVars

(***************************************************************************)
(* What the MCP handler lists and reads.                                   *)
(***************************************************************************)

ContextDeclared == \E i \in DOMAIN resourceNames : resourceNames[i] = "context"

\* resources/list: the projection gives way to a resource named context.
Listed == (IF projecting /\ ~ContextDeclared THEN <<"context">> ELSE <<>>) \o resourceNames

\* resources/read: where the value comes from.
ReadFrom(name) ==
  IF name = "context" /\ ~ContextDeclared THEN (IF projecting THEN "projection" ELSE "error")
  ELSE IF \E i \in DOMAIN resourceNames : resourceNames[i] = name THEN "resource" ELSE "error"

(***************************************************************************)
(* Properties.                                                             *)
(***************************************************************************)

Built == contract.outcome = "built"

\* A name a client sends names one capability, and every name is one a protocol
\* accepts, although two tags can have the same default name.
NamesAreUnambiguous ==
  Built => \A i, j \in DOMAIN contract.variants :
    (contract.variants[i].name = contract.variants[j].name => i = j) /\ ValidName(contract.variants[i].name)

\* Every completion of a bound contract can be decided: something completes it,
\* no Message means both, and the host shows the Messages.
CompletionsAreDecidable ==
  Built => \A i \in DOMAIN contract.variants : contract.variants[i].completes =>
    observing /\ contract.variants[i].success # {} /\ contract.variants[i].success \cap contract.variants[i].failure = {}

\* What a capability accepts is what its JSON Schema advertises.
AdvertisedIsAccepted ==
  Built => \A i \in DOMAIN contract.variants : contract.variants[i].accepts = contract.variants[i].advertises

\* resources/list and resources/read agree: no resource is listed twice, what is
\* listed can be read, and what can be read is listed.
ListedIsReadable ==
  Built => /\ Distinct(Listed)
           /\ \A name \in ResourceName : (name \in ToSet(Listed)) <=> (ReadFrom(name) # "error")
=============================================================================
