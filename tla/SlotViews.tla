------------------------------ MODULE SlotViews ------------------------------
(***************************************************************************)
(* Views that publish slots, and the Styles and Behaviors attached to them *)
(* from outside (packages/mixins/src: capability.ts, slots.ts, style.ts,   *)
(* behavior.ts, slotView.ts, a11y.ts).  The state is the registry of       *)
(* capabilities, which definitions extend while the program loads, and the *)
(* mixins attached to a view, in order.                                    *)
(*                                                                         *)
(* A definition aims at one slot; one that aims at several is the          *)
(* composition of those.  A Behavior is what it requires and, for each     *)
(* input, what it contributes; a Style is a tree of pieces, some of them   *)
(* under a condition on the input.                                         *)
(***************************************************************************)
EXTENDS Naturals, Sequences, SequencesExt, FiniteSets, Functions, TLC

CONSTANTS Capabilities,  \* [name, extends] of what may be defined
          Slots,         \* the view's contract: name -> slot
          Inputs,        \* what the view may be given
          Bases,         \* what it may give a slot itself
          Behaviors, Styles,
          Patterns,      \* accessibility patterns: name -> requirement
          MaxMixins      \* bound: mixins of a view

VARIABLES registry,      \* capability name -> names of its parents
          attached       \* the definitions attached, each [by, definition]

slotVars == <<registry, attached>>

(***************************************************************************)
(* The resolver (resolver.ts, mixin.ts): the attributes a view gives a     *)
(* slot and what its mixins contribute become the attributes of one        *)
(* element.                                                                *)
(*                                                                         *)
(* An attribute is [kind, name, value, child].  Its kind is "class" (named *)
(* by a token), "style" (by a property), "mount", "structural" (Key,       *)
(* InnerHTML), "event" (by its normalised name) or "attribute" (by its     *)
(* tag).  A name is a sequence, for a tag that is keyed of the tag and its *)
(* key: two keys of `Attribute` are two names.  A child is opaque, a       *)
(* handler that a Submodel published.  A contribution is a record of four  *)
(* sequences of attributes.                                                *)
(***************************************************************************)

Nothing4 == [classes |-> <<>>, style |-> <<>>, attributes |-> <<>>, mounts |-> <<>>]
Flat(c) == c.classes \o c.style \o c.attributes \o c.mounts

\* Mixin.compose: the classes of both, then the declarations of both, ...
MergeStatic(left, right) == [f \in DOMAIN left |-> left[f] \o right[f]]

OwnershipKey(a) == <<a.kind, a.name>>

Start == [classes |-> <<>>, style |-> <<>>, mounts |-> <<>>, kept |-> <<>>, added |-> <<>>,
          owned |-> {}, failed |-> "no"]

Fails(s, code) == [s EXCEPT !.failed = code]

AddClass(s, token) ==
    IF token \in ToSet(s.classes) THEN s ELSE [s EXCEPT !.classes = Append(@, token)]

SetStyle(s, a) == [s EXCEPT !.style = (Head(a.name) :> a.value) @@ @]

AddMount(s, name) ==
    IF name \in ToSet(s.mounts) THEN Fails(s, "duplicate-mount-name")
    ELSE [s EXCEPT !.mounts = Append(@, name)]

Reserve(s, a) == IF a.kind = "mount" THEN s ELSE [s EXCEPT !.owned = @ \cup {OwnershipKey(a)}]

AddBase(s, a) ==
    IF s.failed # "no" THEN s
    ELSE IF a.child THEN [Reserve(s, a) EXCEPT !.kept = Append(@, a)]
    ELSE CASE a.kind = "class" -> AddClass(s, a.name)
           [] a.kind = "style" -> SetStyle(s, a)
           [] a.kind = "mount" -> AddMount(s, a.name)
           [] OTHER -> [Reserve(s, a) EXCEPT !.kept = Append(@, a)]

\* `protected` lists events, attributes by their tag, and style properties.
Protects(protected, a) ==
    CASE a.kind = "style" -> Head(a.name) \in protected.style
      [] a.kind = "event" -> Head(a.name) \in protected.events
      [] a.kind = "attribute" -> Head(a.name) \in protected.attributes
      [] OTHER -> FALSE

Added(s, a) == [Reserve(s, a) EXCEPT !.added = Append(@, a)]

\* Mutant: among mixins the last owner replaces the one before.
ApplyReplacing(s, protected, a) ==
    IF s.failed # "no" THEN s
    ELSE IF a.child THEN Added(s, a)
    ELSE CASE a.kind = "class" -> AddClass(s, a.name)
           [] a.kind = "mount" -> AddMount(s, a.name)
           [] a.kind = "structural" -> Fails(s, "structural-override")
           [] Protects(protected, a) -> Fails(s, "protected")
           [] a.kind = "style" -> SetStyle(s, a)
           [] OTHER -> Added([s EXCEPT !.added = SelectSeq(@, LAMBDA b: OwnershipKey(b) # OwnershipKey(a))], a)

(* A contributed child is reserved and added, and never refused.           *)
ApplyMixinAttribute(s, protected, a) ==
    IF s.failed # "no" THEN s
    ELSE IF a.child THEN Added(s, a)
    ELSE CASE a.kind = "class" -> AddClass(s, a.name)
           [] a.kind = "mount" -> AddMount(s, a.name)
           [] a.kind = "structural" -> Fails(s, "structural-override")
           [] Protects(protected, a) -> Fails(s, "protected")
           [] a.kind = "style" -> SetStyle(s, a)
           [] OTHER -> IF OwnershipKey(a) \in s.owned THEN Fails(s, "conflict") ELSE Added(s, a)

Resolve(base, contributions, protected) ==
    FoldLeft(LAMBDA s, c: FoldLeft(LAMBDA r, a: ApplyMixinAttribute(r, protected, a), s, Flat(c)),
             FoldLeft(AddBase, Start, base), contributions)

\* Several mounts become one, which runs them all.
Emitted(s) == [class |-> s.classes, style |-> s.style, attributes |-> s.kept \o s.added,
               mount |-> s.mounts, failed |-> s.failed]

(***************************************************************************)
(* Capabilities                                                            *)
(***************************************************************************)

Parents(name) == IF name \in DOMAIN registry THEN registry[name] ELSE {}

RECURSIVE Walk(_, _)
Walk(stack, visited) ==
    IF stack \subseteq visited THEN visited
    ELSE Walk(UNION {Parents(n) : n \in stack \ visited}, visited \cup stack)

\* A parent may be named before it is defined; cycles end.
ExtendsCapability(name, base) == name = base \/ base \in Walk(Parents(name), {})

(***************************************************************************)
(* Styles                                                                  *)
(***************************************************************************)

\* The class generated for rules: the same for the same rules.
ClassName(rules) == <<"style">> \o rules

RECURSIVE ActiveRules(_, _)
ActiveRules(style, input) ==
    style.rules \o FlattenSeq([i \in DOMAIN style.conditions |->
        IF style.conditions[i].when = input THEN ActiveRules(style.conditions[i].piece, input) ELSE <<>>])

RECURSIVE HasConditionalRules(_)
HasConditionalRules(style) ==
    \E i \in DOMAIN style.conditions :
        style.conditions[i].piece.rules # <<>> \/ HasConditionalRules(style.conditions[i].piece)

(* The pieces of a style that apply to an input, outermost first: later    *)
(* declarations win.                                                       *)
RECURSIVE ResolveStyle(_, _)
ResolveStyle(style, input) ==
    LET active == SelectSeq(style.conditions, LAMBDA c: c.when = input)
        pieces == [i \in DOMAIN active |-> ResolveStyle(active[i].piece, input)]
    IN  FoldLeft(MergeStatic, [Nothing4 EXCEPT !.classes = style.classes, !.style = style.style], pieces)

Compiled(style) ==
    IF style.rules = <<>> THEN style
    ELSE [style EXCEPT !.classes = Append(@, [kind |-> "class", name |-> ClassName(style.rules), value |-> 0, child |-> FALSE])]

Targetable(slot) == slot \in DOMAIN Slots /\ ~Slots[slot].hidden

StyleAccepted(style) == Targetable(style.slot) /\ ~HasConditionalRules(style)
StyleMixin(style) ==
    [slot |-> style.slot, of |-> [input \in Inputs |-> ResolveStyle(Compiled(style), input)]]

(***************************************************************************)
(* Behaviors and accessibility patterns                                    *)
(***************************************************************************)

Meets(slot, requires) ==
    /\ ExtendsCapability(slot.capability, requires.capability)
    /\ requires.events \subseteq slot.events
    /\ requires.attributes \subseteq slot.attributes

BehaviorAccepted(behavior) ==
    Targetable(behavior.slot) /\ Meets(Slots[behavior.slot], behavior.requires)

\* What A11y.validate has to say of a pattern.
Diagnostics(pattern) ==
    UNION {IF name \notin DOMAIN Slots
           THEN IF pattern[name].optional THEN {} ELSE {<<name, "missing-slot">>}
           ELSE IF Slots[name].hidden THEN {<<name, "hidden-slot">>}
           ELSE {<<name, code>> : code \in
               (IF ExtendsCapability(Slots[name].capability, pattern[name].capability) THEN {} ELSE {"capability-mismatch"})
               \cup {"missing-event" : e \in pattern[name].events \ Slots[name].events}
               \cup {"missing-attribute" : a \in pattern[name].attributes \ Slots[name].attributes}}
           : name \in DOMAIN pattern}

(***************************************************************************)
(* Views                                                                   *)
(***************************************************************************)

Accepted(made) ==
    IF made.by = "style" THEN StyleAccepted(made.definition) ELSE BehaviorAccepted(made.definition)

MixinOf(made) ==
    IF made.by = "style" THEN StyleMixin(made.definition)
    ELSE [slot |-> made.definition.slot, of |-> made.definition.of]

\* The contributions to a slot, evaluated with the view's input.
Contributions(list, slot, input) ==
    LET own == SelectSeq(list, LAMBDA made: made.definition.slot = slot)
    IN  [i \in DOMAIN own |-> MixinOf(own[i]).of[input]]

Compose(contributions) == FoldLeft(MergeStatic, Nothing4, contributions)

Attrs(list, slot, input, base) ==
    Emitted(Resolve(base, Contributions(list, slot, input), Slots[slot].protected))

SlotsInit ==
    /\ registry = ("Base" :> {} @@ "Interactive" :> {"Base"})
    /\ attached = <<>>

\* Defined once; the same definition again is the same capability.
MakeCapability(capability) ==
    /\ capability.name \notin DOMAIN registry
    /\ registry' = (capability.name :> capability.extends) @@ registry
    /\ UNCHANGED attached

Attach(made) ==
    /\ Len(attached) < MaxMixins /\ Accepted(made)
    /\ attached' = Append(attached, made)
    /\ UNCHANGED registry

SlotsNext ==
    \/ \E c \in Capabilities : MakeCapability(c)
    \/ \E d \in Behaviors : Attach([by |-> "behavior", definition |-> d])
    \/ \E d \in Styles : Attach([by |-> "style", definition |-> d])

SlotsSpec == SlotsInit /\ [][SlotsNext]_slotVars

(***************************************************************************)
(* Properties                                                              *)
(***************************************************************************)

ForAllRenders(P(_, _, _)) ==
    \A slot \in DOMAIN Slots, input \in Inputs, base \in Bases : P(slot, input, base)

(* An element that resolves has one owner for every event and attribute a  *)
(* mixin contributes, itself or the view; only children, which are opaque, *)
(* may meet one (resolver.ts; docs/mixins.md: "not a silent second         *)
(* handler").                                                              *)
OneOwnerEach ==
    LET P(slot, input, base) ==
            LET out == Attrs(attached, slot, input, base)
                own == {i \in DOMAIN base : base[i].child
                            \/ base[i].kind \in {"event", "attribute", "structural"}}
            IN  out.failed = "no" =>
                \A i, j \in DOMAIN out.attributes :
                    /\ i < j /\ j > Cardinality(own) /\ ~out.attributes[j].child
                    => OwnershipKey(out.attributes[i]) # OwnershipKey(out.attributes[j])
    IN  ForAllRenders(P)

(* What a slot protects stays as the view wrote it, whatever is attached   *)
(* and in whatever order, and all the view wrote is there (resolver.ts,    *)
(* mixins README "protected").                                             *)
ProtectedStays ==
    LET P(slot, input, base) ==
            LET out == Attrs(attached, slot, input, base)
                alone == Attrs(<<>>, slot, input, base)
                protected == Slots[slot].protected
            IN  out.failed = "no" =>
                /\ IsPrefix(alone.attributes, out.attributes) /\ IsPrefix(alone.class, out.class)
                /\ Restrict(out.style, DOMAIN out.style \cap protected.style)
                     = Restrict(alone.style, DOMAIN alone.style \cap protected.style)
                /\ \A i \in (Len(alone.attributes) + 1)..Len(out.attributes) :
                       out.attributes[i].child \/ ~Protects(protected, out.attributes[i])
    IN  ForAllRenders(P)

(* To attach mixins one after the other and to attach their composition is *)
(* the same element, or the same refusal, as long as classes, declarations *)
(* and mounts are contributed as such and not among the attributes         *)
(* (Mixin.compose, SlotView.attach).                                       *)
ComposedIsAttached ==
    LET P(slot, input, base) ==
            LET given == Contributions(attached, slot, input)
                each  == Attrs(attached, slot, input, base)
                once  == Emitted(Resolve(base, <<Compose(given)>>, Slots[slot].protected))
            IN  (\A c \in ToSet(given) : \A a \in ToSet(c.attributes) : a.kind \notin {"style", "class", "mount"})
                => /\ (each.failed = "no") = (once.failed = "no")
                   /\ each.failed = "no" => each = once
    IN  ForAllRenders(P)

(* The order of attachment decides declarations and the sequence of        *)
(* attributes, never whether the element resolves or what owns an event:   *)
(* a conflict is found from both sides (children aside).                   *)
OrderFindsTheSame ==
    LET P(slot, input, base) ==
            LET out  == Attrs(attached, slot, input, base)
                back == Attrs(Reverse(attached), slot, input, base)
                children == \E c \in ToSet(Contributions(attached, slot, input)) :
                                \E a \in ToSet(c.attributes) : a.child
            IN  ~children => /\ (out.failed = "no") = (back.failed = "no")
                             /\ out.failed = "no" =>
                                  /\ ToSet(out.attributes) = ToSet(back.attributes)
                                  /\ ToSet(out.class) = ToSet(back.class)
                                  /\ DOMAIN out.style = DOMAIN back.style
    IN  ForAllRenders(P)

(* Every rule of an accepted Style that is active for an input is in the   *)
(* class the element gets: rules, whose class is static, are never lost    *)
(* under a condition, at any depth (assertRulesSupported, compileStyle).   *)
ActiveRulesApply ==
    \A i \in DOMAIN attached : attached[i].by = "style" =>
        \A input \in Inputs, base \in Bases :
            LET style == attached[i].definition
                out == Attrs(attached, style.slot, input, base)
            IN  out.failed = "no" /\ ActiveRules(style, input) # <<>> =>
                    ClassName(ActiveRules(style, input)) \in ToSet(out.class)

(* What was accepted stays acceptable as capabilities are defined later:   *)
(* a name keeps its parents, and a slot its capability (Capability.make).  *)
AcceptedStaysAccepted == \A i \in DOMAIN attached : Accepted(attached[i])

(* A contract in which a pattern finds nothing wrong accepts a Behavior    *)
(* that requires of its slots what the pattern does (A11y.validate and     *)
(* Behavior's validateRequirements check the same things).                 *)
PatternsAreAttachable ==
    \A pattern \in Patterns : Diagnostics(pattern) = {} =>
        \A name \in DOMAIN pattern \cap DOMAIN Slots :
            Targetable(name) /\ Meets(Slots[name], pattern[name])
=============================================================================
