------------------------------ MODULE MCViews ------------------------------
(***************************************************************************)
(* Small instances, for TLC, of what a view is made of: the application's  *)
(* Model and who owns it (SurfaceTree, SurfaceModule), the pages of a list *)
(* (RemotePages), the list under mutations and live events (RemoteList),   *)
(* the entities reached through relations (RemoteGraph), what tabs save of *)
(* them (SavedCache), the slots a view publishes (SlotViews), and the      *)
(* tables behind the lists (KeysetReads).                                  *)
(* The part that runs is chosen initially, the others rest.                *)
(***************************************************************************)
EXTENDS ViewParts, TLC

CONSTANTS tab1, tab2, row1, row2, row3, row4, e1, r1, r2, u, t, s

VARIABLES part,
          connection, asked, sent,
          list, changes, request, begun, answered, pages, fetched, segments, overlays,
          pending, applied, cursor, gap, stale, boundary, policy, late,
          db, store, view, shown, layer, read, wanted, retained, changed,
          model, before, step, steps, registry, attached

\* Four rows, paged from both ends by two and by one.
Pages == INSTANCE RemotePages WITH Rows <- <<row1, row2, row3, row4>>, Sizes <- {0, 1, 2}, MaxPageSize <- 2,
            Traversals <- {"forward", "backward"}, Links <- {}, MaxAsked <- 4
\* One edge, two requests that may dispute it with the server.
List == INSTANCE RemoteList WITH Edges <- {e1}, Requests <- {r1, r2}, Policies <- {"visible", "boundary", "invalidate"},
            MaxChanges <- 2, MaxPages <- 1, MaxBegun <- 2

\* Three entities whose relations cross, and views that share them.
NoRelation == [f \in {} |-> None]
Slice(fields, window, rel) == [fields |-> fields, window |-> window, rel |-> rel]
Leaf(fields) == Slice(fields, 0, NoRelation)
Described(name, one, many) == [name |-> name, one |-> one, many |-> many]
Shapes == {u :> Described(1, t, <<t, s>>) @@ t :> Described(2, u, <<s>>) @@ s :> Described(3, None, <<>>),
           u :> Described(1, s, <<t, s>>) @@ t :> Described(2, s, <<u, t, s>>) @@ s :> Described(3, t, <<u, t>>)}
Name == <<u, Slice({"name", "one"}, 0, "one" :> Leaf({"name"}))>>
Tree == <<u, Slice({"one", "many"}, 1, "one" :> Slice({"name", "one"}, 0, "one" :> Leaf({"name"}))
                                         @@ "many" :> Leaf({"name", "one"}))>>
Rest == <<t, Slice({"name", "many"}, 0, NoRelation)>>
\* Its third level asks u for its name and s for all of its `many`, of which the
\* root asked u for the first.
Mixed == <<u, Slice({"one", "many"}, 1, "one" :> Slice({"one"}, 0, "one" :> Leaf({"name"}))
                                          @@ "many" :> Slice({"many"}, 0, "many" :> Leaf({"name", "many"})))>>
Patches == {[id |-> t, vals |-> "name" :> 9], [id |-> u, vals |-> "one" :> s]}

Graph == INSTANCE RemoteGraph WITH Ids <- {u, t, s}, Shapes <- Shapes, Links <- {s}, Views <- {Name, Tree, Rest},
            Patches <- Patches, Denied <- {}, MaxChanges <- 2, MaxShown <- 2, asked <- wanted
Guarded == INSTANCE RemoteGraph WITH Ids <- {u, t, s}, Shapes <- Shapes, Links <- {s}, Views <- {Name, Tree, Rest},
            Patches <- Patches, Denied <- {"one"}, MaxChanges <- 1, MaxShown <- 2, asked <- wanted
Windows == INSTANCE RemoteGraph WITH Ids <- {u, t, s}, Shapes <- Shapes, Links <- {s}, Views <- {Mixed},
            Patches <- {}, Denied <- {}, MaxChanges <- 0, MaxShown <- 1, asked <- wanted

\* A Model with a struct, an array, a record and an Option.
K(name) == [by |-> "key", name |-> name]
UserName == <<K("user"), K("name")>>
UserNick == <<K("user"), K("nick")>>
Items == <<K("items")>>
Item(i) == <<K("items"), [by |-> "index", name |-> i]>>
Note(n) == <<K("notes"), [by |-> "at", name |-> n]>>
User(name, nick) == [name |-> name, nick |-> nick]
All == [op |-> "all"]
Of(parts) == [op |-> "of", of |-> parts]
Select(path, of) == [op |-> "select", path |-> path, of |-> of]
Ref(path) == [op |-> "ref", path |-> path]
Surface == INSTANCE SurfaceTree WITH
    Models <- {[user |-> User("a", "b"), items |-> <<User("a", "a"), User("b", "a")>>, notes |-> "m" :> User("a", "a"), choice |-> <<"a">>],
               [user |-> User("b", "b"), items |-> <<User("b", "b")>>, notes |-> NoRelation, choice |-> <<>>]},
    Refs <- {<<K("user")>>, UserName, UserNick, Items, Item(1), Item(2), <<K("notes")>>, Note("m"), Note("n"), <<K("choice")>>},
    Values <- <<K("user")>> :> {User("b", "a")} @@ UserName :> {"a", "b"} @@ UserNick :> {"a"} @@ Items :> {<<>>}
              @@ Item(1) :> {<<>>, <<User("b", "a")>>} @@ Item(2) :> {<<>>, <<User("a", "b")>>}
              @@ <<K("notes")>> :> {NoRelation} @@ Note("m") :> {<<>>, <<User("b", "b")>>} @@ Note("n") :> {<<User("a", "a")>>}
              @@ <<K("choice")>> :> {<<>>, <<"b">>},
    Projections <- {[op |-> "struct", of |-> [name |-> Ref(UserName), note |-> Select(Note("m"), Of([nick |-> All]))]],
                    Select(<<K("user")>>, Of([name |-> All])),
                    Select(Items, [op |-> "array", of |-> Of([name |-> All])]),
                    Select(Item(2), Of([nick |-> All, name |-> All])),
                    [op |-> "struct", of |-> [choice |-> Ref(<<K("choice")>>), first |-> Select(Item(1), All)]]},
    Picks <- {<<{UserName, Items}>>, <<{<<K("user")>>, <<K("choice")>>}, {<<K("notes")>>}>>, <<{UserNick}, {UserName}>>},
    MaxSteps <- 3

\* Two features that replicate, one of them in two parts that may share a Message,
\* a store and a surface; a contract of another application, one nobody can place.
Msg(tag) == [app |-> "app", tag |-> tag]
Given(id, kind, owner, owns, parts) ==
    [id |-> id, kind |-> kind, name |-> id[1], owner |-> owner, owns |-> owns, observes |-> {<<"todos">>}, parts |-> parts]
MCFeatures ==
  {Given(<<"s", 1>>, "sync", "app", {<<"todos">>}, <<<<Msg("added")>>>>),
   Given(<<"s", 2>>, "sync", "app", {<<"user", "name">>}, <<<<Msg("named")>>>>),
   Given(<<"t", 1>>, "sync", "unknown", {<<"user", "nick">>, <<"user", "name", "first">>}, <<<<Msg("added")>>, <<Msg("named")>>>>),
   Given(<<"t", 2>>, "sync", "app", {<<"user">>}, <<<<Msg("named")>>, <<Msg("named")>>>>),
   Given(<<"r", 1>>, "remote", "app", {<<"user">>}, <<>>),
   Given(<<"r", 2>>, "remote", "other", {<<"user", "nick">>, <<"gone">>}, <<>>),
   Given(<<"v", 1>>, "surface", "app", {}, <<<<Msg("named")>>>>),
   Given(<<"a", 1>>, "agent", "app", {}, <<<<Msg("added"), Msg("named")>>>>)}

\* Two users or none, builds that differ.
MCBuilds == {[version |-> 3, maxBytes |-> 1], [version |-> 3, maxBytes |-> 0], [version |-> 2, maxBytes |-> 1]}

(***************************************************************************)
(* A small contract for SlotViews: a slot "root" that protects a part of   *)
(* what the view gives it, a bare "label" and a hidden "inner"; what may   *)
(* be attached to them, among it what is refused or collides.              *)
(***************************************************************************)

Nothing == [classes |-> <<>>, style |-> <<>>, attributes |-> <<>>, mounts |-> <<>>]
Attr(kind, name, value) == [kind |-> kind, name |-> name, value |-> value, child |-> FALSE]
Child(attr) == [attr EXCEPT !.child = TRUE]
Click(value) == Attr("event", <<"click">>, value)
Role(value) == Attr("attribute", <<"Role">>, value)
Data(key) == Attr("attribute", <<"Attribute", key>>, 1)
Token(name) == Attr("class", <<name>>, 0)
Color(value) == Attr("style", <<"color">>, value)
Position(value) == Attr("style", <<"position">>, value)
Mount(name) == Attr("mount", <<name>>, 0)
Key(value) == Attr("structural", <<"Key">>, value)

Slot(capability, events, hidden, protected) ==
  [capability |-> capability, events |-> events, attributes |-> {"role"}, hidden |-> hidden, protected |-> protected]
RootProtects == [events |-> {"press"}, attributes |-> {"Role"}, style |-> {"position"}]
NoProtection == [events |-> {}, attributes |-> {}, style |-> {}]
MCContract == ("root" :> Slot("Field", {"click"}, FALSE, RootProtects))
              @@ ("label" :> Slot("Base", {}, FALSE, NoProtection))
              @@ ("inner" :> Slot("Interactive", {"click"}, TRUE, NoProtection))

Needs(capability, events) ==
  [capability |-> capability, events |-> events, attributes |-> {}, optional |-> FALSE]
Optional(need) == [need EXCEPT !.optional = TRUE]

MCInputs == {0, 1}
Behavior(slot, needs, of) == [slot |-> slot, requires |-> needs, of |-> of]
Always(contribution) == [input \in MCInputs |-> contribution]
With(attributes) == [Nothing EXCEPT !.attributes = attributes]
MCBehaviors ==
  {Behavior("root", Needs("Interactive", {"click"}), Always(With(<<Click(1), Data("a")>>))),
   Behavior("root", Needs("Focusable", {}), 0 :> With(<<Mount("focus")>>) @@ 1 :> With(<<Click(2)>>)),
   Behavior("root", Needs("Base", {}), Always(With(<<Role(2)>>))),
   Behavior("root", Needs("Base", {}), 0 :> Nothing @@ 1 :> With(<<Key(1)>>)),
   Behavior("root", Needs("Base", {}), Always([With(<<Child(Attr("event", <<"press">>, 3))>>) EXCEPT !.mounts = <<Mount("observe")>>])),
   Behavior("label", Needs("Interactive", {}), Always(With(<<Click(3)>>))),
   Behavior("label", Needs("Base", {}), Always(With(<<Role(3), Color(3)>>))),
   Behavior("inner", Needs("Base", {}), Always(With(<<Click(4)>>)))}

Piece(classes, style, rules, conditions) ==
  [classes |-> classes, style |-> style, rules |-> rules, conditions |-> conditions]
When(input, piece) == [when |-> input, piece |-> piece]
Hover == Piece(<<>>, <<>>, <<"hover">>, <<>>)
Style(slot, piece) == [slot |-> slot, attributes |-> <<>>, mounts |-> <<>>] @@ piece
MCStyles ==
  {Style("root", Piece(<<Token("a"), Token("b")>>, <<Color(1)>>, <<"hover">>, <<When(1, Piece(<<Token("c")>>, <<Color(2)>>, <<>>, <<>>))>>)),
   Style("root", Piece(<<Token("a")>>, <<Color(3)>>, <<>>, <<When(0, Piece(<<>>, <<>>, <<>>, <<When(0, Hover)>>))>>)),
   Style("root", Piece(<<>>, <<>>, <<>>, <<When(1, Piece(<<>>, <<Position(9)>>, <<>>, <<>>))>>)),
   Style("label", Piece(<<Token("b")>>, <<Color(4)>>, <<"media">>, <<When(0, Hover)>>)),
   Style("label", Piece(<<Token("b")>>, <<Color(5)>>, <<"media", "hover">>, <<>>)),
   Style("label", Piece(<<Token("a")>>, <<Color(6)>>, <<>>, <<When(1, Piece(<<>>, <<Color(7)>>, <<>>, <<>>))>>))}

MCBases == {<<>>, <<Token("b"), Color(0), Position(0), Role(0)>>, <<Child(Click(0)), Mount("observe")>>,
            <<Key(0), Data("a"), Data("b")>>}
MCPatterns == {("root" :> Needs("Interactive", {"click"})) @@ ("hint" :> Optional(Needs("Base", {}))),
               ("label" :> Needs("Base", {})) @@ ("inner" :> Optional(Needs("Base", {}))),
               ("root" :> Needs("TextInput", {})), "label" :> Needs("Interactive", {"click"})}
\* One name twice with other parents, a cycle, a parent that may never come.
MCCapabilities == {[name |-> "Focusable", extends |-> {"Interactive"}], [name |-> "Field", extends |-> {"Focusable", "Loop"}],
                   [name |-> "Field", extends |-> {"Base"}], [name |-> "Loop", extends |-> {"Field"}]}

Slots == INSTANCE SlotViews WITH Capabilities <- MCCapabilities, Slots <- MCContract, Inputs <- MCInputs,
    Bases <- MCBases, Behaviors <- MCBehaviors, Styles <- MCStyles, Patterns <- MCPatterns, MaxMixins <- 3

\* Ties and Nulls in three tables, rows of two parents, one hidden or deleted.
Row(rank, parent) == [rank |-> rank, parent |-> parent, gone |-> FALSE, mine |-> TRUE]
Hidden(row) == [row EXCEPT !.mine = FALSE]
Gone(row) == [row EXCEPT !.gone = TRUE]
Write(id, row) == [id |-> id, row |-> row]
By(column, direction) == [column |-> column, direction |-> direction]
MCTables ==
  {<<Row(1, "p"), Row(None, "p"), Row(1, "q"), Row(None, "p")>>, <<Row(2, "q"), Row(2, "p"), Row(None, "p"), Absent>>,
   <<Row(2, "p"), Hidden(Row(1, "p")), Gone(Row(1, "q")), Row(1, "p")>>}
MCEdits == {Write(1, Absent), Write(2, Row(None, "p")), Write(3, Row(0, "p")), Write(4, Row(2, "q")), Write(4, Gone(Row(1, "p")))}
\* The last has no tie-breaker: a relation adds one, a query has to be given one.
MCOrders == {<<By("rank", "asc"), By("id", "asc")>>, <<By("rank", "desc"), By("id", "desc")>>,
             <<By("rank", "desc"), By("id", "asc")>>, <<By("id", "desc")>>, <<By("rank", "desc")>>}

treeVars == <<model, before, step, steps>>
pagesVars == <<connection, asked, sent>>
listVars == <<list, changes, request, begun, answered, pages, fetched, segments, overlays,
              pending, applied, cursor, gap, stale, boundary, policy, late>>
savedVars == <<server, tabs, kv, reloads>>
slotVars == <<registry, attached>>
keysetVars == <<table, reading>>
graphVars == <<db, store, view, shown, layer, read, wanted, retained, changed>>

ViewsInit(parts) ==
  /\ part \in parts
  /\ Pages!Init
  /\ List!Init /\ (part # "list" => list = <<>> /\ policy = "visible")
  /\ Surface!TreeInit /\ (part # "tree" => model.choice = <<>>)
  /\ Module!ModuleInit
  /\ Saved!SavedInit /\ (part # "saved" => tabs = [tab \in {tab1, tab2} |-> Saved!Opened("none", [version |-> 3, maxBytes |-> 1])])
  /\ Slots!SlotsInit
  /\ Keyset!KeysetInit /\ (part # "keyset" => table[4] = Absent /\ reading = Keyset!Reading("query", <<By("id", "desc")>>, "forward", 1, {"all"}))
  /\ IF part = "windows" THEN Windows!Init
     ELSE Graph!Init /\ (part \notin {"graph", "guarded"} => view = Name /\ db[u].one = t)

PageSteps  == part = "pages" /\ Pages!Next /\ UNCHANGED <<part, listVars, graphVars, treeVars, contracts, savedVars, slotVars, keysetVars>>
\* The requests of a list are alike: r1 is the first that is sent, and the only
\* one where the policy counts nothing (it is then "boundary" but for the count).
ListSteps  == /\ part = "list" /\ List!Next
              /\ request[r1].at = "idle" \/ policy = "invalidate" => request'[r2].at = "idle"
              /\ UNCHANGED <<part, pagesVars, graphVars, treeVars, contracts, savedVars, slotVars, keysetVars>>
GraphSteps == /\ \/ part = "graph" /\ Graph!Next
                 \/ part = "guarded" /\ Guarded!Next
                 \/ part = "windows" /\ Windows!Next
              /\ UNCHANGED <<part, pagesVars, listVars, treeVars, contracts, savedVars, slotVars, keysetVars>>
TreeSteps  == part = "tree" /\ Surface!TreeNext /\ UNCHANGED <<part, pagesVars, listVars, graphVars, contracts, savedVars, slotVars, keysetVars>>
ModuleSteps == part = "module" /\ Module!ModuleNext /\ UNCHANGED <<part, pagesVars, listVars, graphVars, treeVars, savedVars, slotVars, keysetVars>>
\* The tabs are alike when they open: tab1 is the one that reloads.
SavedSteps == /\ part = "saved" /\ Saved!SavedNext
              /\ reloads' # reloads => UNCHANGED tabs[tab2]
              /\ UNCHANGED <<part, pagesVars, listVars, graphVars, treeVars, contracts, slotVars, keysetVars>>
SlotSteps  == part = "slots" /\ Slots!SlotsNext /\ UNCHANGED <<part, pagesVars, listVars, graphVars, treeVars, contracts, savedVars, keysetVars>>
KeysetSteps == part = "keyset" /\ Keyset!KeysetNext /\ UNCHANGED <<part, pagesVars, listVars, graphVars, treeVars, contracts, savedVars, slotVars>>

ViewsNext == PageSteps \/ ListSteps \/ GraphSteps \/ TreeSteps \/ ModuleSteps \/ SavedSteps \/ SlotSteps \/ KeysetSteps

viewsVars == <<part, pagesVars, listVars, graphVars, treeVars, contracts, savedVars, slotVars, keysetVars>>

\* The runtime re-evaluates dependencies, a server answers, its answer arrives.
ViewsSpec ==
  /\ ViewsInit({"pages", "list", "graph", "guarded", "tree", "module", "saved", "slots", "keyset"}) /\ [][ViewsNext]_viewsVars
  /\ WF_graphVars(part = "graph" /\ Graph!Observe)
  /\ WF_graphVars(part = "graph" /\ Graph!ServerReads)
  /\ WF_graphVars(part = "graph" /\ Graph!Answer)

WindowsSpec == ViewsInit({"windows"}) /\ [][ViewsNext]_viewsVars

\* The properties of the parts; their conjuncts are stated and explained in
\* the modules of the parts.

\* RemotePages: pages in any order and of any size, from both ends, join
\* without skipping a row or losing one that was asked, end where the list
\* ends, and all together are the list.
PagesAreTheList == part = "pages" =>
  Pages!NoRowIsSkipped /\ Pages!BoundariesAreTrue /\ Pages!NothingAskedIsLost /\ Pages!AllPagesAreTheList
\* RemoteList: a client that heard everything shows the server's list, each
\* edge once; what a policy hides is told; a failed request leaves nothing and
\* no page brings back what a pending one removes.
ListIsTrue ==
  /\ [](part = "list" => /\ List!ListTypeOK /\ List!ListConverges /\ List!UnseenIsTold
                         /\ List!NoEdgeIsShownTwice /\ List!FailedLeavesNothing)
  /\ [][part = "list" => List!PendingRemovalStep]_listVars
\* RemoteGraph: a page is stored under the window it was read with.
WindowIsTheOneRead == part \in {"graph", "windows"} => Graph!WindowIsTheOneRead
\* RemoteGraph: what is denied is not read, what was read is not planned
\* again, collection takes nothing from the view, and the view is whole in
\* the end.
GraphIsTrue ==
  /\ [](/\ part = "guarded" => Guarded!NothingDeniedIsRead /\ Guarded!NoReadIsInVain
        /\ part = "graph" => Graph!GraphTypeOK /\ Graph!NoReadIsInVain /\ Graph!CollectionIsUnseen
        /\ WindowIsTheOneRead)
  /\ part = "graph" => Graph!ViewIsLoaded
\* SurfaceTree: what is written at a reference is read there and changes
\* nothing beside it, and a projection that changed had declared it could.
TreeIsTrue == part = "tree" => Surface!WrittenIsRead /\ Surface!WritesAreLocal /\ Surface!DependenciesAreTrue
\* SlotViews: every event and attribute has one owner whatever the order of
\* mixins, protected ones stay, a composition is its mixins in turn, and what
\* was accepted stays acceptable with all its rules.
SlotsAreOwned == part = "slots" =>
  /\ Slots!OneOwnerEach /\ Slots!ProtectedStays /\ Slots!ComposedIsAttached /\ Slots!OrderFindsTheSame
  /\ Slots!ActiveRulesApply /\ Slots!AcceptedStaysAccepted /\ Slots!PatternsAreAttachable
=============================================================================
