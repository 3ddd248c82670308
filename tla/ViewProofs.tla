----------------------------- MODULE ViewProofs -----------------------------
(***************************************************************************)
(* Theorems about what a view is made of, each for every value of its      *)
(* constants: SavedCache, SurfaceModule, KeysetReads.                      *)
(***************************************************************************)
EXTENDS ViewParts, SequenceTheorems, FunctionTheorems, FiniteSetTheorems, NaturalsInduction, WellFoundedInduction, TLAPS

(***************************************************************************)
(* SavedCache.  Whatever holds entities (a tab's store, what a restore     *)
(* brought, the text under the key) holds those of one scope, none newer   *)
(* than the server.                                                        *)
(***************************************************************************)

CacheEntry == [scope : Scope, at : Nat, stale : BOOLEAN]

\* A store of that scope, as of the server's versions now.
Own(store, scope, now) ==
  /\ store = [e \in DOMAIN store |-> store[e]] /\ DOMAIN store \subseteq Entity
  /\ \A e \in DOMAIN store : store[e] \in CacheEntry /\ store[e].scope = scope /\ store[e].at <= now[e]

LEMMA OwnLater ==
  ASSUME NEW store, NEW scope, NEW now \in [Entity -> Nat], NEW later \in [Entity -> Nat], \A e \in Entity : now[e] <= later[e],
         Own(store, scope, now)
  PROVE  Own(store, scope, later)
<1> SUFFICES ASSUME NEW e \in DOMAIN store PROVE store[e].at <= later[e]
  BY DEF Own
<1>1. e \in Entity /\ store[e].at \in Nat /\ store[e].at <= now[e]
  BY DEF Own, CacheEntry
<1>2. now[e] \in Nat /\ later[e] \in Nat /\ now[e] <= later[e]
  BY <1>1
<1> QED BY <1>1, <1>2

LEMMA OwnOver ==
  ASSUME NEW f, NEW g, NEW scope, NEW now, Own(f, scope, now), Own(g, scope, now)
  PROVE  /\ Own(Saved!Over(f, g), scope, now) /\ DOMAIN Saved!Over(f, g) = DOMAIN f \cup DOMAIN g
         /\ \A e \in DOMAIN f : Saved!Over(f, g)[e] = f[e]
         /\ \A e \in DOMAIN g \ DOMAIN f : Saved!Over(f, g)[e] = g[e]
<1> DEFINE h == Saved!Over(f, g)
<1>1. h = [e \in DOMAIN f \cup DOMAIN g |-> IF e \in DOMAIN f THEN f[e] ELSE g[e]]
  BY DEF Saved!Over
<1>2. /\ DOMAIN h = DOMAIN f \cup DOMAIN g
      /\ \A e \in DOMAIN f \cup DOMAIN g : h[e] = IF e \in DOMAIN f THEN f[e] ELSE g[e]
  BY <1>1
<1>3. h = [e \in DOMAIN h |-> h[e]]
  BY <1>1, <1>2
<1> HIDE DEF h
<1>4. \A e \in DOMAIN h : h[e] \in CacheEntry /\ h[e].scope = scope /\ h[e].at <= now[e]
  BY <1>2 DEF Own
<1>5. Own(h, scope, now)
  BY <1>2, <1>3, <1>4 DEF Own
<1> QED BY <1>2, <1>5 DEF h

LEMMA OwnEmpty == ASSUME NEW scope, NEW now PROVE Own(Saved!EmptyStore, scope, now) /\ DOMAIN Saved!EmptyStore = {}
BY DEF Own, Saved!EmptyStore

LEMMA OwnRead ==
  ASSUME NEW e \in Entity, NEW scope \in Scope, NEW now \in [Entity -> Nat]
  PROVE  LET f == [x \in {e} |-> [scope |-> scope, at |-> now[e], stale |-> FALSE]]
         IN  Own(f, scope, now) /\ DOMAIN f = {e} /\ f[e].at = now[e]
<1> DEFINE r == [scope |-> scope, at |-> now[e], stale |-> FALSE]
           f == [x \in {e} |-> r]
<1>1. r \in CacheEntry /\ r.scope = scope /\ r.at = now[e] /\ now[e] \in Nat
  BY DEF CacheEntry
<1> HIDE DEF r
<1>2. f = [x \in DOMAIN f |-> f[x]] /\ DOMAIN f = {e} /\ f[e] = r
  OBVIOUS
<1> HIDE DEF f
<1>3. Own(f, scope, now)
  BY <1>1, <1>2 DEF Own
<1> QED BY <1>1, <1>2, <1>3 DEF f, r

LEMMA OwnStale ==
  ASSUME NEW f, NEW scope, NEW now, Own(f, scope, now), NEW e \in DOMAIN f
  PROVE  LET g == [f EXCEPT ![e].stale = TRUE]
         IN  Own(g, scope, now) /\ DOMAIN g = DOMAIN f /\ \A x \in DOMAIN f : g[x].at = f[x].at
<1> DEFINE r == [f[e] EXCEPT !.stale = TRUE]
           g == [f EXCEPT ![e] = r]
<1>1. f[e] \in CacheEntry /\ f[e].scope = scope /\ f[e].at <= now[e]
  BY DEF Own
<1>2. ASSUME NEW c, c \in CacheEntry, NEW d, d = [c EXCEPT !.stale = TRUE]
      PROVE  d \in CacheEntry /\ d.scope = c.scope /\ d.at = c.at
  <2>1. DOMAIN c = {"scope", "at", "stale"} /\ c.scope \in Scope /\ c.at \in Nat
    BY <1>2 DEF CacheEntry
  <2>2. DOMAIN d = {"scope", "at", "stale"} /\ d.scope = c.scope /\ d.at = c.at /\ d.stale = TRUE
    BY <1>2, <2>1
  <2>3. d = [scope |-> c.scope, at |-> c.at, stale |-> TRUE]
    BY <1>2, <2>1, <2>2
  <2> QED BY <2>1, <2>2, <2>3 DEF CacheEntry
<1>3. r \in CacheEntry /\ r.scope = scope /\ r.at = f[e].at
  BY <1>1, <1>2
<1> HIDE DEF r
<1>4. f = [x \in DOMAIN f |-> f[x]]
  BY DEF Own
<1>5. g = [x \in DOMAIN g |-> g[x]] /\ DOMAIN g = DOMAIN f /\ \A x \in DOMAIN f : g[x] = IF x = e THEN r ELSE f[x]
  BY <1>4
<1> HIDE DEF g
<1>6. \A x \in DOMAIN f : g[x] \in CacheEntry /\ g[x].scope = scope /\ g[x].at = f[x].at /\ g[x].at <= now[x]
  BY <1>1, <1>3, <1>5 DEF Own
<1>7. Own(g, scope, now)
  BY <1>5, <1>6 DEF Own
<1> QED BY <1>5, <1>6, <1>7 DEF g, r

(***************************************************************************)
(* The invariant: a tab's store and what its restore brought are its       *)
(* user's, and the text under the key is its scope's.                      *)
(***************************************************************************)

OwnTab(tab, now) ==
  /\ tab.scope \in Scope /\ DOMAIN tab = {"scope", "build", "store", "restore"}
  /\ Own(tab.store, tab.scope, now)
  /\ tab.restore # Absent => DOMAIN tab.restore = {"done", "entities"} /\ Own(tab.restore.entities, tab.scope, now)

OwnText(text, now) == text \notin {Absent, Saved!Malformed} => Own(text.entities, text.scope, now)

SavedInv ==
  /\ server \in [Entity -> Nat] /\ reloads \in Nat /\ tabs = [t \in Tab |-> tabs[t]]
  /\ \A t \in Tab : OwnTab(tabs[t], server)
  /\ OwnText(kv, server)

LEMMA SavedInitially == Saved!SavedInit => SavedInv
<1> SUFFICES ASSUME Saved!SavedInit PROVE SavedInv
  OBVIOUS
<1>1. PICK s \in Scope, b \in Build : tabs = [t \in Tab |-> Saved!Opened(s, b)]
  BY DEF Saved!SavedInit
<1>2. OwnTab(Saved!Opened(s, b), server)
  BY OwnEmpty DEF OwnTab, Saved!Opened
<1>3. \A t \in Tab : OwnTab(tabs[t], server)
  BY <1>1, <1>2
<1>4. server \in [Entity -> Nat] /\ reloads \in Nat /\ OwnText(kv, server) /\ tabs = [t \in Tab |-> tabs[t]]
  BY <1>1 DEF Saved!SavedInit, OwnText
<1> QED BY <1>3, <1>4 DEF SavedInv

\* An entry that was held is held, no older, and as it was if a restore ended.
Kept(old, new) ==
  \A e \in DOMAIN old.store :
    /\ e \in DOMAIN new.store /\ new.store[e].at >= old.store[e].at
    /\ old.restore # new.restore => new.store[e] = old.store[e]

\* A step of one tab under the same servers.
LEMMA OneTab ==
  ASSUME SavedInv, NEW t \in Tab, NEW tab, OwnTab(tab, server), tabs' = [tabs EXCEPT ![t] = tab], server' = server,
         OwnText(kv', server), reloads' \in Nat, Policy = "preserve-existing" /\ reloads' = reloads => Kept(tabs[t], tab)
  PROVE  SavedInv' /\ Saved!KeepsItsNewestStep
<1>1. tabs = [u \in Tab |-> tabs[u]] /\ \A u \in Tab : OwnTab(tabs[u], server)
  BY DEF SavedInv
<1>2. tabs' = [u \in Tab |-> tabs'[u]] /\ \A u \in Tab : tabs'[u] = IF u = t THEN tab ELSE tabs[u]
  BY <1>1
<1>3. SavedInv'
  BY <1>1, <1>2 DEF SavedInv
<1>4. ASSUME NEW u \in Tab, Policy = "preserve-existing", reloads' = reloads PROVE Kept(tabs[u], tabs'[u])
  <2>1. CASE u = t
    BY <1>2, <1>4, <2>1
  <2>2. CASE u # t
    <3>1. tabs'[u] = tabs[u] /\ \A e \in DOMAIN tabs[u].store : tabs[u].store[e].at \in Nat
      BY <1>1, <1>2, <2>2 DEF OwnTab, Own, CacheEntry
    <3> QED BY <3>1 DEF Kept
  <2> QED BY <2>1, <2>2
<1>5. Saved!KeepsItsNewestStep
  <2> SUFFICES ASSUME Policy = "preserve-existing", NEW u \in Tab, reloads' = reloads, NEW e \in DOMAIN tabs[u].store
               PROVE  /\ e \in DOMAIN tabs'[u].store /\ tabs'[u].store[e].at >= tabs[u].store[e].at
                      /\ tabs[u].restore # tabs'[u].restore => tabs'[u].store[e] = tabs[u].store[e]
    BY DEF Saved!KeepsItsNewestStep
  <2>1. Kept(tabs[u], tabs'[u])
    BY <1>4
  <2> QED BY <2>1 DEF Kept
<1> QED BY <1>3, <1>5

\* A step that changes no tab.
LEMMA NoTab ==
  ASSUME SavedInv, tabs' = tabs, server' \in [Entity -> Nat], \A e \in Entity : server[e] <= server'[e],
         OwnText(kv', server) \/ kv' = kv, reloads' \in Nat
  PROVE  SavedInv' /\ Saved!KeepsItsNewestStep
<1>1. \A t \in Tab : OwnTab(tabs[t], server')
  BY OwnLater DEF SavedInv, OwnTab
<1>2. OwnText(kv', server')
  BY OwnLater DEF SavedInv, OwnText
<1>3. \A t \in Tab : \A e \in DOMAIN tabs[t].store : tabs[t].store[e].at \in Nat
  BY DEF SavedInv, OwnTab, Own, CacheEntry
<1> QED BY <1>1, <1>2, <1>3 DEF SavedInv, Saved!KeepsItsNewestStep

LEMMA SavedStep == SavedInv /\ [Saved!SavedNext]_(Saved!cacheVars) => SavedInv' /\ [Saved!KeepsItsNewestStep]_(Saved!cacheVars)
<1> SUFFICES ASSUME SavedInv, [Saved!SavedNext]_(Saved!cacheVars) PROVE SavedInv' /\ Saved!KeepsItsNewestStep
  OBVIOUS
<1>0. /\ server \in [Entity -> Nat] /\ reloads \in Nat /\ \A t \in Tab : OwnTab(tabs[t], server)
      /\ OwnText(kv, server) /\ tabs = [t \in Tab |-> tabs[t]]
      /\ \A e \in Entity : server[e] <= server[e]
      /\ \A t \in Tab : \A e \in DOMAIN tabs[t].store : tabs[t].store[e].at \in Nat
  <2>1. /\ server \in [Entity -> Nat] /\ reloads \in Nat /\ \A t \in Tab : OwnTab(tabs[t], server)
        /\ OwnText(kv, server) /\ tabs = [t \in Tab |-> tabs[t]]
    BY DEF SavedInv
  <2>2. \A t \in Tab : \A e \in DOMAIN tabs[t].store : tabs[t].store[e].at \in Nat
    BY <2>1 DEF OwnTab, Own, CacheEntry
  <2>3. \A e \in Entity : server[e] <= server[e]
    BY <2>1
  <2> QED BY <2>1, <2>2, <2>3
<1>1. ASSUME NEW t \in Tab, NEW e \in Entity, Saved!Read(t, e) PROVE SavedInv' /\ Saved!KeepsItsNewestStep
  <2> DEFINE f == [x \in {e} |-> [scope |-> tabs[t].scope, at |-> server[e], stale |-> FALSE]]
             g == Saved!Over(f, tabs[t].store)
             tab == [tabs[t] EXCEPT !.store = g]
  <2>1. tabs' = [tabs EXCEPT ![t] = tab] /\ server' = server /\ kv' = kv /\ reloads' = reloads
    BY <1>1 DEF Saved!Read
  <2>2. OwnTab(tabs[t], server)
    BY <1>0
  <2>3. Own(f, tabs[t].scope, server) /\ DOMAIN f = {e} /\ f[e].at = server[e]
    BY <1>0, <2>2, OwnRead DEF OwnTab
  <2> HIDE DEF f
  <2>4. /\ Own(g, tabs[t].scope, server) /\ DOMAIN g = {e} \cup DOMAIN tabs[t].store /\ g[e].at = server[e]
        /\ \A x \in DOMAIN tabs[t].store \ {e} : g[x] = tabs[t].store[x]
    <3>1. Own(tabs[t].store, tabs[t].scope, server)
      BY <2>2 DEF OwnTab
    <3>2. /\ Own(g, tabs[t].scope, server) /\ DOMAIN g = DOMAIN f \cup DOMAIN tabs[t].store
          /\ \A x \in DOMAIN f : g[x] = f[x]
          /\ \A x \in DOMAIN tabs[t].store \ DOMAIN f : g[x] = tabs[t].store[x]
      BY <2>3, <3>1, OwnOver
    <3> HIDE DEF g
    <3> QED BY <2>3, <3>2
  <2> HIDE DEF g
  <2>5. tab.store = g /\ tab.scope = tabs[t].scope /\ tab.restore = tabs[t].restore /\ DOMAIN tab = DOMAIN tabs[t]
    BY <2>2 DEF OwnTab
  <2> HIDE DEF tab
  <2>6. OwnTab(tab, server)
    BY <2>2, <2>4, <2>5 DEF OwnTab
  <2>7. \A x \in DOMAIN tabs[t].store : tabs[t].store[x].at <= server[x]
    BY <2>2 DEF OwnTab, Own
  <2>8. Kept(tabs[t], tab)
    BY <1>0, <2>4, <2>5, <2>7 DEF Kept
  <2> QED BY <1>0, <2>1, <2>6, <2>8, OneTab
<1>2. ASSUME NEW t \in Tab, NEW e \in Entity, Saved!Invalidate(t, e) PROVE SavedInv' /\ Saved!KeepsItsNewestStep
  <2> DEFINE g == [tabs[t].store EXCEPT ![e].stale = TRUE]
             tab == [tabs[t] EXCEPT !.store = g]
  <2>1. tabs' = [tabs EXCEPT ![t] = tab] /\ server' = server /\ kv' = kv /\ reloads' = reloads /\ e \in DOMAIN tabs[t].store
    BY <1>2 DEF Saved!Invalidate
  <2>2. OwnTab(tabs[t], server)
    BY <1>0
  <2>3. /\ Own(g, tabs[t].scope, server) /\ DOMAIN g = DOMAIN tabs[t].store
        /\ \A x \in DOMAIN tabs[t].store : g[x].at = tabs[t].store[x].at
    BY <2>1, <2>2, OwnStale DEF OwnTab
  <2> HIDE DEF g
  <2>4. tab.store = g /\ tab.scope = tabs[t].scope /\ tab.restore = tabs[t].restore /\ DOMAIN tab = DOMAIN tabs[t]
    BY <2>2 DEF OwnTab
  <2> HIDE DEF tab
  <2>5. OwnTab(tab, server)
    BY <2>2, <2>3, <2>4 DEF OwnTab
  <2>6. Kept(tabs[t], tab)
    BY <1>0, <2>3, <2>4 DEF Kept
  <2> QED BY <1>0, <2>1, <2>5, <2>6, OneTab
<1>3. ASSUME NEW e \in Entity, Saved!ServerChanges(e) PROVE SavedInv' /\ Saved!KeepsItsNewestStep
  <2>1. server' \in [Entity -> Nat] /\ (\A x \in Entity : server[x] <= server'[x]) /\ tabs' = tabs /\ kv' = kv /\ reloads' = reloads
    BY <1>0, <1>3 DEF Saved!ServerChanges
  <2> QED BY <1>0, <2>1, NoTab
<1>4. ASSUME NEW t \in Tab, Saved!Save(t) PROVE SavedInv' /\ Saved!KeepsItsNewestStep
  <2>1. /\ server' = server /\ tabs' = tabs /\ reloads' = reloads
        /\ kv' = Absent \/ (kv'.entities = tabs[t].store /\ kv'.scope = tabs[t].scope)
    BY <1>4 DEF Saved!Save, Saved!SerializeStore
  <2>2. OwnText(kv', server)
    BY <1>0, <2>1 DEF OwnText, OwnTab
  <2> QED BY <1>0, <2>1, <2>2, NoTab
<1>5. ASSUME NEW t \in Tab, Saved!Restore(t) PROVE SavedInv' /\ Saved!KeepsItsNewestStep
  <2> DEFINE restore == IF kv = Absent THEN [done |-> TRUE, entities |-> Saved!EmptyStore]
                        ELSE IF Saved!Hydrates(kv, tabs[t]) THEN [done |-> TRUE, entities |-> kv.entities]
                        ELSE [done |-> FALSE, entities |-> Saved!EmptyStore]
             tab == [tabs[t] EXCEPT !.restore = restore]
  <2>1. tabs' = [tabs EXCEPT ![t] = tab] /\ server' = server /\ kv' = kv /\ reloads' = reloads
    BY <1>5 DEF Saved!Restore
  <2>2. OwnTab(tabs[t], server)
    BY <1>0
  <2>3. DOMAIN restore = {"done", "entities"} /\ Own(restore.entities, tabs[t].scope, server)
    <3>1. CASE kv = Absent \/ ~Saved!Hydrates(kv, tabs[t])
      BY <3>1, OwnEmpty
    <3>2. CASE kv # Absent /\ Saved!Hydrates(kv, tabs[t])
      <4>1. kv # Saved!Malformed /\ kv.scope = tabs[t].scope
        BY <3>2 DEF Saved!Hydrates
      <4> QED BY <1>0, <3>2, <4>1 DEF OwnText
    <3> QED BY <3>1, <3>2
  <2> HIDE DEF restore
  <2>4. tab.store = tabs[t].store /\ tab.scope = tabs[t].scope /\ tab.restore = restore /\ DOMAIN tab = DOMAIN tabs[t]
    BY <2>2 DEF OwnTab
  <2> HIDE DEF tab
  <2>5. OwnTab(tab, server)
    BY <2>2, <2>3, <2>4 DEF OwnTab
  <2>6. Kept(tabs[t], tab)
    BY <1>0, <2>4 DEF Kept
  <2> QED BY <1>0, <2>1, <2>5, <2>6, OneTab
<1>6. ASSUME NEW t \in Tab, Saved!RemoveRefused(t) PROVE SavedInv' /\ Saved!KeepsItsNewestStep
  <2> DEFINE restore == [tabs[t].restore EXCEPT !.done = TRUE]
             tab == [tabs[t] EXCEPT !.restore = restore]
  <2>1. /\ tabs' = [tabs EXCEPT ![t] = tab] /\ server' = server /\ kv' = Absent /\ reloads' = reloads
        /\ tabs[t].restore # Absent
    BY <1>6 DEF Saved!RemoveRefused
  <2>2. OwnTab(tabs[t], server)
    BY <1>0
  <2>3. DOMAIN restore = {"done", "entities"} /\ restore.entities = tabs[t].restore.entities
    BY <2>1, <2>2 DEF OwnTab
  <2> HIDE DEF restore
  <2>4. tab.store = tabs[t].store /\ tab.scope = tabs[t].scope /\ tab.restore = restore /\ DOMAIN tab = DOMAIN tabs[t]
    BY <2>2 DEF OwnTab
  <2> HIDE DEF tab
  <2>5. OwnTab(tab, server)
    BY <2>1, <2>2, <2>3, <2>4 DEF OwnTab
  <2>6. Kept(tabs[t], tab) /\ OwnText(kv', server)
    BY <1>0, <2>1, <2>4 DEF Kept, OwnText
  <2> QED BY <1>0, <2>1, <2>5, <2>6, OneTab
<1>7. ASSUME NEW t \in Tab, Saved!Hydrated(t) PROVE SavedInv' /\ Saved!KeepsItsNewestStep
  <2> DEFINE f == tabs[t].store
             g == tabs[t].restore.entities
             h == Saved!MergeStores(f, g)
             tab == [tabs[t] EXCEPT !.restore = Absent, !.store = h]
  <2>1. tabs' = [tabs EXCEPT ![t] = tab] /\ server' = server /\ kv' = kv /\ reloads' = reloads /\ tabs[t].restore # Absent
    BY <1>7 DEF Saved!Hydrated
  <2>2. OwnTab(tabs[t], server)
    BY <1>0
  <2>3. Own(f, tabs[t].scope, server) /\ Own(g, tabs[t].scope, server)
    BY <2>1, <2>2 DEF OwnTab
  <2>4. Own(h, tabs[t].scope, server)
    <3>1. Own(Saved!Over(f, g), tabs[t].scope, server) /\ Own(Saved!Over(g, f), tabs[t].scope, server)
      BY <2>3, OwnOver
    <3>2. h = Saved!Over(f, g) \/ h = Saved!Over(g, f)
      BY DEF Saved!MergeStores
    <3> QED BY <3>1, <3>2
  <2>5. Policy = "preserve-existing" => DOMAIN f \subseteq DOMAIN h /\ \A e \in DOMAIN f : h[e] = f[e]
    <3>1. DOMAIN Saved!Over(f, g) = DOMAIN f \cup DOMAIN g /\ \A e \in DOMAIN f : Saved!Over(f, g)[e] = f[e]
      BY DEF Saved!Over
    <3>2. Policy = "preserve-existing" => h = Saved!Over(f, g)
      BY DEF Saved!MergeStores
    <3> HIDE DEF h, f, g
    <3> QED BY <3>1, <3>2
  <2> HIDE DEF h
  <2>6. tab.store = h /\ tab.scope = tabs[t].scope /\ tab.restore = Absent /\ DOMAIN tab = DOMAIN tabs[t]
    BY <2>2 DEF OwnTab
  <2> HIDE DEF tab
  <2>7. OwnTab(tab, server)
    BY <2>2, <2>4, <2>6 DEF OwnTab
  <2>8. Policy = "preserve-existing" => Kept(tabs[t], tab)
    BY <1>0, <2>5, <2>6 DEF Kept
  <2> QED BY <1>0, <2>1, <2>7, <2>8, OneTab
<1>8. ASSUME NEW t \in Tab, Saved!Reload(t) PROVE SavedInv' /\ Saved!KeepsItsNewestStep
  <2>1. PICK s \in Scope, b \in Build : tabs' = [tabs EXCEPT ![t] = Saved!Opened(s, b)]
    BY <1>8 DEF Saved!Reload
  <2>2. server' = server /\ kv' = kv /\ reloads' \in Nat /\ reloads' # reloads
    BY <1>0, <1>8 DEF Saved!Reload
  <2>3. OwnTab(Saved!Opened(s, b), server)
    BY OwnEmpty DEF OwnTab, Saved!Opened
  <2> QED BY <1>0, <2>1, <2>2, <2>3, OneTab
<1>9. CASE Saved!Corrupt
  <2>1. tabs' = tabs /\ server' = server /\ reloads' \in Nat /\ OwnText(kv', server)
    BY <1>0, <1>9 DEF Saved!Corrupt, OwnText
  <2> QED BY <1>0, <2>1, NoTab
<1>10. CASE UNCHANGED Saved!cacheVars
  BY <1>0, <1>10, NoTab DEF Saved!cacheVars
<1> QED BY <1>1, <1>2, <1>3, <1>4, <1>5, <1>6, <1>7, <1>8, <1>9, <1>10 DEF Saved!SavedNext

\* SavedCache: whatever tabs save, restore, sign in or reload, and whatever lies
\* under the key, a tab shows its user what was read for that user only, and
\* hydration takes no newer or staler entry back.
THEOREM SavedAlwaysOwn == Saved!SavedSpec => SavedIsOwn
<1>1. SavedInv => \A tab \in Tab : Saved!OwnDataOnly(tab)
  BY DEF SavedInv, OwnTab, Own, Saved!OwnDataOnly
<1> QED BY <1>1, SavedInitially, SavedStep, PTL DEF Saved!SavedSpec, SavedIsOwn

(***************************************************************************)
(* SurfaceModule.  Which rules a list of contracts breaks depends on the   *)
(* set of its contracts only; the laws follow.                             *)
(***************************************************************************)

Contract == {Module!ToContract(item, n) : item \in {f \in Features : Module!Unionable(f.parts)}, n \in Nat}

LEMMA ContractIs ==
  ASSUME NEW c \in Contract
  PROVE  /\ c.owns \subseteq Seq(STRING) /\ Module!Unionable(c.parts) /\ c.messages = Module!TagsOf(c.parts)
         /\ Module!Label(c) # Module!Local
<1>1. PICK item \in {f \in Features : Module!Unionable(f.parts)}, n \in Nat : c = Module!ToContract(item, n)
  BY DEF Contract
<1>2. /\ c.owns = (IF item.kind = "surface" THEN {} ELSE item.owns) /\ c.parts = item.parts
      /\ c.messages = Module!TagsOf(item.parts)
  BY <1>1 DEF Module!ToContract
<1>3. Module!Label(c) # Module!Local
  BY DEF Module!Label, Module!Local
<1> QED BY <1>1, <1>2, <1>3, FeaturesAssumption

Foreign(S)   == \E c \in S : c.owner \notin {App, "unknown"}
Namesakes(S) == \E c, d \in S : c # d /\ Module!Label(c) = Module!Label(d)
Lost(S)      == \E c \in S : ~Module!KnowsPaths(c)
Mute(S)      == \E c \in S : ~Module!KnowsMessages(c)
Contested(S) == \E c, d \in S : c # d /\ Module!Overlaps(c, d)
Disputed(S)  == \E c, d \in S : c # d /\ c.kind = "sync" /\ d.kind = "sync" /\ c.messages \cap d.messages # {}

\* The rules a list breaks.
Rules(list) == {f.rule : f \in Module!Validate(list)}

\* A nonempty set of naturals has a first element.
LEMMA FirstPlace == ASSUME NEW T \in SUBSET Nat, T # {} PROVE \E x \in T : \A y \in T : x <= y
<1>1. PICK x \in T : \A y \in T : ~(<<y, x>> \in OpToRel(<, Nat))
  BY NatLessThanWellFounded, WFMin
<1>2. ASSUME NEW y \in T PROVE x <= y
  <2>1. x \in Nat /\ y \in Nat
    OBVIOUS
  <2>2. ~(y < x)
    BY <1>1, <2>1 DEF OpToRel
  <2> QED BY <2>1, <2>2
<1> QED BY <1>2

\* A nonempty set of places of a list has a last one.
LEMMA FinalPlace == ASSUME NEW n \in Nat, NEW T \in SUBSET (1 .. n), T # {} PROVE \E x \in T : \A y \in T : y <= x
<1> DEFINE U == {n - y : y \in T}
<1>1. U \in SUBSET Nat /\ U # {}
  <2>1. \A y \in T : n - y \in Nat
    OBVIOUS
  <2> QED BY <2>1
<1>2. PICK z \in U : \A w \in U : z <= w
  BY <1>1, FirstPlace
<1>3. PICK x \in T : z = n - x
  OBVIOUS
<1>4. \A y \in T : z <= n - y
  BY <1>2
<1> HIDE DEF U
<1>5. \A y \in T : y <= x
  BY <1>3, <1>4
<1> QED BY <1>5

LEMMA Places ==
  ASSUME NEW X, NEW list \in Seq(X)
  PROVE  /\ Len(list) \in Nat /\ DOMAIN list = 1 .. Len(list) /\ \A i \in DOMAIN list : list[i] \in X
         /\ \A c : c \in Module!ToSet(list) <=> \E i \in DOMAIN list : list[i] = c
<1>1. Len(list) \in Nat /\ DOMAIN list = 1 .. Len(list) /\ \A i \in DOMAIN list : list[i] \in X
  OBVIOUS
<1>2. \A c : c \in Module!ToSet(list) <=> \E i \in DOMAIN list : list[i] = c
  BY DEF Module!ToSet
<1> QED BY <1>1, <1>2

\* Two contracts of one name are noticed, although each is compared with the
\* last of that name only.
LEMMA NamesakesAreFound ==
  ASSUME NEW X, NEW list \in Seq(X)
  PROVE  (\E i \in DOMAIN list : Module!Duplicate(list, i)) <=> Namesakes(Module!ToSet(list))
<1> DEFINE same(i) == {j \in 1 .. (i - 1) : Module!Label(list[j]) = Module!Label(list[i])}
<1>0. Len(list) \in Nat /\ DOMAIN list = 1 .. Len(list)
  BY Places
<1>1. ASSUME NEW i \in DOMAIN list, Module!Duplicate(list, i) PROVE Namesakes(Module!ToSet(list))
  <2>1. same(i) # {} /\ \A j \in same(i) : (\A k \in same(i) : k <= j) => list[j] # list[i]
    BY <1>1 DEF Module!Duplicate
  <2>2. PICK j \in same(i) : \A k \in same(i) : k <= j
    <3>1. i \in Nat /\ i - 1 \in Int /\ same(i) \in SUBSET (1 .. Len(list))
      BY <1>0
    <3> QED BY <1>0, <2>1, <3>1, FinalPlace
  <2>3. j \in DOMAIN list /\ list[j] # list[i] /\ Module!Label(list[j]) = Module!Label(list[i])
    BY <1>0, <2>1, <2>2
  <2>4. list[i] \in Module!ToSet(list) /\ list[j] \in Module!ToSet(list)
    BY <2>3, Places
  <2> QED BY <2>3, <2>4 DEF Namesakes
<1>2. ASSUME Namesakes(Module!ToSet(list)) PROVE \E i \in DOMAIN list : Module!Duplicate(list, i)
  <2>1. PICK i \in DOMAIN list, j \in DOMAIN list : list[i] # list[j] /\ Module!Label(list[i]) = Module!Label(list[j])
    BY <1>2, Places DEF Namesakes
  <2>2. PICK a \in DOMAIN list, b \in DOMAIN list : a < b /\ list[a] # list[b] /\ Module!Label(list[a]) = Module!Label(list[b])
    <3>1. i < j \/ j < i
      BY <1>0, <2>1
    <3> QED BY <2>1, <3>1
  <2> DEFINE later == {k \in DOMAIN list : a < k /\ list[k] # list[a] /\ Module!Label(list[k]) = Module!Label(list[a])}
  <2>3. PICK k \in later : \A l \in later : k <= l
    <3>1. later \in SUBSET Nat /\ later # {}
      BY <1>0, <2>2
    <3> HIDE DEF later
    <3> QED BY <3>1, FirstPlace
  <2>4. k \in Nat /\ a \in Nat /\ a < k /\ k <= Len(list) /\ 1 <= a
    BY <1>0
  <2>5. a \in same(k)
    BY <2>3, <2>4
  <2>6. ASSUME NEW l \in same(k), \A m \in same(k) : m <= l PROVE list[l] # list[k]
    <3>1. a <= l /\ l < k /\ l \in DOMAIN list /\ Module!Label(list[l]) = Module!Label(list[a])
      BY <1>0, <2>3, <2>4, <2>5, <2>6
    <3>2. l \notin later
      BY <1>0, <2>3, <2>4, <3>1
    <3>3. list[l] = list[a]
      BY <1>0, <2>4, <3>1, <3>2
    <3> QED BY <2>3, <3>3
  <2>7. Module!Duplicate(list, k)
    BY <2>5, <2>6 DEF Module!Duplicate
  <2> QED BY <2>3, <2>7
<1> QED BY <1>1, <1>2

\* Two owners that overlap are noticed from the earlier one.
LEMMA ContestedAreFound ==
  ASSUME NEW X, NEW list \in Seq(X)
  PROVE  (\E i, j \in Module!Owners(list) : j > i /\ list[i] # list[j] /\ Module!Overlaps(list[i], list[j]))
           <=> Contested(Module!ToSet(list))
<1>0. Len(list) \in Nat /\ DOMAIN list = 1 .. Len(list)
  BY Places
<1>1. ASSUME NEW i \in Module!Owners(list), NEW j \in Module!Owners(list), list[i] # list[j], Module!Overlaps(list[i], list[j])
      PROVE  Contested(Module!ToSet(list))
  <2>1. list[i] \in Module!ToSet(list) /\ list[j] \in Module!ToSet(list)
    BY Places DEF Module!Owners
  <2> QED BY <1>1, <2>1 DEF Contested
<1>2. ASSUME Contested(Module!ToSet(list))
      PROVE  \E i, j \in Module!Owners(list) : j > i /\ list[i] # list[j] /\ Module!Overlaps(list[i], list[j])
  <2>1. PICK i \in DOMAIN list, j \in DOMAIN list : list[i] # list[j] /\ Module!Overlaps(list[i], list[j])
    BY <1>2, Places DEF Contested
  <2>2. Module!Overlaps(list[j], list[i])
    BY <2>1 DEF Module!Overlaps, Module!Overlap
  <2>3. i \in Module!Owners(list) /\ j \in Module!Owners(list)
    BY <2>1 DEF Module!Overlaps, Module!Owners
  <2>4. j > i \/ i > j
    BY <1>0, <2>1
  <2> QED BY <2>1, <2>2, <2>3, <2>4
<1> QED BY <1>1, <1>2

\* A Message recorded twice is noticed, although only the first to record it is
\* remembered.
LEMMA DisputedAreFound ==
  ASSUME NEW X, NEW list \in Seq(X)
  PROVE  (\E i \in DOMAIN list : Module!ClaimedTwice(list, i) # {}) <=> Disputed(Module!ToSet(list))
<1>0. Len(list) \in Nat /\ DOMAIN list = 1 .. Len(list)
  BY Places
<1>1. ASSUME NEW i \in DOMAIN list, NEW c \in Module!ClaimedTwice(list, i) PROVE Disputed(Module!ToSet(list))
  <2>1. PICK j \in 1 .. (i - 1) : /\ c = list[j] /\ list[i].kind = "sync" /\ list[j].kind = "sync" /\ list[j] # list[i]
                                  /\ list[i].messages \cap list[j].messages # {}
    BY <1>1 DEF Module!ClaimedTwice
  <2>2. j \in DOMAIN list
    BY <1>0
  <2>3. list[i] \in Module!ToSet(list) /\ list[j] \in Module!ToSet(list)
    BY <2>2, Places
  <2> QED BY <2>1, <2>3 DEF Disputed
<1>2. ASSUME Disputed(Module!ToSet(list)) PROVE \E i \in DOMAIN list : Module!ClaimedTwice(list, i) # {}
  <2>1. PICK i \in DOMAIN list, j \in DOMAIN list : /\ list[i] # list[j] /\ list[i].kind = "sync" /\ list[j].kind = "sync"
                                                    /\ list[i].messages \cap list[j].messages # {}
    BY <1>2, Places DEF Disputed
  <2>2. PICK tag : tag \in list[i].messages /\ tag \in list[j].messages
    BY <2>1
  <2> DEFINE recording == {k \in DOMAIN list : list[k].kind = "sync" /\ tag \in list[k].messages}
  <2>3. PICK k \in recording : \A l \in recording : k <= l
    <3>1. recording \in SUBSET Nat /\ recording # {}
      BY <1>0, <2>1, <2>2
    <3> HIDE DEF recording
    <3> QED BY <3>1, FirstPlace
  <2>4. PICK l \in recording : list[l] # list[k]
    BY <2>1, <2>2
  <2>5. k \in Nat /\ l \in Nat /\ k <= l /\ k # l /\ 1 <= k /\ l <= Len(list)
    BY <1>0, <2>3, <2>4
  <2>6. k \in 1 .. (l - 1)
    BY <2>5
  <2>7. \A m \in 1 .. (k - 1) : list[m].kind = "sync" => tag \notin list[m].messages
    BY <1>0, <2>3, <2>5
  <2>8. list[k] \in Module!ClaimedTwice(list, l)
    BY <2>3, <2>4, <2>6, <2>7 DEF Module!ClaimedTwice
  <2> QED BY <2>4, <2>8
<1> QED BY <1>1, <1>2

\* What it is that validation finds.
Found(list, f) ==
  \/ \E i \in DOMAIN list : list[i].owner \notin {App, "unknown"} /\ f = Module!Finding("foreign-contract", {list[i]})
  \/ \E i \in DOMAIN list : Module!Duplicate(list, i) /\ f = Module!Finding("duplicate-name", {list[i]})
  \/ \E i \in DOMAIN list : ~Module!KnowsPaths(list[i]) /\ f = Module!Finding("unknown-path", {list[i]})
  \/ \E i \in DOMAIN list : ~Module!KnowsMessages(list[i]) /\ f = Module!Finding("unknown-message", {list[i]})
  \/ \E i \in Module!Owners(list), j \in Module!Owners(list) :
        /\ j > i /\ list[i] # list[j] /\ Module!Overlaps(list[i], list[j])
        /\ f = Module!Finding("ownership-overlap", {list[i], list[j]})
  \/ \E i \in DOMAIN list : \E other \in Module!ClaimedTwice(list, i) :
        f = Module!Finding("message-claimed-twice", {list[i], other})

LEMMA FindingsAre ==
  ASSUME NEW list, NEW f
  PROVE  f \in Module!Validate(list) <=> Found(list, f)
<1> DEFINE foreign == {Module!Finding("foreign-contract", {list[i]}) : i \in {i \in DOMAIN list : list[i].owner \notin {App, "unknown"}}}
           twins == {Module!Finding("duplicate-name", {list[i]}) : i \in {i \in DOMAIN list : Module!Duplicate(list, i)}}
           lost == {Module!Finding("unknown-path", {list[i]}) : i \in {i \in DOMAIN list : ~Module!KnowsPaths(list[i])}}
           mute == {Module!Finding("unknown-message", {list[i]}) : i \in {i \in DOMAIN list : ~Module!KnowsMessages(list[i])}}
           shared(i) == {Module!Finding("ownership-overlap", {list[i], list[j]}) :
                           j \in {j \in Module!Owners(list) : j > i /\ list[i] # list[j] /\ Module!Overlaps(list[i], list[j])}}
           allShared == {shared(i) : i \in Module!Owners(list)}
           twice(i) == {Module!Finding("message-claimed-twice", {list[i], other}) : other \in Module!ClaimedTwice(list, i)}
           allTwice == {twice(i) : i \in DOMAIN list}
<1>1. Module!Validate(list) = UNION {foreign, twins, lost, mute, UNION allShared, UNION allTwice}
  BY DEF Module!Validate
<1>2. f \in foreign <=> \E i \in DOMAIN list : list[i].owner \notin {App, "unknown"} /\ f = Module!Finding("foreign-contract", {list[i]})
  OBVIOUS
<1>3. f \in twins <=> \E i \in DOMAIN list : Module!Duplicate(list, i) /\ f = Module!Finding("duplicate-name", {list[i]})
  OBVIOUS
<1>4. f \in lost <=> \E i \in DOMAIN list : ~Module!KnowsPaths(list[i]) /\ f = Module!Finding("unknown-path", {list[i]})
  OBVIOUS
<1>5. f \in mute <=> \E i \in DOMAIN list : ~Module!KnowsMessages(list[i]) /\ f = Module!Finding("unknown-message", {list[i]})
  OBVIOUS
<1>6. \A i : f \in shared(i) <=> \E j \in Module!Owners(list) :
                /\ j > i /\ list[i] # list[j] /\ Module!Overlaps(list[i], list[j])
                /\ f = Module!Finding("ownership-overlap", {list[i], list[j]})
  OBVIOUS
<1>7. \A i : f \in twice(i) <=> \E other \in Module!ClaimedTwice(list, i) :
                f = Module!Finding("message-claimed-twice", {list[i], other})
  OBVIOUS
<1> HIDE DEF foreign, twins, lost, mute, shared, twice
<1>8. f \in UNION allShared <=> \E i \in Module!Owners(list) : f \in shared(i)
  OBVIOUS
<1>9. f \in UNION allTwice <=> \E i \in DOMAIN list : f \in twice(i)
  OBVIOUS
<1> HIDE DEF allShared, allTwice
<1>10. f \in Module!Validate(list) <=> \/ f \in foreign \/ f \in twins \/ f \in lost \/ f \in mute
                                       \/ f \in UNION allShared \/ f \in UNION allTwice
  BY <1>1
<1>11. f \in UNION allShared <=> \E i \in Module!Owners(list), j \in Module!Owners(list) :
                 /\ j > i /\ list[i] # list[j] /\ Module!Overlaps(list[i], list[j])
                 /\ f = Module!Finding("ownership-overlap", {list[i], list[j]})
  BY <1>6, <1>8
<1>12. f \in UNION allTwice <=> \E i \in DOMAIN list : \E other \in Module!ClaimedTwice(list, i) :
                 f = Module!Finding("message-claimed-twice", {list[i], other})
  BY <1>7, <1>9
<1> QED BY <1>2, <1>3, <1>4, <1>5, <1>10, <1>11, <1>12 DEF Found

LEMMA RulesAre ==
  ASSUME NEW X, NEW list \in Seq(X)
  PROVE  LET S == Module!ToSet(list)
         IN  /\ "foreign-contract" \in Rules(list) <=> Foreign(S)
             /\ "duplicate-name" \in Rules(list) <=> Namesakes(S)
             /\ "unknown-path" \in Rules(list) <=> Lost(S)
             /\ "unknown-message" \in Rules(list) <=> Mute(S)
             /\ "ownership-overlap" \in Rules(list) <=> Contested(S)
             /\ "message-claimed-twice" \in Rules(list) <=> Disputed(S)
             /\ Rules(list) \subseteq {"foreign-contract", "duplicate-name", "unknown-path", "unknown-message",
                                       "ownership-overlap", "message-claimed-twice"}
<1> DEFINE S == Module!ToSet(list)
<1> DEFINE isForeign(i, f) == list[i].owner \notin {App, "unknown"} /\ f = Module!Finding("foreign-contract", {list[i]})
           isTwin(i, f) == Module!Duplicate(list, i) /\ f = Module!Finding("duplicate-name", {list[i]})
           isLost(i, f) == ~Module!KnowsPaths(list[i]) /\ f = Module!Finding("unknown-path", {list[i]})
           isMute(i, f) == ~Module!KnowsMessages(list[i]) /\ f = Module!Finding("unknown-message", {list[i]})
           contests(i, j) == j > i /\ list[i] # list[j] /\ Module!Overlaps(list[i], list[j])
           areContested(i, j, f) == contests(i, j) /\ f = Module!Finding("ownership-overlap", {list[i], list[j]})
           areDisputed(i, c, f) == f = Module!Finding("message-claimed-twice", {list[i], c})
<1>0. \A rule, about : Module!Finding(rule, about).rule = rule
  BY DEF Module!Finding
<1>1. \A rule : rule \in Rules(list) <=> \E f \in Module!Validate(list) : f.rule = rule
  BY DEF Rules
<1>20. \A f : f \in Module!Validate(list) <=>
            \/ \E i \in DOMAIN list : isForeign(i, f)
            \/ \E i \in DOMAIN list : isTwin(i, f)
            \/ \E i \in DOMAIN list : isLost(i, f)
            \/ \E i \in DOMAIN list : isMute(i, f)
            \/ \E i \in Module!Owners(list), j \in Module!Owners(list) : areContested(i, j, f)
            \/ \E i \in DOMAIN list : \E c \in Module!ClaimedTwice(list, i) : areDisputed(i, c, f)
  BY FindingsAre DEF Found
<1>21. \A i, f : isForeign(i, f) => f.rule = "foreign-contract"
  BY <1>0
<1>22. \A i, f : isTwin(i, f) => f.rule = "duplicate-name"
  BY <1>0
<1>23. \A i, f : isLost(i, f) => f.rule = "unknown-path"
  BY <1>0
<1>24. \A i, f : isMute(i, f) => f.rule = "unknown-message"
  BY <1>0
<1>25. \A i, j, f : areContested(i, j, f) => f.rule = "ownership-overlap"
  BY <1>0
<1>26. \A i, c, f : areDisputed(i, c, f) => f.rule = "message-claimed-twice"
  BY <1>0
<1>27. \A i : list[i].owner \notin {App, "unknown"} <=> \E f : isForeign(i, f)
  OBVIOUS
<1>28. \A i : Module!Duplicate(list, i) <=> \E f : isTwin(i, f)
  OBVIOUS
<1>29. \A i : ~Module!KnowsPaths(list[i]) <=> \E f : isLost(i, f)
  OBVIOUS
<1>30. \A i : ~Module!KnowsMessages(list[i]) <=> \E f : isMute(i, f)
  OBVIOUS
<1>31. \A i, j : contests(i, j) <=> \E f : areContested(i, j, f)
  OBVIOUS
<1>32. \A i, c : \E f : areDisputed(i, c, f)
  OBVIOUS
<1> HIDE DEF isForeign, isTwin, isLost, isMute, contests, areContested, areDisputed
<1>2. "foreign-contract" \in Rules(list) <=> \E i \in DOMAIN list : list[i].owner \notin {App, "unknown"}
  <2>1. ASSUME NEW f \in Module!Validate(list), f.rule = "foreign-contract"
        PROVE  \E i \in DOMAIN list : isForeign(i, f)
    BY <2>1, <1>20, <1>22, <1>23, <1>24, <1>25, <1>26
  <2>2. ASSUME NEW i \in DOMAIN list, NEW f, isForeign(i, f)
        PROVE  f \in Module!Validate(list) /\ f.rule = "foreign-contract"
    BY <2>2, <1>20, <1>21
  <2> QED BY <2>1, <2>2, <1>1, <1>27
<1>3. "duplicate-name" \in Rules(list) <=> \E i \in DOMAIN list : Module!Duplicate(list, i)
  <2>1. ASSUME NEW f \in Module!Validate(list), f.rule = "duplicate-name"
        PROVE  \E i \in DOMAIN list : isTwin(i, f)
    BY <2>1, <1>20, <1>21, <1>23, <1>24, <1>25, <1>26
  <2>2. ASSUME NEW i \in DOMAIN list, NEW f, isTwin(i, f)
        PROVE  f \in Module!Validate(list) /\ f.rule = "duplicate-name"
    BY <2>2, <1>20, <1>22
  <2> QED BY <2>1, <2>2, <1>1, <1>28
<1>4. "unknown-path" \in Rules(list) <=> \E i \in DOMAIN list : ~Module!KnowsPaths(list[i])
  <2>1. ASSUME NEW f \in Module!Validate(list), f.rule = "unknown-path"
        PROVE  \E i \in DOMAIN list : isLost(i, f)
    BY <2>1, <1>20, <1>21, <1>22, <1>24, <1>25, <1>26
  <2>2. ASSUME NEW i \in DOMAIN list, NEW f, isLost(i, f)
        PROVE  f \in Module!Validate(list) /\ f.rule = "unknown-path"
    BY <2>2, <1>20, <1>23
  <2> QED BY <2>1, <2>2, <1>1, <1>29
<1>5. "unknown-message" \in Rules(list) <=> \E i \in DOMAIN list : ~Module!KnowsMessages(list[i])
  <2>1. ASSUME NEW f \in Module!Validate(list), f.rule = "unknown-message"
        PROVE  \E i \in DOMAIN list : isMute(i, f)
    BY <2>1, <1>20, <1>21, <1>22, <1>23, <1>25, <1>26
  <2>2. ASSUME NEW i \in DOMAIN list, NEW f, isMute(i, f)
        PROVE  f \in Module!Validate(list) /\ f.rule = "unknown-message"
    BY <2>2, <1>20, <1>24
  <2> QED BY <2>1, <2>2, <1>1, <1>30
<1>6. "ownership-overlap" \in Rules(list) <=> \E i, j \in Module!Owners(list) : contests(i, j)
  <2>1. ASSUME NEW f \in Module!Validate(list), f.rule = "ownership-overlap"
        PROVE  \E i \in Module!Owners(list), j \in Module!Owners(list) : areContested(i, j, f)
    BY <2>1, <1>20, <1>21, <1>22, <1>23, <1>24, <1>26
  <2>2. ASSUME NEW i \in Module!Owners(list), NEW j \in Module!Owners(list), NEW f, areContested(i, j, f)
        PROVE  f \in Module!Validate(list) /\ f.rule = "ownership-overlap"
    BY <2>2, <1>20, <1>25
  <2> QED BY <2>1, <2>2, <1>1, <1>31
<1>7. "message-claimed-twice" \in Rules(list) <=> \E i \in DOMAIN list : Module!ClaimedTwice(list, i) # {}
  <2>1. ASSUME NEW f \in Module!Validate(list), f.rule = "message-claimed-twice"
        PROVE  \E i \in DOMAIN list : \E c \in Module!ClaimedTwice(list, i) : areDisputed(i, c, f)
    BY <2>1, <1>20, <1>21, <1>22, <1>23, <1>24, <1>25
  <2>2. ASSUME NEW i \in DOMAIN list, NEW c \in Module!ClaimedTwice(list, i), NEW f, areDisputed(i, c, f)
        PROVE  f \in Module!Validate(list) /\ f.rule = "message-claimed-twice"
    BY <2>2, <1>20, <1>26
  <2> QED BY <2>1, <2>2, <1>1, <1>32
<1>8. Rules(list) \subseteq {"foreign-contract", "duplicate-name", "unknown-path", "unknown-message",
                             "ownership-overlap", "message-claimed-twice"}
  <2>1. ASSUME NEW f \in Module!Validate(list)
        PROVE  f.rule \in {"foreign-contract", "duplicate-name", "unknown-path", "unknown-message",
                           "ownership-overlap", "message-claimed-twice"}
    BY <1>20, <1>21, <1>22, <1>23, <1>24, <1>25, <1>26
  <2> QED BY <2>1, <1>1
<1>9. \A c : c \in S <=> \E i \in DOMAIN list : list[i] = c
  BY Places
<1> HIDE DEF S
<1>10. /\ (\E i \in DOMAIN list : list[i].owner \notin {App, "unknown"}) <=> Foreign(S)
       /\ (\E i \in DOMAIN list : ~Module!KnowsPaths(list[i])) <=> Lost(S)
       /\ (\E i \in DOMAIN list : ~Module!KnowsMessages(list[i])) <=> Mute(S)
  BY <1>9 DEF Foreign, Lost, Mute
<1> QED BY <1>2, <1>3, <1>4, <1>5, <1>6, <1>7, <1>8, <1>10, NamesakesAreFound, ContestedAreFound, DisputedAreFound DEF S, contests

\* The rules are those of the set of contracts.
LEMMA SameRules ==
  ASSUME NEW X, NEW one \in Seq(X), NEW other \in Seq(X), Module!ToSet(one) = Module!ToSet(other)
  PROVE  Rules(one) = Rules(other)
<1> DEFINE six == {"foreign-contract", "duplicate-name", "unknown-path", "unknown-message",
                   "ownership-overlap", "message-claimed-twice"}
<1>1. \A rule \in six : rule \in Rules(one) <=> rule \in Rules(other)
  BY RulesAre
<1>2. Rules(one) \subseteq six /\ Rules(other) \subseteq six
  BY RulesAre
<1> HIDE DEF six
<1> QED BY <1>1, <1>2

LEMMA OrderLaw == contracts \in Seq(Contract) => Module!OrderIsIrrelevant
<1> SUFFICES ASSUME contracts \in Seq(Contract) PROVE Rules(contracts) = Rules(Module!Reverse(contracts))
  BY DEF Module!OrderIsIrrelevant, Rules
<1> DEFINE n == Len(contracts)
           back == Module!Reverse(contracts)
<1>1. n \in Nat /\ DOMAIN contracts = 1 .. n /\ \A i \in 1 .. n : contracts[i] \in Contract
  BY Places
<1>2. back = [i \in 1 .. n |-> contracts[(n - i) + 1]]
  BY DEF Module!Reverse
<1> HIDE DEF n, back
<1>3. \A i \in 1 .. n : (n - i) + 1 \in 1 .. n /\ (n - ((n - i) + 1)) + 1 = i
  BY <1>1
<1>4. back \in [1 .. n -> Contract]
  BY <1>1, <1>2, <1>3
<1>5. back \in Seq(Contract)
  BY <1>1, <1>4
<1>6. DOMAIN back = 1 .. n /\ \A i \in 1 .. n : back[i] = contracts[(n - i) + 1] /\ back[(n - i) + 1] = contracts[i]
  BY <1>2, <1>3
<1>7. Module!ToSet(back) = Module!ToSet(contracts)
  BY <1>1, <1>3, <1>6 DEF Module!ToSet
<1> QED BY <1>5, <1>7, SameRules DEF back

\* Each contract is compared with those before it: what follows hides nothing.
LEMMA AddingLaw == contracts \in Seq(Contract) => Module!AddingHidesNothing
<1> SUFFICES ASSUME contracts \in Seq(Contract), contracts # <<>>, NEW f \in Module!Validate(Module!Front(contracts))
             PROVE  f \in Module!Validate(contracts)
  BY DEF Module!AddingHidesNothing
<1> DEFINE n == Len(contracts)
           front == Module!Front(contracts)
<1>1. /\ n \in Nat /\ DOMAIN contracts = 1 .. n /\ n # 0
  BY Places, EmptySeq
<1>2. front = SubSeq(contracts, 1, n - 1)
  BY DEF Module!Front
<1>3. DOMAIN front = 1 .. (n - 1) /\ \A i \in 1 .. (n - 1) : front[i] = contracts[i]
  BY <1>1, <1>2
<1> HIDE DEF n, front
<1>4. \A i \in DOMAIN front : i \in DOMAIN contracts /\ i \in Nat /\ front[i] = contracts[i] /\ \A j \in 1 .. (i - 1) : j \in DOMAIN front
  BY <1>1, <1>3
<1>5. ASSUME NEW i \in DOMAIN front PROVE Module!Duplicate(front, i) <=> Module!Duplicate(contracts, i)
  BY <1>4 DEF Module!Duplicate
<1>6. ASSUME NEW i \in DOMAIN front PROVE Module!ClaimedTwice(front, i) = Module!ClaimedTwice(contracts, i)
  <2>1. \A j \in 1 .. (i - 1) : front[j] = contracts[j] /\ j \in DOMAIN front /\ \A k \in 1 .. (j - 1) : front[k] = contracts[k]
    BY <1>4
  <2> QED BY <1>4, <2>1 DEF Module!ClaimedTwice
<1>7. \A i \in Module!Owners(front) : i \in Module!Owners(contracts) /\ i \in DOMAIN front
  BY <1>4 DEF Module!Owners
<1>8. f \in Module!Validate(front)
  BY DEF front
<1>9. \/ \E i \in DOMAIN front : front[i].owner \notin {App, "unknown"} /\ f = Module!Finding("foreign-contract", {front[i]})
      \/ \E i \in DOMAIN front : Module!Duplicate(front, i) /\ f = Module!Finding("duplicate-name", {front[i]})
      \/ \E i \in DOMAIN front : ~Module!KnowsPaths(front[i]) /\ f = Module!Finding("unknown-path", {front[i]})
      \/ \E i \in DOMAIN front : ~Module!KnowsMessages(front[i]) /\ f = Module!Finding("unknown-message", {front[i]})
      \/ \E i \in Module!Owners(front), j \in Module!Owners(front) :
            /\ j > i /\ front[i] # front[j] /\ Module!Overlaps(front[i], front[j])
            /\ f = Module!Finding("ownership-overlap", {front[i], front[j]})
      \/ \E i \in DOMAIN front : \E other \in Module!ClaimedTwice(front, i) :
            f = Module!Finding("message-claimed-twice", {front[i], other})
  <2>1. Found(front, f)
    BY <1>8, FindingsAre
  <2> QED BY <2>1 DEF Found
<1>10. Found(contracts, f)
  BY <1>4, <1>5, <1>6, <1>7, <1>9 DEF Found
<1> QED BY <1>10, FindingsAre

\* A Module without findings breaks no rule.
LEMMA CleanIs ==
  ASSUME contracts \in Seq(Contract), Module!Clean
  PROVE  LET S == Module!ToSet(contracts) IN ~Namesakes(S) /\ ~Lost(S) /\ ~Mute(S) /\ ~Contested(S) /\ ~Disputed(S)
<1>1. \A rule : rule \notin Rules(contracts)
  BY DEF Rules, Module!Clean
<1> QED BY <1>1, RulesAre

LEMMA SoleOwner ==
  ASSUME contracts \in Seq(Contract), Module!Clean,
         NEW c \in Module!ToSet(contracts), NEW d \in Module!ToSet(contracts), NEW p \in c.owns, NEW q \in d.owns,
         Module!IsPrefix(p, q) \/ Module!IsPrefix(q, p)
  PROVE  c = d
<1>1. ~Contested(Module!ToSet(contracts)) /\ ~Lost(Module!ToSet(contracts))
  BY CleanIs
<1>2. p # <<>> /\ q # <<>>
  BY <1>1 DEF Lost, Module!KnowsPaths
<1>3. Module!Overlaps(c, d)
  BY <1>2 DEF Module!Overlaps, Module!Overlap
<1> QED BY <1>1, <1>3 DEF Contested

LEMMA OwnedLaw == contracts \in Seq(Contract) => Module!CleanIsOwnedOnce
<1> SUFFICES ASSUME contracts \in Seq(Contract), Module!Clean, NEW c \in Module!ToSet(contracts), NEW d \in Module!ToSet(contracts)
             PROVE  /\ c # d => /\ Module!Label(c) # Module!Label(d)
                                /\ \A p \in c.owns, q \in d.owns : ~Module!IsPrefix(p, q) /\ ~Module!IsPrefix(q, p)
                    /\ c.kind = "sync" /\ d.kind = "sync" =>
                         \A i \in DOMAIN c.parts, j \in DOMAIN d.parts :
                            <<c, i>> # <<d, j>> => Module!TagsIn(c.parts[i]) \cap Module!TagsIn(d.parts[j]) = {}
  BY DEF Module!CleanIsOwnedOnce
<1>1. ~Namesakes(Module!ToSet(contracts)) /\ ~Disputed(Module!ToSet(contracts))
  BY CleanIs
<1>2. c # d => Module!Label(c) # Module!Label(d)
  BY <1>1 DEF Namesakes
<1>3. c # d => \A p \in c.owns, q \in d.owns : ~Module!IsPrefix(p, q) /\ ~Module!IsPrefix(q, p)
  BY SoleOwner
<1>4. c \in Contract /\ d \in Contract
  BY Places
<1>5. ASSUME c.kind = "sync", d.kind = "sync", NEW i \in DOMAIN c.parts, NEW j \in DOMAIN d.parts, <<c, i>> # <<d, j>>
      PROVE  Module!TagsIn(c.parts[i]) \cap Module!TagsIn(d.parts[j]) = {}
  <2>1. CASE c = d
    BY <1>4, <1>5, <2>1, ContractIs DEF Module!Unionable
  <2>2. CASE c # d
    <3>1. c.messages \cap d.messages = {}
      BY <1>1, <1>5, <2>2 DEF Disputed
    <3>2. Module!TagsIn(c.parts[i]) \subseteq c.messages /\ Module!TagsIn(d.parts[j]) \subseteq d.messages
      BY <1>4, <1>5, ContractIs DEF Module!TagsOf
    <3> QED BY <3>1, <3>2
  <2> QED BY <2>1, <2>2
<1> QED BY <1>2, <1>3, <1>5

\* The manifest: the rows of a field are claims, or its local row when no
\* claim takes the whole field.
Claim(c, p) == [path |-> p, owner |-> Module!Label(c)]
Whole(list, field) == {claim \in Module!Claims(list, field) : Len(claim.path) = 1}
LocalRow(field) == [path |-> <<field>>, owner |-> Module!Local]

LEMMA ClaimsAre ==
  ASSUME NEW list, NEW field, NEW row
  PROVE  row \in Module!Claims(list, field) <=>
           \E c \in Module!ToSet(list) : \E p \in c.owns : p # <<>> /\ p[1] = field /\ row = Claim(c, p)
<1> DEFINE of(c) == {[path |-> p, owner |-> Module!Label(c)] : p \in {q \in c.owns : q # <<>> /\ q[1] = field}}
<1>1. Module!Claims(list, field) = UNION {of(c) : c \in Module!ToSet(list)}
  BY DEF Module!Claims
<1>2. \A c : row \in of(c) <=> \E p \in c.owns : p # <<>> /\ p[1] = field /\ row = Claim(c, p)
  BY DEF Claim
<1> HIDE DEF of
<1> QED BY <1>1, <1>2

LEMMA RowsAre ==
  ASSUME NEW list, NEW field
  PROVE  /\ Whole(list, field) # {} => \E w \in Whole(list, field) : Module!Rows(list, field) = {w}
         /\ Whole(list, field) = {} => Module!Rows(list, field) = {LocalRow(field)} \cup Module!Claims(list, field)
<1>1. Module!Rows(list, field) = IF Whole(list, field) # {} THEN {CHOOSE w \in Whole(list, field) : TRUE}
                                 ELSE {LocalRow(field)} \cup Module!Claims(list, field)
  BY DEF Module!Rows, Whole, LocalRow
<1>2. Whole(list, field) # {} => (CHOOSE w \in Whole(list, field) : TRUE) \in Whole(list, field)
  OBVIOUS
<1> QED BY <1>1, <1>2

LEMMA ManifestLaw == contracts \in Seq(Contract) => Module!ManifestIsTrue
<1> SUFFICES ASSUME contracts \in Seq(Contract), Module!Clean
             PROVE  /\ \A c \in Module!ToSet(contracts) : \A path \in c.owns :
                          \E row \in Module!Manifest(contracts) : row.owner = Module!Label(c) /\ Module!IsPrefix(row.path, path)
                    /\ \A row \in Module!Manifest(contracts) : row.owner # Module!Local =>
                          \E c \in Module!ToSet(contracts) : row.owner = Module!Label(c) /\ row.path \in c.owns
                    /\ \A field \in ModelFields :
                          LocalRow(field) \in Module!Manifest(contracts)
                            <=> \A c \in Module!ToSet(contracts) : <<field>> \notin c.owns
  BY DEF Module!ManifestIsTrue, LocalRow
<1>1. \A row : row \in Module!Manifest(contracts) <=> \E field \in ModelFields : row \in Module!Rows(contracts, field)
  BY DEF Module!Manifest
<1>2. \A c \in Module!ToSet(contracts) : c.owns \subseteq Seq(STRING) /\ Module!Label(c) # Module!Local
  BY Places, ContractIs
<1>3. \A c, p : Claim(c, p).path = p /\ Claim(c, p).owner = Module!Label(c)
  BY DEF Claim
<1>4. \A c \in Module!ToSet(contracts) : \A p \in c.owns : p # <<>> /\ p[1] \in ModelFields
  <2>1. ~Lost(Module!ToSet(contracts))
    BY CleanIs
  <2> QED BY <2>1 DEF Lost, Module!KnowsPaths
<1>5. \A field, row : row \in Module!Rows(contracts, field) =>
        \/ row \in Module!Claims(contracts, field)
        \/ row = LocalRow(field) /\ Whole(contracts, field) = {}
  BY RowsAre DEF Whole
<1>6. ASSUME NEW c \in Module!ToSet(contracts), NEW path \in c.owns
      PROVE  \E row \in Module!Manifest(contracts) : row.owner = Module!Label(c) /\ Module!IsPrefix(row.path, path)
  <2> DEFINE field == path[1]
  <2>1. path \in Seq(STRING) /\ path # <<>> /\ field \in ModelFields
    BY <1>2, <1>4
  <2>2. Claim(c, path) \in Module!Claims(contracts, field)
    BY <2>1, ClaimsAre
  <2>3. Module!IsPrefix(path, path)
    BY <2>1 DEF Module!IsPrefix
  <2>4. CASE Whole(contracts, field) = {}
    <3>1. Claim(c, path) \in Module!Rows(contracts, field)
      BY <2>2, <2>4, RowsAre
    <3>2. Claim(c, path) \in Module!Manifest(contracts)
      BY <1>1, <2>1, <3>1
    <3> QED BY <1>3, <2>3, <3>2
  <2>5. CASE Whole(contracts, field) # {}
    <3>1. PICK w \in Whole(contracts, field) : Module!Rows(contracts, field) = {w}
      BY <2>5, RowsAre
    <3>2. w \in Module!Claims(contracts, field) /\ Len(w.path) = 1
      BY DEF Whole
    <3>3. PICK d \in Module!ToSet(contracts) : \E q \in d.owns : q # <<>> /\ q[1] = field /\ w = Claim(d, q)
      BY <3>2, ClaimsAre
    <3>4. PICK q \in d.owns : q # <<>> /\ q[1] = field /\ w = Claim(d, q)
      BY <3>3
    <3>5. w.path = q /\ w.owner = Module!Label(d) /\ q \in Seq(STRING) /\ Len(q) = 1
      BY <1>2, <1>3, <3>2, <3>4
    <3>6. Module!IsPrefix(q, path)
      <4>1. Len(path) \in Nat /\ Len(path) >= 1
        BY <2>1
      <4>2. SubSeq(q, 1, 1) = [i \in 1 .. 1 |-> q[i]] /\ SubSeq(path, 1, 1) = [i \in 1 .. 1 |-> path[i]]
        BY <2>1, <3>5, <4>1
      <4>3. \A i \in 1 .. 1 : q[i] = path[i]
        BY <3>4
      <4>4. SubSeq(q, 1, 1) = SubSeq(path, 1, 1)
        BY <4>2, <4>3
      <4> QED BY <3>5, <4>1, <4>4 DEF Module!IsPrefix
    <3>7. c = d
      BY <3>6, SoleOwner
    <3>8. w \in Module!Manifest(contracts)
      BY <1>1, <2>1, <3>1
    <3> QED BY <3>5, <3>6, <3>7, <3>8
  <2> QED BY <2>4, <2>5
<1>7. ASSUME NEW row \in Module!Manifest(contracts), row.owner # Module!Local
      PROVE  \E c \in Module!ToSet(contracts) : row.owner = Module!Label(c) /\ row.path \in c.owns
  <2>1. PICK field \in ModelFields : row \in Module!Rows(contracts, field)
    BY <1>1
  <2>2. row \in Module!Claims(contracts, field)
    BY <1>5, <1>7, <2>1 DEF LocalRow
  <2>3. PICK c \in Module!ToSet(contracts) : \E p \in c.owns : p # <<>> /\ p[1] = field /\ row = Claim(c, p)
    BY <2>2, ClaimsAre
  <2> QED BY <1>3, <2>3
<1>8. ASSUME NEW field \in ModelFields, LocalRow(field) \in Module!Manifest(contracts), NEW c \in Module!ToSet(contracts)
      PROVE  <<field>> \notin c.owns
  <2>1. PICK g \in ModelFields : LocalRow(field) \in Module!Rows(contracts, g)
    BY <1>1, <1>8
  <2>2. LocalRow(field) \notin Module!Claims(contracts, g)
    <3> SUFFICES ASSUME LocalRow(field) \in Module!Claims(contracts, g) PROVE FALSE
      OBVIOUS
    <3>1. PICK d \in Module!ToSet(contracts) : \E p \in d.owns : p # <<>> /\ p[1] = g /\ LocalRow(field) = Claim(d, p)
      BY ClaimsAre
    <3> QED BY <1>2, <1>3, <3>1 DEF LocalRow
  <2>3. LocalRow(field) = LocalRow(g) /\ Whole(contracts, g) = {}
    BY <1>5, <2>1, <2>2
  <2>4. <<field>>[1] = <<g>>[1]
    BY <2>3 DEF LocalRow
  <2>5. field = g
    BY <2>4
  <2>6. ASSUME <<field>> \in c.owns PROVE FALSE
    <3>1. Claim(c, <<field>>) \in Module!Claims(contracts, field)
      <4>1. <<field>> # <<>> /\ <<field>>[1] = field
        OBVIOUS
      <4> QED BY <2>6, <4>1, ClaimsAre
    <3>2. Len(Claim(c, <<field>>).path) = 1
      BY <1>3
    <3>3. Claim(c, <<field>>) \in Whole(contracts, field)
      BY <3>1, <3>2 DEF Whole
    <3> QED BY <2>3, <2>5, <3>3
  <2> QED BY <2>6
<1>9. ASSUME NEW field \in ModelFields, \A c \in Module!ToSet(contracts) : <<field>> \notin c.owns
      PROVE  LocalRow(field) \in Module!Manifest(contracts)
  <2>1. Whole(contracts, field) = {}
    <3> SUFFICES ASSUME NEW w \in Module!Claims(contracts, field), Len(w.path) = 1 PROVE FALSE
      BY DEF Whole
    <3>1. PICK c \in Module!ToSet(contracts) : \E p \in c.owns : p # <<>> /\ p[1] = field /\ w = Claim(c, p)
      BY ClaimsAre
    <3>2. PICK p \in c.owns : p # <<>> /\ p[1] = field /\ w = Claim(c, p)
      BY <3>1
    <3>3. p \in Seq(STRING) /\ Len(p) = 1
      BY <1>2, <1>3, <3>2
    <3>4. p = <<p[1]>>
      BY <3>3
    <3> QED BY <1>9, <3>2, <3>4
  <2>2. LocalRow(field) \in Module!Rows(contracts, field)
    BY <2>1, RowsAre
  <2> QED BY <1>1, <2>2
<1> QED BY <1>6, <1>7, <1>8, <1>9

\* What a Module holds are contracts of its features.
LEMMA ContractsInit == Module!ModuleInit => contracts \in Seq(Contract)
BY DEF Module!ModuleInit

LEMMA ContractsStep ==
  ASSUME contracts \in Seq(Contract), [Module!ModuleNext]_contracts
  PROVE  contracts' \in Seq(Contract)
<1>1. CASE Module!ModuleNext
  <2>1. PICK item \in Features : Module!Add(item)
    BY <1>1 DEF Module!ModuleNext
  <2>2. Module!ToContract(item, Len(contracts)) \in Contract
    BY <2>1 DEF Module!Add, Contract
  <2> QED BY <2>1, <2>2 DEF Module!Add
<1>2. CASE UNCHANGED contracts
  BY <1>2
<1> QED BY <1>1, <1>2

\* In a Module without findings every path, name and Message has one owner;
\* the order of its contracts decides nothing, one more hides nothing, and the
\* manifest is true (Module.validate, Module.manifest).
THEOREM ModuleAlwaysOwned == Module!ModuleSpec => []ModuleIsOwned
<1>1. contracts \in Seq(Contract) => ModuleIsOwned
  BY OwnedLaw, OrderLaw, AddingLaw, ManifestLaw DEF ModuleIsOwned
<1>2. Module!ModuleInit => contracts \in Seq(Contract)
  BY ContractsInit
<1>3. contracts \in Seq(Contract) /\ [Module!ModuleNext]_contracts => (contracts \in Seq(Contract))'
  BY ContractsStep
<1> QED BY <1>1, <1>2, <1>3, PTL DEF Module!ModuleSpec

(***************************************************************************)
(* KeysetReads.  The order of a page is lexicographic over the key of a    *)
(* row, the values of its order columns; what a cursor's values select is  *)
(* what that order puts after them.                                        *)
(***************************************************************************)

Values == Int \cup {None}
TotalOrders == {terms \in Seq(Keyset!Term) : Keyset!HasTieBreaker(terms)}
Keys(terms) == [DOMAIN terms -> Values]

Key(terms, id) == [n \in DOMAIN terms |-> Keyset!Value(id, terms[n].column)]

Less(terms, traversal, k, l) ==
  \E n \in DOMAIN terms :
     /\ \A m \in 1 .. n - 1 : k[m] = l[m]
     /\ Keyset!Sorts(k[n], l[n], Keyset!Directed(terms[n].direction, traversal))

LEMMA SortsOrder ==
  ASSUME NEW x \in Values, NEW y \in Values, NEW z \in Values, NEW up \in BOOLEAN
  PROVE  /\ ~Keyset!Sorts(x, x, up)
         /\ Keyset!Sorts(x, y, up) /\ Keyset!Sorts(y, z, up) => Keyset!Sorts(x, z, up)
         /\ x = y \/ Keyset!Sorts(x, y, up) \/ Keyset!Sorts(y, x, up)
         /\ Keyset!Sorts(x, y, ~up) <=> Keyset!Sorts(y, x, up)
BY RowsAssumption DEF Keyset!Sorts, Values

LEMMA TermsAre ==
  ASSUME NEW terms \in Seq(Keyset!Term)
  PROVE  /\ Len(terms) \in Nat /\ DOMAIN terms = 1 .. Len(terms)
         /\ \A n \in DOMAIN terms : n \in Nat /\ (\A m \in 1 .. n - 1 : m \in DOMAIN terms)
         /\ \A n \in DOMAIN terms : /\ terms[n].column \in {"id", "rank"}
                                    /\ \A traversal : Keyset!Directed(terms[n].direction, traversal) \in BOOLEAN
<1>1. Len(terms) \in Nat /\ DOMAIN terms = 1 .. Len(terms) /\ \A n \in DOMAIN terms : terms[n] \in Keyset!Term
  OBVIOUS
<1>2. \A n \in DOMAIN terms : terms[n].column \in {"id", "rank"}
  BY <1>1 DEF Keyset!Term
<1> QED BY <1>1, <1>2 DEF Keyset!Directed

LEMMA LessIrreflexive ==
  ASSUME NEW terms \in Seq(Keyset!Term), NEW traversal, NEW k \in Keys(terms)
  PROVE  ~Less(terms, traversal, k, k)
<1> SUFFICES ASSUME NEW n \in DOMAIN terms, Keyset!Sorts(k[n], k[n], Keyset!Directed(terms[n].direction, traversal)) PROVE FALSE
  BY DEF Less
<1>1. k[n] \in Values /\ Keyset!Directed(terms[n].direction, traversal) \in BOOLEAN
  BY TermsAre DEF Keys
<1> QED BY <1>1, SortsOrder

LEMMA LessTransitive ==
  ASSUME NEW terms \in Seq(Keyset!Term), NEW traversal,
         NEW j \in Keys(terms), NEW k \in Keys(terms), NEW l \in Keys(terms),
         Less(terms, traversal, j, k), Less(terms, traversal, k, l)
  PROVE  Less(terms, traversal, j, l)
<1> DEFINE up(n) == Keyset!Directed(terms[n].direction, traversal)
<1>1. PICK a \in DOMAIN terms : (\A m \in 1 .. a - 1 : j[m] = k[m]) /\ Keyset!Sorts(j[a], k[a], up(a))
  BY DEF Less
<1>2. PICK b \in DOMAIN terms : (\A m \in 1 .. b - 1 : k[m] = l[m]) /\ Keyset!Sorts(k[b], l[b], up(b))
  BY DEF Less
<1>3. a \in Nat /\ b \in Nat /\ a > 0 /\ b > 0
  BY TermsAre
<1>4. \A n \in DOMAIN terms : j[n] \in Values /\ k[n] \in Values /\ l[n] \in Values /\ up(n) \in BOOLEAN
  BY TermsAre DEF Keys
<1> HIDE DEF up
<1>5. CASE a < b
  <2>1. \A m \in 1 .. a - 1 : j[m] = l[m]
    BY <1>1, <1>2, <1>3, <1>5
  <2>2. k[a] = l[a]
    BY <1>2, <1>3, <1>5
  <2> QED BY <1>1, <2>1, <2>2 DEF Less, up
<1>6. CASE b < a
  <2>1. \A m \in 1 .. b - 1 : j[m] = l[m]
    BY <1>1, <1>2, <1>3, <1>6
  <2>2. k[b] = j[b]
    BY <1>1, <1>3, <1>6
  <2> QED BY <1>2, <2>1, <2>2 DEF Less, up
<1>7. CASE a = b
  <2>1. \A m \in 1 .. a - 1 : j[m] = l[m]
    BY <1>1, <1>2, <1>7
  <2>2. Keyset!Sorts(j[a], l[a], up(a))
    BY <1>1, <1>2, <1>4, <1>7, SortsOrder
  <2> QED BY <2>1, <2>2 DEF Less, up
<1> QED BY <1>3, <1>5, <1>6, <1>7

LEMMA LessTotal ==
  ASSUME NEW terms \in Seq(Keyset!Term), NEW traversal, NEW k \in Keys(terms), NEW l \in Keys(terms), k # l
  PROVE  Less(terms, traversal, k, l) \/ Less(terms, traversal, l, k)
<1> DEFINE other == {n \in DOMAIN terms : k[n] # l[n]}
<1>1. other \in SUBSET Nat /\ other # {}
  BY TermsAre DEF Keys
<1>2. PICK n \in other : \A m \in other : n <= m
  BY <1>1, FirstPlace
<1>3. \A m \in 1 .. n - 1 : k[m] = l[m]
  <2> SUFFICES ASSUME NEW m \in 1 .. n - 1, k[m] # l[m] PROVE FALSE
    OBVIOUS
  <2>1. m \in DOMAIN terms /\ n \in Nat /\ m \in Nat /\ m < n
    BY TermsAre
  <2> QED BY <1>2, <2>1
<1>4. k[n] \in Values /\ l[n] \in Values /\ k[n] # l[n] /\ Keyset!Directed(terms[n].direction, traversal) \in BOOLEAN
  BY TermsAre DEF Keys
<1>5. n \in DOMAIN terms
  OBVIOUS
<1> QED BY <1>3, <1>4, <1>5, SortsOrder DEF Less

\* A cursor's values select what sorts after them (keysetWhere, orderByTerms).
LEMMA WhereIsLess ==
  ASSUME NEW terms \in Seq(Keyset!Term), NEW traversal, NEW id, NEW values
  PROVE  Keyset!KeysetWhere(terms, id, values, traversal) <=> Less(terms, traversal, values, Key(terms, id))
<1>1. \A x, at, direction :
         Keyset!CursorCompare(x, direction, at, traversal) <=> Keyset!Sorts(at, x, Keyset!Directed(direction, traversal))
  BY DEF Keyset!CursorCompare, Keyset!Sorts
<1>2. \A n \in DOMAIN terms : Key(terms, id)[n] = Keyset!Value(id, terms[n].column)
  BY DEF Key
<1>3. \A n \in DOMAIN terms : \A m \in 1 .. n - 1 : Key(terms, id)[m] = Keyset!Value(id, terms[m].column)
  BY <1>2, TermsAre
<1>4. \A n \in DOMAIN terms :
        (\A m \in 1 .. n - 1 : Keyset!Value(id, terms[m].column) = values[m])
          <=> (\A m \in 1 .. n - 1 : values[m] = Key(terms, id)[m])
  BY <1>3
<1> QED BY <1>1, <1>2, <1>4 DEF Keyset!KeysetWhere, Less

LEMMA PrecedesIsLess ==
  ASSUME NEW terms \in Seq(Keyset!Term), NEW traversal, NEW i, NEW j
  PROVE  Keyset!Precedes(terms, i, j, traversal) <=> Less(terms, traversal, Key(terms, i), Key(terms, j))
<1>1. \A id : \A n \in DOMAIN terms : Key(terms, id)[n] = Keyset!Value(id, terms[n].column)
  BY DEF Key
<1>2. \A id : \A n \in DOMAIN terms : \A m \in 1 .. n - 1 : Key(terms, id)[m] = Keyset!Value(id, terms[m].column)
  BY <1>1, TermsAre
<1>3. \A n \in DOMAIN terms :
        (\A m \in 1 .. n - 1 : Keyset!Value(i, terms[m].column) = Keyset!Value(j, terms[m].column))
          <=> (\A m \in 1 .. n - 1 : Key(terms, i)[m] = Key(terms, j)[m])
  BY <1>2
<1> QED BY <1>1, <1>3 DEF Keyset!Precedes, Less

\* Backwards is the other way round.
LEMMA LessBackwards ==
  ASSUME NEW terms \in Seq(Keyset!Term), NEW k \in Keys(terms), NEW l \in Keys(terms)
  PROVE  Less(terms, "backward", k, l) <=> Less(terms, "forward", l, k)
<1>1. \A n \in DOMAIN terms : Keyset!Sorts(k[n], l[n], Keyset!Directed(terms[n].direction, "backward"))
                               <=> Keyset!Sorts(l[n], k[n], Keyset!Directed(terms[n].direction, "forward"))
  <2> TAKE n \in DOMAIN terms
  <2>1. Keyset!Directed(terms[n].direction, "backward") = ~Keyset!Directed(terms[n].direction, "forward")
    BY DEF Keyset!Directed
  <2>2. k[n] \in Values /\ l[n] \in Values /\ Keyset!Directed(terms[n].direction, "forward") \in BOOLEAN
    BY TermsAre DEF Keys
  <2> QED BY <2>1, <2>2, SortsOrder
<1>2. \A n \in DOMAIN terms : (\A m \in 1 .. n - 1 : k[m] = l[m]) <=> (\A m \in 1 .. n - 1 : l[m] = k[m])
  OBVIOUS
<1> QED BY <1>1, <1>2 DEF Less

Present == {id \in RowId : table[id] # Absent}
TableIs == table \in [RowId -> Keyset!Row \cup {Absent}]

LEMMA KeyIs ==
  ASSUME TableIs, NEW terms \in TotalOrders, NEW id \in Present
  PROVE  /\ Key(terms, id) \in Keys(terms)
         /\ \A j \in Present : Key(terms, j) = Key(terms, id) => j = id
<1>1. terms \in Seq(Keyset!Term) /\ \E n \in DOMAIN terms : terms[n].column = "id"
  BY DEF TotalOrders, Keyset!HasTieBreaker
<1>2. table[id] \in Keyset!Row /\ table[id] # Absent /\ id \in Int
  BY RowsAssumption DEF TableIs, Present
<1>3. \A n \in DOMAIN terms : Keyset!Value(id, terms[n].column) \in Values
  BY <1>2 DEF Keyset!Value, Keyset!Row, Values
<1>4. Key(terms, id) \in Keys(terms)
  BY <1>3 DEF Key, Keys
<1>5. PICK n \in DOMAIN terms : terms[n].column = "id"
  BY <1>1
<1>6. \A j : Key(terms, j)[n] = j
  BY <1>5 DEF Key, Keyset!Value
<1> QED BY <1>4, <1>6

LEMMA PrecedesOrder ==
  ASSUME TableIs, NEW terms \in TotalOrders, NEW traversal
  PROVE  /\ \A i \in Present : ~Keyset!Precedes(terms, i, i, traversal)
         /\ \A i, j, k \in Present :
              Keyset!Precedes(terms, i, j, traversal) /\ Keyset!Precedes(terms, j, k, traversal)
                => Keyset!Precedes(terms, i, k, traversal)
         /\ \A i, j \in Present :
              i # j => Keyset!Precedes(terms, i, j, traversal) \/ Keyset!Precedes(terms, j, i, traversal)
         /\ \A i, j \in Present :
              Keyset!Precedes(terms, i, j, "backward") <=> Keyset!Precedes(terms, j, i, "forward")
<1>0. terms \in Seq(Keyset!Term)
  BY DEF TotalOrders
<1>1. \A i \in Present : ~Keyset!Precedes(terms, i, i, traversal)
  BY <1>0, KeyIs, PrecedesIsLess, LessIrreflexive
<1>2. ASSUME NEW i \in Present, NEW j \in Present, NEW k \in Present,
             Keyset!Precedes(terms, i, j, traversal), Keyset!Precedes(terms, j, k, traversal)
      PROVE  Keyset!Precedes(terms, i, k, traversal)
  <2>1. Less(terms, traversal, Key(terms, i), Key(terms, j)) /\ Less(terms, traversal, Key(terms, j), Key(terms, k))
    BY <1>0, <1>2, PrecedesIsLess
  <2>2. Less(terms, traversal, Key(terms, i), Key(terms, k))
    BY <1>0, <2>1, KeyIs, LessTransitive
  <2> QED BY <1>0, <2>2, PrecedesIsLess
<1>3. ASSUME NEW i \in Present, NEW j \in Present, i # j
      PROVE  Keyset!Precedes(terms, i, j, traversal) \/ Keyset!Precedes(terms, j, i, traversal)
  <2>1. Less(terms, traversal, Key(terms, i), Key(terms, j)) \/ Less(terms, traversal, Key(terms, j), Key(terms, i))
    BY <1>0, <1>3, KeyIs, LessTotal
  <2> QED BY <1>0, <2>1, PrecedesIsLess
<1>4. ASSUME NEW i \in Present, NEW j \in Present
      PROVE  Keyset!Precedes(terms, i, j, "backward") <=> Keyset!Precedes(terms, j, i, "forward")
  <2>1. Less(terms, "backward", Key(terms, i), Key(terms, j)) <=> Less(terms, "forward", Key(terms, j), Key(terms, i))
    BY <1>0, KeyIs, LessBackwards
  <2> QED BY <1>0, <2>1, PrecedesIsLess
<1> QED BY <1>1, <1>2, <1>3, <1>4

\* OrderBy lists each row once, in order.  What sorts before a row are the rows
\* at the places before it, so every place has a row.
LEMMA OrderByIs ==
  ASSUME TableIs, NEW terms \in TotalOrders, NEW traversal, NEW S \in SUBSET Present
  PROVE  LET o == Keyset!OrderBy(terms, S, traversal)
         IN  /\ Cardinality(S) \in Nat /\ Len(o) = Cardinality(S) /\ o \in [1 .. Cardinality(S) -> S] /\ o \in Seq(S)
             /\ \A a, b \in 1 .. Cardinality(S) : a < b <=> Keyset!Precedes(terms, o[a], o[b], traversal)
             /\ \A a, b \in 1 .. Cardinality(S) : o[a] = o[b] => a = b
             /\ \A i \in S : \E k \in 1 .. Cardinality(S) : o[k] = i
             /\ \A i \in S, k \in 1 .. Cardinality(S) :
                  Cardinality({j \in S : Keyset!Precedes(terms, j, i, traversal)}) = k - 1 => o[k] = i
<1> DEFINE n == Cardinality(S)
           o == Keyset!OrderBy(terms, S, traversal)
           before(i) == {j \in S : Keyset!Precedes(terms, j, i, traversal)}
           rank(i) == Cardinality(before(i))
           place == [i \in S |-> rank(i) + 1]
<1>1. IsFiniteSet(S) /\ n \in Nat
  BY RowsAssumption, FS_Subset, FS_CardinalityType DEF Present
<1>2. \A i, j \in S : /\ ~Keyset!Precedes(terms, i, i, traversal)
                      /\ i # j => Keyset!Precedes(terms, i, j, traversal) \/ Keyset!Precedes(terms, j, i, traversal)
  BY PrecedesOrder
<1>3. \A i \in S : before(i) \subseteq S \ {i}
  BY <1>2
<1>4. \A i \in S : rank(i) \in Nat /\ rank(i) < n
  <2> TAKE i \in S
  <2> HIDE DEF before
  <2>1. IsFiniteSet(S \ {i}) /\ Cardinality(S \ {i}) = n - 1
    BY <1>1, FS_RemoveElement
  <2>2. IsFiniteSet(before(i)) /\ Cardinality(before(i)) <= n - 1
    BY <1>3, <2>1, FS_Subset
  <2> QED BY <1>1, <2>2, FS_CardinalityType
<1>5. \A i, j \in S : Keyset!Precedes(terms, i, j, traversal) => rank(i) < rank(j)
  <2> SUFFICES ASSUME NEW i \in S, NEW j \in S, Keyset!Precedes(terms, i, j, traversal) PROVE rank(i) < rank(j)
    OBVIOUS
  <2>1. before(i) \subseteq before(j) /\ i \in before(j) /\ i \notin before(i)
    BY <1>2, PrecedesOrder
  <2>2. before(i) \subseteq before(j) \ {i} /\ before(j) \subseteq S
    BY <2>1
  <2> HIDE DEF before
  <2>3. IsFiniteSet(before(j))
    BY <1>1, <2>2, FS_Subset
  <2>4. IsFiniteSet(before(j) \ {i}) /\ Cardinality(before(j) \ {i}) = Cardinality(before(j)) - 1
    BY <2>1, <2>3, FS_RemoveElement
  <2>5. Cardinality(before(i)) <= Cardinality(before(j)) - 1
    BY <2>2, <2>4, FS_Subset
  <2> QED BY <1>4, <2>5
<1> HIDE DEF rank
<1>6. \A i, j \in S : rank(i) = rank(j) => i = j
  BY <1>2, <1>4, <1>5
<1>7. place \in Injection(S, 1 .. n)
  <2>1. \A i \in S : rank(i) + 1 \in 1 .. n
    BY <1>1, <1>4
  <2>2. place \in [S -> 1 .. n]
    BY <2>1
  <2>3. \A i, j \in S : place[i] = place[j] => i = j
    BY <1>4, <1>6
  <2> QED BY <2>2, <2>3 DEF Injection, IsInjective
<1>8. place \in Surjection(S, 1 .. n)
  <2>1. IsFiniteSet(1 .. n) /\ Cardinality(1 .. n) = n
    BY <1>1, FS_Interval
  <2> HIDE DEF place, n
  <2>2. Cardinality(S) = Cardinality(1 .. n)
    BY <2>1 DEF n
  <2> QED BY <1>7, <2>1, <2>2, FS_Injection
<1>9. \A k \in 1 .. n : \E i \in S : rank(i) = k - 1
  <2> TAKE k \in 1 .. n
  <2>1. PICK i \in S : place[i] = k
    BY <1>8 DEF Surjection
  <2> QED BY <1>1, <1>4, <2>1
<1>10. o = [k \in 1 .. n |-> CHOOSE i \in S : rank(i) = k - 1]
  BY DEF rank, Keyset!OrderBy, Keyset!Cardinality, Cardinality
<1> HIDE DEF o
<1>11. \A k \in 1 .. n : o[k] \in S /\ rank(o[k]) = k - 1
  BY <1>9, <1>10
<1>12. o \in [1 .. n -> S] /\ o \in Seq(S) /\ Len(o) = n
  BY <1>1, <1>10, <1>11
<1>13. \A i \in S, k \in 1 .. n : rank(i) = k - 1 => o[k] = i
  BY <1>6, <1>11
<1>14. \A i \in S : \E k \in 1 .. n : o[k] = i
  <2> TAKE i \in S
  <2>1. rank(i) + 1 \in 1 .. n /\ rank(i) = (rank(i) + 1) - 1
    BY <1>1, <1>4
  <2> QED BY <1>13, <2>1
<1>15. \A a, b \in 1 .. n : o[a] = o[b] => a = b
  BY <1>1, <1>11
<1>16. \A a, b \in 1 .. n : a < b <=> Keyset!Precedes(terms, o[a], o[b], traversal)
  <2> TAKE a, b \in 1 .. n
  <2>1. a \in Nat /\ b \in Nat
    BY <1>1
  <2>2. rank(o[a]) = a - 1 /\ rank(o[b]) = b - 1 /\ o[a] \in S /\ o[b] \in S
    BY <1>11
  <2>3. CASE a < b
    BY <1>2, <1>5, <2>1, <2>2, <2>3
  <2>4. CASE ~(a < b)
    BY <1>5, <2>1, <2>2, <2>4
  <2> QED BY <2>3, <2>4
<1> QED BY <1>1, <1>12, <1>13, <1>14, <1>15, <1>16 DEF o, rank

\* What is in order and leaves nothing out before it is where the list starts.
LEMMA StartOfList ==
  ASSUME TableIs, NEW terms \in TotalOrders, NEW traversal, NEW S \in SUBSET Present, NEW e \in Seq(S),
         \A a, b \in DOMAIN e : a < b => Keyset!Precedes(terms, e[a], e[b], traversal),
         \A i \in S, k \in DOMAIN e : Keyset!Precedes(terms, i, e[k], traversal) => \E m \in DOMAIN e : e[m] = i
  PROVE  /\ Len(e) <= Cardinality(S)
         /\ \A k \in 1 .. Len(e) : Keyset!OrderBy(terms, S, traversal)[k] = e[k]
<1> DEFINE n == Len(e)
           before(i) == {j \in S : Keyset!Precedes(terms, j, i, traversal)}
<1>0. IsFiniteSet(S) /\ Cardinality(S) \in Nat
  BY RowsAssumption, FS_Subset, FS_CardinalityType DEF Present
<1>1. n \in Nat /\ DOMAIN e = 1 .. n /\ \A k \in 1 .. n : e[k] \in S /\ k \in Nat
  OBVIOUS
<1> HIDE DEF n
<1>2. \A i \in S : ~Keyset!Precedes(terms, i, i, traversal)
  BY PrecedesOrder
<1>3. \A i, j \in S : ~(Keyset!Precedes(terms, i, j, traversal) /\ Keyset!Precedes(terms, j, i, traversal))
  BY PrecedesOrder
<1>4. \A a, b \in 1 .. n : e[a] = e[b] => a = b
  <2> TAKE a, b \in 1 .. n
  <2> QED BY <1>1, <1>2
<1>5. e \in [1 .. n -> S] /\ e \in Injection(1 .. n, S)
  BY <1>1, <1>4 DEF Injection, IsInjective
<1>6. IsFiniteSet(1 .. n) /\ Cardinality(1 .. n) = n
  BY <1>1, FS_Interval
<1>7. n <= Cardinality(S)
  BY <1>0, <1>1, <1>5, <1>6, FS_Injection
<1>9. ASSUME NEW k \in 1 .. n PROVE Cardinality(before(e[k])) = k - 1
  <2> DEFINE f == [m \in 1 .. k - 1 |-> e[m]]
  <2>1. k \in Nat /\ k - 1 \in Nat /\ \A m \in 1 .. k - 1 : m \in 1 .. n /\ m < k
    BY <1>1, <1>9
  <2>2. \A m \in 1 .. k - 1 : e[m] \in before(e[k])
    BY <1>1, <2>1
  <2>3. \A i \in before(e[k]) : \E m \in 1 .. k - 1 : e[m] = i
    <3> TAKE i \in before(e[k])
    <3>1. PICK m \in 1 .. n : e[m] = i
      BY <1>1
    <3>2. ~(k < m) /\ k # m
      BY <1>1, <1>2, <1>3, <3>1
    <3> QED BY <1>1, <2>1, <3>1, <3>2
  <2> HIDE DEF before
  <2>4. f \in [1 .. k - 1 -> before(e[k])]
    BY <2>2
  <2>5. \A a, b \in 1 .. k - 1 : f[a] = f[b] => a = b
    BY <1>4, <2>1
  <2>6. f \in Bijection(1 .. k - 1, before(e[k]))
    BY <2>3, <2>4, <2>5 DEF Bijection, Injection, IsInjective, Surjection
  <2>7. ExistsBijection(1 .. k - 1, before(e[k]))
    BY <2>6 DEF ExistsBijection
  <2> QED BY <2>1, <2>7, FS_CountingElements
<1>10. \A k \in 1 .. n : Keyset!OrderBy(terms, S, traversal)[k] = e[k]
  <2> TAKE k \in 1 .. n
  <2>1. k \in 1 .. Cardinality(S) /\ e[k] \in S
    BY <1>0, <1>1, <1>7
  <2>2. Cardinality({j \in S : Keyset!Precedes(terms, j, e[k], traversal)}) = k - 1
    BY <1>9
  <2>3. \A i \in S, l \in 1 .. Cardinality(S) :
          Cardinality({j \in S : Keyset!Precedes(terms, j, i, traversal)}) = l - 1
            => Keyset!OrderBy(terms, S, traversal)[l] = i
    BY OrderByIs
  <2> QED BY <2>1, <2>2, <2>3
<1> QED BY <1>1, <1>7, <1>10 DEF n

\* A sequence, or the other way round.
Way(traversal, s) == IF traversal = "forward" THEN s ELSE Keyset!Reverse(s)

LEMMA WayIs ==
  ASSUME NEW T, NEW s \in Seq(T), NEW traversal
  PROVE  /\ Way(traversal, s) \in Seq(T) /\ Len(Way(traversal, s)) = Len(s) /\ Len(s) \in Nat
         /\ \A k \in 1 .. Len(s) : /\ Len(s) + 1 - k \in 1 .. Len(s)
                                   /\ Way(traversal, s)[k] = s[IF traversal = "forward" THEN k ELSE Len(s) + 1 - k]
<1>1. Len(s) \in Nat /\ \A k \in 1 .. Len(s) : Len(s) + 1 - k \in 1 .. Len(s) /\ Len(s) - k + 1 = Len(s) + 1 - k /\ s[k] \in T
  OBVIOUS
<1>2. Keyset!Reverse(s) = [k \in 1 .. Len(s) |-> s[Len(s) - k + 1]]
  BY DEF Keyset!Reverse
<1>3. Keyset!Reverse(s) \in Seq(T) /\ Len(Keyset!Reverse(s)) = Len(s)
  BY <1>1, <1>2
<1>4. \A k \in 1 .. Len(s) : Keyset!Reverse(s)[k] = s[Len(s) + 1 - k]
  BY <1>1, <1>2
<1> QED BY <1>1, <1>3, <1>4 DEF Way

\* Read backwards, a list is the other way round.
LEMMA OrderByWay ==
  ASSUME TableIs, NEW terms \in TotalOrders, NEW traversal \in {"forward", "backward"}, NEW S \in SUBSET Present
  PROVE  Way(traversal, Keyset!OrderBy(terms, S, "forward")) = Keyset!OrderBy(terms, S, traversal)
<1>1. CASE traversal = "forward"
  BY <1>1 DEF Way
<1>2. CASE traversal = "backward"
  <2> DEFINE o == Keyset!OrderBy(terms, S, "forward")
             e == Way("backward", o)
             n == Cardinality(S)
  <2>1. /\ n \in Nat /\ Len(o) = n /\ o \in Seq(S)
        /\ \A a, b \in 1 .. n : a < b <=> Keyset!Precedes(terms, o[a], o[b], "forward")
        /\ \A i \in S : \E k \in 1 .. n : o[k] = i
    BY OrderByIs
  <2>2. Keyset!OrderBy(terms, S, "backward") \in [1 .. n -> S]
    BY OrderByIs
  <2> HIDE DEF o, n, e
  <2>a. e \in Seq(S) /\ Len(e) = Len(o) /\ \A k \in 1 .. Len(o) : Len(o) + 1 - k \in 1 .. Len(o) /\ e[k] = o[Len(o) + 1 - k]
    <3>1. o \in Seq(S)
      BY <2>1
    <3>2. /\ Way("backward", o) \in Seq(S) /\ Len(Way("backward", o)) = Len(o) /\ Len(o) \in Nat
          /\ \A k \in 1 .. Len(o) : /\ Len(o) + 1 - k \in 1 .. Len(o)
                                     /\ Way("backward", o)[k] = o[IF "backward" = "forward" THEN k ELSE Len(o) + 1 - k]
      BY <3>1, WayIs
    <3> QED BY <3>2 DEF e
  <2>3. e \in Seq(S) /\ Len(e) = n /\ DOMAIN e = 1 .. n /\ \A k \in 1 .. n : n + 1 - k \in 1 .. n /\ e[k] = o[n + 1 - k]
    BY <2>1, <2>a
  <2>4. \A a, b \in 1 .. n : a < b => Keyset!Precedes(terms, e[a], e[b], "backward")
    <3> SUFFICES ASSUME NEW a \in 1 .. n, NEW b \in 1 .. n, a < b PROVE Keyset!Precedes(terms, e[a], e[b], "backward")
      OBVIOUS
    <3>1. Keyset!Precedes(terms, o[n + 1 - b], o[n + 1 - a], "forward")
      <4>1. n + 1 - b \in 1 .. n /\ n + 1 - a \in 1 .. n /\ n + 1 - b < n + 1 - a
        BY <2>1
      <4>2. \A x, y \in 1 .. n : x < y => Keyset!Precedes(terms, o[x], o[y], "forward")
        BY <2>1
      <4> QED BY <4>1, <4>2
    <3>2. e[a] \in Present /\ e[b] \in Present
      BY <2>3
    <3> QED BY <2>3, <3>1, <3>2, PrecedesOrder
  <2>5. \A i \in S : \E k \in 1 .. n : e[k] = i
    <3> TAKE i \in S
    <3>1. PICK k \in 1 .. n : o[k] = i
      BY <2>1
    <3>2. e[n + 1 - k] = i
      BY <2>1, <2>3, <3>1
    <3> QED BY <2>3, <3>2
  <2>6. \A k \in 1 .. n : Keyset!OrderBy(terms, S, "backward")[k] = e[k]
    <3>1. \A i \in S, k \in DOMAIN e : Keyset!Precedes(terms, i, e[k], "backward") => \E m \in DOMAIN e : e[m] = i
      BY <2>3, <2>5
    <3>2. \A a, b \in DOMAIN e : a < b => Keyset!Precedes(terms, e[a], e[b], "backward")
      BY <2>3, <2>4
    <3>3. \A k \in 1 .. Len(e) : Keyset!OrderBy(terms, S, "backward")[k] = e[k]
      <4>1. \A f \in Seq(S) :
              /\ \A a, b \in DOMAIN f : a < b => Keyset!Precedes(terms, f[a], f[b], "backward")
              /\ \A i \in S, k \in DOMAIN f : Keyset!Precedes(terms, i, f[k], "backward") => \E m \in DOMAIN f : f[m] = i
              => \A k \in 1 .. Len(f) : Keyset!OrderBy(terms, S, "backward")[k] = f[k]
        BY StartOfList
      <4> QED BY <2>3, <3>1, <3>2, <4>1
    <3> QED BY <2>3, <3>3
  <2>7. e \in [1 .. n -> S]
    BY <2>3
  <2> DEFINE back == Keyset!OrderBy(terms, S, "backward")
  <2> HIDE DEF back
  <2>8. e = Keyset!OrderBy(terms, S, "backward")
    <3>1. back \in [1 .. n -> S] /\ \A k \in 1 .. n : back[k] = e[k]
      BY <2>2, <2>6 DEF back
    <3>2. back = [k \in 1 .. n |-> back[k]] /\ e = [k \in 1 .. n |-> e[k]]
      BY <2>7, <3>1
    <3>3. [k \in 1 .. n |-> back[k]] = [k \in 1 .. n |-> e[k]]
      BY <3>1
    <3>4. back = e
      BY <3>2, <3>3
    <3> QED BY <3>4 DEF back
  <2> QED BY <1>2, <2>8 DEF e, o
<1> QED BY <1>1, <1>2

\* A page joins what is there, on the side it was read from.
LEMMA ReverseJoins ==
  ASSUME NEW s \in Seq(RowId), NEW t \in Seq(RowId)
  PROVE  LET joined == Keyset!Reverse(t) \o s
         IN  /\ joined \in Seq(RowId) /\ Len(Keyset!Reverse(joined)) = Len(s) + Len(t)
             /\ \A k \in 1 .. Len(s) + Len(t) :
                  Keyset!Reverse(joined)[k] = IF k <= Len(s) THEN Keyset!Reverse(s)[k] ELSE t[k - Len(s)]
<1> DEFINE b == Keyset!Reverse(t)
           x == b \o s
           r == Keyset!Reverse(x)
<1>0. Len(s) \in Nat /\ Len(t) \in Nat
  OBVIOUS
<1>1. b = [k \in 1 .. Len(t) |-> t[Len(t) - k + 1]]
  BY DEF Keyset!Reverse
<1>2. \A k \in 1 .. Len(t) : Len(t) - k + 1 \in 1 .. Len(t) /\ t[k] \in RowId
  BY <1>0
<1>3. b \in Seq(RowId) /\ Len(b) = Len(t) /\ \A k \in 1 .. Len(t) : b[k] = t[Len(t) - k + 1]
  BY <1>0, <1>1, <1>2
<1> HIDE DEF b
<1>4. /\ x \in Seq(RowId) /\ Len(x) = Len(s) + Len(t)
      /\ \A k \in 1 .. Len(x) : x[k] = IF k <= Len(t) THEN b[k] ELSE s[k - Len(t)]
  <2>1. x \in Seq(RowId) /\ Len(x) = Len(b) + Len(s)
    BY <1>3, ConcatProperties
  <2>2. \A k \in 1 .. Len(b) + Len(s) : x[k] = IF k <= Len(b) THEN b[k] ELSE s[k - Len(b)]
    BY <1>3, ConcatProperties
  <2> QED BY <1>0, <1>3, <2>1, <2>2
<1>5. r = [k \in 1 .. Len(x) |-> x[Len(x) - k + 1]]
  BY DEF Keyset!Reverse
<1> HIDE DEF x
<1>6. Len(r) = Len(s) + Len(t)
  BY <1>0, <1>4, <1>5
<1>7. \A k \in 1 .. Len(s) + Len(t) : r[k] = x[Len(s) + Len(t) - k + 1] /\ Len(s) + Len(t) - k + 1 \in 1 .. Len(s) + Len(t)
  BY <1>0, <1>4, <1>5
<1>8. Keyset!Reverse(s) = [k \in 1 .. Len(s) |-> s[Len(s) - k + 1]]
  BY DEF Keyset!Reverse
<1> HIDE DEF r
<1>9. ASSUME NEW k \in 1 .. Len(s) + Len(t) PROVE r[k] = IF k <= Len(s) THEN Keyset!Reverse(s)[k] ELSE t[k - Len(s)]
  <2> DEFINE l == Len(s) + Len(t) - k + 1
  <2>1. r[k] = x[l] /\ l \in 1 .. Len(x) /\ k \in Nat
    BY <1>0, <1>4, <1>7
  <2>2. CASE k <= Len(s)
    <3>1. ~(l <= Len(t)) /\ l - Len(t) = Len(s) - k + 1 /\ k \in 1 .. Len(s)
      BY <1>0, <2>1, <2>2
    <3>2. x[l] = s[l - Len(t)]
      BY <1>4, <2>1, <3>1
    <3> QED BY <1>8, <2>1, <2>2, <3>1, <3>2
  <2>3. CASE ~(k <= Len(s))
    <3>1. l <= Len(t) /\ l \in 1 .. Len(t) /\ Len(t) - l + 1 = k - Len(s)
      BY <1>0, <2>1, <2>3
    <3>2. x[l] = b[l] /\ b[l] = t[Len(t) - l + 1]
      BY <1>3, <1>4, <2>1, <3>1
    <3> QED BY <2>1, <2>3, <3>1, <3>2
  <2> QED BY <2>2, <2>3
<1> QED BY <1>4, <1>6, <1>9 DEF x, r, b

Among(s, id) == \E k \in 1 .. Len(s) : s[k] = id

\* What was read of the list S in the order R, of which the rows in U were
\* left alone: they are in order and belong to it; nothing more is to come, or
\* all that is to come sorts after the last.
Sound(R, S, U, s, more) ==
  /\ \A a, b \in 1 .. Len(s) : a < b /\ s[a] \in U /\ s[b] \in U => <<s[a], s[b]>> \in R
  /\ \A k \in 1 .. Len(s) : s[k] \in U => s[k] \in S
  /\ ~more => \A id \in S \cap U : Among(s, id)
  /\ more /\ Len(s) > 0 /\ s[Len(s)] \in U =>
       \A id \in S \cap U : Among(s, id) <=> <<s[Len(s)], id>> \notin R

\* It stays so for those that are still left alone.
LEMMA SoundShrinks ==
  ASSUME NEW R, NEW Q, NEW S, NEW Z, NEW U, NEW V \in SUBSET U, NEW s, NEW more, Sound(R, S, U, s, more),
         S \cap V = Z \cap V, \A i, j \in V : <<i, j>> \in R <=> <<i, j>> \in Q
  PROVE  Sound(Q, Z, V, s, more)
BY DEF Sound

Most(n, size) == IF n > size THEN size ELSE n
Follows(s, rows, next, most) ==
  /\ Len(next) = Len(s) + most
  /\ \A k \in 1 .. Len(next) : next[k] = IF k <= Len(s) THEN s[k] ELSE rows[k - Len(s)]

\* The next page of the rows B beyond what was read keeps it so.
LEMMA PageIsSound ==
  ASSUME TableIs, NEW terms \in TotalOrders, NEW traversal, NEW R,
         \A i, j \in Present : <<i, j>> \in R <=> Keyset!Precedes(terms, i, j, traversal),
         NEW S \in SUBSET Present, NEW U, NEW B \in SUBSET S, NEW s \in Seq(RowId), NEW more, Sound(R, S, U, s, more),
         \A id \in S \cap U : Among(s, id) <=> id \notin B,
         \A i \in S \ B, j \in B : <<i, j>> \in R,
         NEW size \in Nat, Len(s) > 0 => size > 0,
         NEW next \in Seq(RowId), Follows(s, Keyset!OrderBy(terms, B, traversal), next, Most(Cardinality(B), size)),
         NEW further, further = (Cardinality(B) > size)
  PROVE  /\ Sound(R, S, U, next, further)
         /\ Len(next) > 0 => size > 0
         /\ further /\ S \subseteq U => \E id \in S : ~Among(next, id)
<1> DEFINE rows == Keyset!OrderBy(terms, B, traversal)
           n == Cardinality(B)
           most == Most(n, size)
           Pre(i, j) == <<i, j>> \in R
<1>1. /\ n \in Nat /\ \A k \in 1 .. n : rows[k] \in B
      /\ \A a, b \in 1 .. n : a < b <=> Pre(rows[a], rows[b])
      /\ \A a, b \in 1 .. n : rows[a] = rows[b] => a = b
      /\ \A i \in B : \E k \in 1 .. n : rows[k] = i
  <2>1. /\ n \in Nat /\ \A k \in 1 .. n : rows[k] \in B
        /\ \A a, b \in 1 .. n : a < b <=> Keyset!Precedes(terms, rows[a], rows[b], traversal)
        /\ \A a, b \in 1 .. n : rows[a] = rows[b] => a = b
        /\ \A i \in B : \E k \in 1 .. n : rows[k] = i
    BY OrderByIs
  <2> HIDE DEF rows, n
  <2> QED BY <2>1
<1>2. /\ \A i \in S : ~Pre(i, i)
      /\ \A i, j \in S : ~(Pre(i, j) /\ Pre(j, i))
  BY PrecedesOrder
<1>a. most \in Nat /\ most <= n /\ most <= size /\ (~(n > size) => most = n) /\ (n > size => most = size)
  BY <1>1 DEF Most
<1>d. Len(next) = Len(s) + most /\ \A k \in 1 .. Len(next) : next[k] = IF k <= Len(s) THEN s[k] ELSE rows[k - Len(s)]
  BY DEF Follows
<1> HIDE DEF most, rows, n
<1>b. /\ \A k \in 1 .. Len(s) : k \in 1 .. Len(next) /\ next[k] = s[k]
      /\ \A k \in 1 .. most : Len(s) + k \in 1 .. Len(next) /\ next[Len(s) + k] = rows[k] /\ k \in 1 .. n
      /\ \A k \in 1 .. Len(next) : k \in 1 .. Len(s) \/ \E l \in 1 .. most : k = Len(s) + l
      /\ Len(s) \in Nat /\ Len(next) \in Nat
  <2>1. Len(s) \in Nat /\ Len(next) \in Nat /\ Len(next) = Len(s) + most
    BY <1>d
  <2>2. \A k \in 1 .. Len(s) : k \in 1 .. Len(next) /\ next[k] = s[k]
    BY <1>a, <1>d, <2>1
  <2>3. \A k \in 1 .. most : Len(s) + k \in 1 .. Len(next) /\ next[Len(s) + k] = rows[k] /\ k \in 1 .. n
    <3> TAKE k \in 1 .. most
    <3>1. Len(s) + k \in 1 .. Len(next) /\ ~(Len(s) + k <= Len(s)) /\ (Len(s) + k) - Len(s) = k /\ k \in 1 .. n
      BY <1>1, <1>a, <2>1
    <3> QED BY <1>d, <3>1
  <2>4. ASSUME NEW k \in 1 .. Len(next) PROVE k \in 1 .. Len(s) \/ \E l \in 1 .. most : k = Len(s) + l
    <3>1. CASE k <= Len(s)
      BY <2>1, <3>1
    <3>2. CASE ~(k <= Len(s))
      <4>1. k - Len(s) \in 1 .. most /\ k = Len(s) + (k - Len(s))
        BY <1>a, <2>1, <3>2
      <4> QED BY <4>1
    <3> QED BY <3>1, <3>2
  <2> QED BY <2>1, <2>2, <2>3, <2>4
<1>c. \A k \in 1 .. Len(s) : s[k] \in U => s[k] \in S \ B
  BY DEF Sound, Among
<1> HIDE DEF Pre
<1>3. ASSUME NEW a \in 1 .. Len(next), NEW b \in 1 .. Len(next), a < b, next[a] \in U, next[b] \in U PROVE Pre(next[a], next[b])
  <2>1. CASE b \in 1 .. Len(s)
    <3>1. a \in 1 .. Len(s)
      BY <1>3, <1>b, <2>1
    <3>2. s[a] = next[a] /\ s[b] = next[b]
      BY <1>b, <2>1, <3>1
    <3> QED BY <1>3, <2>1, <3>1, <3>2 DEF Sound, Pre
  <2>2. CASE b \notin 1 .. Len(s)
    <3>1. PICK l \in 1 .. most : b = Len(s) + l
      BY <1>b, <2>2
    <3>2. next[b] = rows[l] /\ rows[l] \in B /\ l \in 1 .. n
      BY <1>1, <1>b, <3>1
    <3>3. CASE a \in 1 .. Len(s)
      <4>1. next[a] \in S \ B
        BY <1>3, <1>b, <1>c, <3>3
      <4> QED BY <3>2, <4>1 DEF Pre
    <3>4. CASE a \notin 1 .. Len(s)
      <4>1. PICK m \in 1 .. most : a = Len(s) + m
        BY <1>b, <3>4
      <4>2. next[a] = rows[m] /\ m \in 1 .. n /\ m < l
        <5>1. m \in Nat /\ l \in Nat /\ Len(s) \in Nat
          BY <1>a, <1>b
        <5>2. m < l
          BY <1>3, <3>1, <4>1, <5>1
        <5> QED BY <1>b, <4>1, <5>2
      <4> QED BY <1>1, <3>2, <4>2
    <3> QED BY <3>3, <3>4
  <2> QED BY <2>1, <2>2
<1>4. \A k \in 1 .. Len(next) : next[k] \in U => next[k] \in S
  <2> TAKE k \in 1 .. Len(next)
  <2>1. CASE k \in 1 .. Len(s)
    BY <1>b, <1>c, <2>1
  <2>2. CASE k \notin 1 .. Len(s)
    <3>1. PICK l \in 1 .. most : k = Len(s) + l
      BY <1>b, <2>2
    <3> QED BY <1>1, <1>b, <3>1
  <2> QED BY <2>1, <2>2
<1>5. \A id \in S \cap U : Among(next, id) <=> (id \notin B \/ \E k \in 1 .. most : rows[k] = id)
  <2> TAKE id \in S \cap U
  <2>1. Among(next, id) => id \notin B \/ \E k \in 1 .. most : rows[k] = id
    <3> SUFFICES ASSUME NEW k \in 1 .. Len(next), next[k] = id PROVE id \notin B \/ \E l \in 1 .. most : rows[l] = id
      BY DEF Among
    <3>1. CASE k \in 1 .. Len(s)
      BY <1>b, <1>c, <3>1
    <3>2. CASE k \notin 1 .. Len(s)
      <4>1. PICK l \in 1 .. most : k = Len(s) + l
        BY <1>b, <3>2
      <4> QED BY <1>b, <4>1
    <3> QED BY <3>1, <3>2
  <2>2. id \notin B => Among(next, id)
    BY <1>b DEF Among
  <2>3. (\E k \in 1 .. most : rows[k] = id) => Among(next, id)
    BY <1>b DEF Among
  <2> QED BY <2>1, <2>2, <2>3
<1>6. ~(n > size) => \A id \in S \cap U : Among(next, id)
  BY <1>1, <1>5, <1>a
<1>7. Len(next) > 0 => size > 0
  BY <1>a, <1>b, <1>d
<1>8. ASSUME n > size, Len(next) > 0, next[Len(next)] \in U, NEW id \in S \cap U
      PROVE  Among(next, id) <=> ~Pre(next[Len(next)], id)
  <2>1. most = size /\ size > 0 /\ most \in 1 .. most /\ Len(next) = Len(s) + most
    BY <1>7, <1>8, <1>a, <1>d
  <2>2. next[Len(next)] = rows[most] /\ rows[most] \in B /\ most \in 1 .. n
    BY <1>1, <1>b, <2>1
  <2>3. CASE id \notin B
    <3>1. Pre(id, rows[most])
      BY <2>2, <2>3 DEF Pre
    <3>2. ~Pre(rows[most], id)
      BY <1>2, <2>2, <3>1
    <3> QED BY <1>5, <2>2, <2>3, <3>2
  <2>4. CASE id \in B
    <3>1. PICK k \in 1 .. n : rows[k] = id
      BY <1>1, <2>4
    <3>2. k <= most <=> ~Pre(rows[most], id)
      <4>1. k \in Nat /\ most \in Nat
        BY <1>1, <1>a
      <4> QED BY <1>1, <2>2, <3>1, <4>1
    <3>3. (\E l \in 1 .. most : rows[l] = id) <=> k <= most
      <4>1. k <= most => k \in 1 .. most
        BY <1>1, <1>a
      <4>2. \A l \in 1 .. most : l \in 1 .. n /\ l <= most
        BY <1>b, <1>a
      <4> QED BY <1>1, <3>1, <4>1, <4>2
    <3> QED BY <1>5, <2>2, <2>4, <3>2, <3>3
  <2> QED BY <2>3, <2>4
<1>9. ASSUME n > size, S \subseteq U PROVE \E id \in S : ~Among(next, id)
  <2>1. size + 1 \in 1 .. n /\ \A l \in 1 .. most : l # size + 1 /\ l \in 1 .. n
    BY <1>1, <1>9, <1>a
  <2>2. rows[size + 1] \in B /\ \A l \in 1 .. most : rows[l] # rows[size + 1]
    BY <1>1, <2>1
  <2>3. rows[size + 1] \in S \cap U
    BY <1>9, <2>2
  <2> QED BY <1>5, <2>2, <2>3
<1> QED BY <1>3, <1>4, <1>6, <1>7, <1>8, <1>9 DEF Sound, Pre, n

Lists == IF reading.kind = "query" THEN {"all"} ELSE Parent
ReadingsOf(lists) ==
  [kind : {"query", "relation"}, order : Seq(Keyset!Term), traversal : {"forward", "backward"}, size : Nat,
   asked : SUBSET lists, cursor : RowId \cup {Absent}, values : Seq(Values),
   phase : {"page", "count", "idle", "cursor", "failed"},
   seen : [lists -> Seq(RowId)], more : [lists -> BOOLEAN], counts : [lists -> Nat],
   touched : SUBSET RowId, drifted : BOOLEAN, edits : Nat]

Terms     == Keyset!TermsOf(reading.kind, reading.order)
Untouched == RowId \ reading.touched
List(q)   == Keyset!Members(reading, q)
Have(q)   == Way(reading.traversal, reading.seen[q])
Before    == {p \in RowId \X RowId : Keyset!Precedes(Terms, p[1], p[2], reading.traversal)}
Past      == {id \in RowId : Keyset!KeysetWhere(Terms, id, reading.values, reading.traversal)}
Ahead(q)  == {id \in List(q) : reading.cursor = Absent \/ id \in Past}
First     == reading.cursor = Absent

ListInv(q) ==
  /\ ~reading.drifted => Sound(Before, List(q), Untouched, Have(q), reading.more[q])
  /\ ~reading.drifted /\ reading.phase = "page" /\ q \in reading.asked /\ ~First =>
       reading.values \in Keys(Terms) /\ \A id \in List(q) \cap Untouched : Among(Have(q), id) <=> id \notin Past
  /\ reading.phase = "page" /\ First => q \in reading.asked /\ Len(Have(q)) = 0
  /\ reading.phase = "count" /\ First => q \in reading.asked
  /\ reading.phase = "cursor" /\ q \in reading.asked =>
       reading.more[q] /\ Len(Have(q)) > 0 /\ reading.cursor = Have(q)[Len(Have(q))]
  /\ Len(Have(q)) > 0 => reading.size > 0
  /\ reading.touched = {} /\ reading.more[q] /\ ~(reading.phase = "page" /\ First) => \E id \in List(q) : ~Among(Have(q), id)
  /\ reading.kind = "relation" /\ reading.touched = {} /\ ~(reading.phase \in {"page", "count"} /\ First) =>
       reading.counts[q] = Cardinality(List(q))

KeysetInv ==
  /\ TableIs
  /\ reading \in ReadingsOf(Lists)
  /\ reading.kind = "query" => Keyset!HasTieBreaker(reading.order)
  /\ reading.drifted => reading.touched # {}
  /\ reading.phase = "cursor" => ~First
  /\ \A q \in Lists : ListInv(q)

LEMMA TermsOfIs ==
  ASSUME NEW kind, NEW order \in Seq(Keyset!Term), kind = "query" => Keyset!HasTieBreaker(order)
  PROVE  Keyset!TermsOf(kind, order) \in TotalOrders
<1>1. CASE Keyset!HasTieBreaker(order)
  BY <1>1 DEF Keyset!TermsOf, TotalOrders
<1>2. CASE ~Keyset!HasTieBreaker(order)
  <2> DEFINE t == [column |-> "id", direction |-> "asc"]
  <2>1. t \in Keyset!Term
    BY DEF Keyset!Term
  <2> HIDE DEF t
  <2>2. Append(order, t) \in Seq(Keyset!Term) /\ Len(order) + 1 \in DOMAIN Append(order, t) /\ Append(order, t)[Len(order) + 1] = t
    BY <2>1
  <2>3. Append(order, t)[Len(order) + 1].column = "id"
    BY <2>2 DEF t
  <2>4. Append(order, t) \in TotalOrders
    BY <2>2, <2>3 DEF TotalOrders, Keyset!HasTieBreaker
  <2> QED BY <1>2, <2>4 DEF Keyset!TermsOf, t
<1> QED BY <1>1, <1>2

LEMMA ReadingIs ==
  ASSUME KeysetInv
  PROVE  /\ Terms \in TotalOrders
         /\ \A i, j \in Present : <<i, j>> \in Before <=> Keyset!Precedes(Terms, i, j, reading.traversal)
         /\ \A q \in Lists : /\ List(q) \in SUBSET Present /\ List(q) \subseteq RowId /\ Ahead(q) \in SUBSET List(q)
                             /\ reading.seen[q] \in Seq(RowId) /\ Have(q) \in Seq(RowId) /\ Len(Have(q)) \in Nat
                             /\ Len(Have(q)) = Len(reading.seen[q])
<1>1. Terms \in TotalOrders
  BY TermsOfIs DEF KeysetInv, ReadingsOf, Terms
<1>2. \A i, j \in Present : <<i, j>> \in Before <=> Keyset!Precedes(Terms, i, j, reading.traversal)
  BY DEF Before, Present
<1>3. \A q : List(q) \in SUBSET Present /\ List(q) \subseteq RowId /\ Ahead(q) \in SUBSET List(q)
  BY DEF List, Ahead, Keyset!Members, Keyset!Selected, Present
<1>4. \A q \in Lists : reading.seen[q] \in Seq(RowId)
  BY DEF KeysetInv, ReadingsOf
<1>5. \A q \in Lists : Have(q) \in Seq(RowId) /\ Len(Have(q)) = Len(reading.seen[q])
  BY <1>4, WayIs DEF Have
<1>6. \A q \in Lists : Len(Have(q)) \in Nat
  BY <1>5
<1> QED BY <1>1, <1>2, <1>3, <1>4, <1>5, <1>6

\* While nobody writes, what a list is does not change.
LEMMA NothingMoves ==
  ASSUME KeysetInv, table' = table, reading'.kind = reading.kind, reading'.order = reading.order,
         reading'.traversal = reading.traversal
  PROVE  /\ Lists' = Lists /\ Terms' = Terms /\ Before' = Before /\ TableIs' /\ \A q : List(q)' = List(q)
         /\ reading'.values = reading.values => Past' = Past
         /\ \A q \in Lists : reading'.seen[q] = reading.seen[q] => Have(q)' = Have(q)
         /\ \A terms, id : Key(terms, id)' = Key(terms, id)
<1>1. Lists' = Lists /\ TableIs'
  BY DEF Lists, TableIs, KeysetInv
<1>2. Terms' = Terms
  BY DEF Terms
<1>3. \A i, j : Keyset!Precedes(Terms, i, j, reading.traversal)' <=> Keyset!Precedes(Terms, i, j, reading.traversal)
  BY <1>2 DEF Keyset!Precedes, Keyset!Value
<1>4. Before' = Before
  BY <1>3 DEF Before
<1>5. \A q : List(q)' = List(q)
  BY DEF List, Keyset!Members, Keyset!Selected, Keyset!Of
<1>6. ASSUME reading'.values = reading.values PROVE Past' = Past
  <2>1. \A id : Keyset!KeysetWhere(Terms, id, reading.values, reading.traversal)'
                  <=> Keyset!KeysetWhere(Terms, id, reading.values, reading.traversal)
    BY <1>2, <1>6 DEF Keyset!KeysetWhere, Keyset!Value
  <2> QED BY <2>1 DEF Past
<1>7. \A q \in Lists : reading'.seen[q] = reading.seen[q] => Have(q)' = Have(q)
  BY DEF Have
<1>8. \A terms, id : Key(terms, id)' = Key(terms, id)
  BY DEF Key, Keyset!Value
<1> QED BY <1>1, <1>2, <1>4, <1>5, <1>6, <1>7, <1>8

\* What is past a cursor's values sorts after what is not.
LEMMA AheadIsAfter ==
  ASSUME KeysetInv, NEW q \in Lists, First \/ reading.values \in Keys(Terms),
         NEW i \in List(q) \ Ahead(q), NEW j \in Ahead(q)
  PROVE  <<i, j>> \in Before
<1> DEFINE way == reading.traversal
           at == reading.values
<1>1. ~First /\ i \notin Past /\ j \in Past /\ i \in Present /\ j \in Present /\ i \in RowId /\ j \in RowId
  BY ReadingIs DEF Ahead, First
<1>2. Terms \in TotalOrders /\ Terms \in Seq(Keyset!Term) /\ TableIs
  BY ReadingIs DEF TotalOrders, KeysetInv
<1>3. at \in Keys(Terms) /\ Key(Terms, i) \in Keys(Terms) /\ Key(Terms, j) \in Keys(Terms)
  BY <1>1, <1>2, KeyIs
<1>4. ~Less(Terms, way, at, Key(Terms, i)) /\ Less(Terms, way, at, Key(Terms, j))
  BY <1>1, <1>2, WhereIsLess DEF Past
<1> HIDE DEF way, at
<1>5. Key(Terms, i) = at \/ Less(Terms, way, Key(Terms, i), at)
  BY <1>2, <1>3, <1>4, LessTotal
<1>6. Less(Terms, way, Key(Terms, i), Key(Terms, j))
  BY <1>2, <1>3, <1>4, <1>5, LessTransitive
<1>7. Keyset!Precedes(Terms, i, j, way)
  BY <1>2, <1>6, PrecedesIsLess
<1> QED BY <1>1, <1>7, ReadingIs DEF way

\* What a page adds to a list it was asked for.
LEMMA PageAdds ==
  ASSUME KeysetInv, Keyset!ReadPage, NEW q \in Lists, q \in reading.asked
  PROVE  LET n == Cardinality(Ahead(q))
             rows == Keyset!OrderBy(Terms, Ahead(q), reading.traversal)
             most == Most(n, reading.size)
         IN  /\ reading'.seen[q] \in Seq(RowId) /\ reading'.more[q] = (n > reading.size)
             /\ Have(q)' \in Seq(RowId) /\ Follows(Have(q), rows, Have(q)', most)
<1> DEFINE n == Cardinality(Ahead(q))
           rows == Keyset!OrderBy(Terms, Ahead(q), reading.traversal)
           most == Most(n, reading.size)
           refs == SubSeq(rows, 1, most)
           s == reading.seen[q]
           joined == IF reading.traversal = "forward" THEN s \o refs ELSE Keyset!Reverse(refs) \o s
<1>1. TableIs /\ Terms \in TotalOrders /\ Ahead(q) \in SUBSET Present /\ Ahead(q) \subseteq RowId
      /\ s \in Seq(RowId) /\ Len(Have(q)) = Len(s)
  BY ReadingIs DEF KeysetInv
<1>2. n \in Nat /\ Len(rows) = n /\ rows \in Seq(Ahead(q))
  BY <1>1, OrderByIs
<1>3. rows = Keyset!Beyond(reading, q)
  BY DEF Keyset!Beyond, Ahead, Past, List, Terms, Keyset!Members
<1>4. reading \in ReadingsOf(Lists)
  BY DEF KeysetInv
<1>5. reading.size \in Nat /\ q \in DOMAIN reading.seen /\ q \in DOMAIN reading.more
  BY <1>4 DEF ReadingsOf
<1>6. most \in Nat /\ most <= n /\ refs \in Seq(Ahead(q)) /\ Len(refs) = most /\ \A k \in 1 .. most : refs[k] = rows[k]
  <2>1. most \in Nat /\ most <= n
    BY <1>2, <1>5 DEF Most
  <2> HIDE DEF most, rows, n
  <2> QED BY <1>2, <2>1, SubSeqProperties
<1>7. refs \in Seq(RowId)
  BY <1>1, <1>6
<1> DEFINE beyond == Keyset!Beyond(reading, q)
           part == SubSeq(beyond, 1, IF Len(beyond) > reading.size THEN reading.size ELSE Len(beyond))
<1>8. /\ reading'.traversal = reading.traversal
      /\ reading'.seen[q] = IF reading.traversal = "forward" THEN s \o part ELSE Keyset!Reverse(part) \o s
      /\ reading'.more[q] = (Len(beyond) > reading.size)
  BY <1>4, <1>5 DEF Keyset!ReadPage, ReadingsOf
<1>9. part = refs
  BY <1>2, <1>3 DEF Most
<1> HIDE DEF part, refs, rows, n, most
<1>10. reading'.seen[q] = joined
  BY <1>8, <1>9
<1>11. /\ joined \in Seq(RowId) /\ Len(Way(reading.traversal, joined)) = Len(s) + Len(refs)
       /\ \A k \in 1 .. Len(s) + Len(refs) :
            Way(reading.traversal, joined)[k] = IF k <= Len(s) THEN Way(reading.traversal, s)[k] ELSE refs[k - Len(s)]
  <2> HIDE DEF s
  <2>1. s \in Seq(RowId) /\ refs \in Seq(RowId) /\ Len(s) \in Nat /\ Len(refs) \in Nat
    BY <1>1, <1>6, <1>7
  <2>2. CASE reading.traversal = "forward"
    <3>1. joined = s \o refs /\ Way(reading.traversal, joined) = joined /\ Way(reading.traversal, s) = s
      BY <2>2 DEF Way
    <3> HIDE DEF joined
    <3> QED BY <2>1, <3>1, ConcatProperties
  <2>3. CASE reading.traversal # "forward"
    <3>1. /\ joined = Keyset!Reverse(refs) \o s
          /\ Way(reading.traversal, joined) = Keyset!Reverse(joined) /\ Way(reading.traversal, s) = Keyset!Reverse(s)
      BY <2>3 DEF Way
    <3> HIDE DEF joined
    <3> QED BY <2>1, <3>1, ReverseJoins
  <2> QED BY <2>2, <2>3
<1>12. Way(reading.traversal, joined) \in Seq(RowId)
  BY <1>11, WayIs
<1> HIDE DEF joined
<1>13. Have(q)' = Way(reading.traversal, joined) /\ Have(q) = Way(reading.traversal, s)
  BY <1>8, <1>10 DEF Have
<1>14. ASSUME NEW k \in 1 .. Len(Have(q)') PROVE Have(q)'[k] = IF k <= Len(Have(q)) THEN Have(q)[k] ELSE rows[k - Len(Have(q))]
  <2>1. k \in 1 .. Len(s) + most /\ Len(s) \in Nat /\ most \in Nat
    BY <1>1, <1>6, <1>11, <1>13
  <2>2. k <= Len(s) \/ k - Len(s) \in 1 .. most
    BY <2>1
  <2> QED BY <1>1, <1>6, <1>11, <1>13, <2>1, <2>2
<1>15. Len(Have(q)') = Len(Have(q)) + most
  BY <1>1, <1>6, <1>11, <1>13
<1>16. Follows(Have(q), rows, Have(q)', most)
  BY <1>14, <1>15 DEF Follows
<1> QED BY <1>1, <1>2, <1>3, <1>8, <1>10, <1>11, <1>12, <1>13, <1>16 DEF n, rows, most

LEMMA PageReads ==
  ASSUME KeysetInv, Keyset!ReadPage
  PROVE  /\ reading.phase = "page" /\ reading'.phase = (IF reading.kind = "relation" THEN "count" ELSE "idle")
         /\ table' = table
         /\ reading' = [reading EXCEPT !.phase = reading'.phase, !.seen = reading'.seen, !.more = reading'.more]
         /\ reading'.seen = [q \in Lists |-> reading'.seen[q]] /\ reading'.more = [q \in Lists |-> reading'.more[q]]
         /\ \A q \in Lists : q \notin reading.asked => reading'.seen[q] = reading.seen[q] /\ reading'.more[q] = reading.more[q]
<1>1. reading \in ReadingsOf(Lists)
  BY DEF KeysetInv
<1> QED BY <1>1 DEF Keyset!ReadPage, ReadingsOf

LEMMA PageKeepsFields ==
  ASSUME KeysetInv, Keyset!ReadPage
  PROVE  /\ reading'.kind = reading.kind /\ reading'.order = reading.order /\ reading'.traversal = reading.traversal
         /\ reading'.size = reading.size /\ reading'.asked = reading.asked /\ reading'.cursor = reading.cursor
         /\ reading'.values = reading.values /\ reading'.counts = reading.counts /\ reading'.touched = reading.touched
         /\ reading'.drifted = reading.drifted /\ reading'.edits = reading.edits
<1>1. reading \in ReadingsOf(Lists)
  BY DEF KeysetInv
<1>2. reading' = [reading EXCEPT !.phase = reading'.phase, !.seen = reading'.seen, !.more = reading'.more]
  BY PageReads
<1> QED BY <1>1, <1>2 DEF ReadingsOf

LEMMA PageKeepsType ==
  ASSUME KeysetInv, Keyset!ReadPage
  PROVE  reading' \in ReadingsOf(Lists)'
<1>1. Lists' = Lists
  BY PageKeepsFields DEF Lists
<1>2. \A q \in Lists : reading'.seen[q] \in Seq(RowId)
  <2> TAKE q \in Lists
  <2>1. CASE q \in reading.asked
    BY <2>1, PageAdds
  <2>2. CASE q \notin reading.asked
    BY <2>2, PageReads, ReadingIs
  <2> QED BY <2>1, <2>2
<1>3. \A q \in Lists : reading'.more[q] \in BOOLEAN
  <2> TAKE q \in Lists
  <2>1. CASE q \in reading.asked
    <3>1. reading'.more[q] = (Cardinality(Ahead(q)) > reading.size)
      BY <2>1, PageAdds
    <3> QED BY <3>1
  <2>2. CASE q \notin reading.asked
    BY <2>2, PageReads DEF KeysetInv, ReadingsOf
  <2> QED BY <2>1, <2>2
<1>4. reading \in ReadingsOf(Lists)
  BY DEF KeysetInv
<1>5. reading'.seen \in [Lists -> Seq(RowId)] /\ reading'.more \in [Lists -> BOOLEAN]
  BY <1>2, <1>3, PageReads
<1>6. reading'.phase \in {"count", "idle"}
  BY PageReads
<1>7. reading' = [reading EXCEPT !.phase = reading'.phase, !.seen = reading'.seen, !.more = reading'.more]
  BY PageReads
<1> QED BY <1>1, <1>4, <1>5, <1>6, <1>7 DEF ReadingsOf

LEMMA PageKeepsList ==
  ASSUME KeysetInv, Keyset!ReadPage, NEW q \in Lists
  PROVE  ListInv(q)'
<1>1. /\ reading.phase = "page" /\ reading'.phase # "page" /\ reading'.phase # "cursor"
      /\ reading'.phase = "count" => reading.kind = "relation"
      /\ First' = First /\ Untouched' = Untouched /\ List(q)' = List(q) /\ Before' = Before /\ ListInv(q)
  BY PageReads, PageKeepsFields, NothingMoves DEF First, Untouched, KeysetInv
<1>2. ~reading.drifted \/ reading.touched # {}
  BY DEF KeysetInv
<1>f. reading.size \in Nat /\ Len(Have(q)) \in Nat /\ Have(q) \in Seq(RowId) /\ TableIs /\ Terms \in TotalOrders
      /\ List(q) \in SUBSET Present /\ Ahead(q) \in SUBSET List(q) /\ List(q) \subseteq RowId
      /\ \A i, j \in Present : <<i, j>> \in Before <=> Keyset!Precedes(Terms, i, j, reading.traversal)
  BY ReadingIs DEF KeysetInv, ReadingsOf
<1>3. CASE q \notin reading.asked
  <2>1. Have(q)' = Have(q) /\ reading'.more[q] = reading.more[q] /\ ~First
    BY <1>1, <1>3, PageReads, PageKeepsFields, NothingMoves DEF ListInv
  <2> QED BY <1>1, <2>1, PageKeepsFields DEF ListInv
<1>4. CASE q \in reading.asked
  <2> DEFINE n == Cardinality(Ahead(q))
             most == Most(n, reading.size)
  <2>1. Have(q)' \in Seq(RowId) /\ Follows(Have(q), Keyset!OrderBy(Terms, Ahead(q), reading.traversal), Have(q)', most)
    BY <1>4, PageAdds
  <2>7. reading'.more[q] = (Cardinality(Ahead(q)) > reading.size)
    BY <1>4, PageAdds
  <2>2. n \in Nat /\ most \in Nat /\ most <= reading.size /\ most = IF n > reading.size THEN reading.size ELSE n
    <3>1. n \in Nat
      BY <1>f, OrderByIs
    <3> QED BY <1>f, <3>1 DEF Most
  <2>3. Len(Have(q)) > 0 => reading.size > 0
    BY <1>1 DEF ListInv
  <2>4. Len(Have(q)') > 0 => reading.size > 0
    BY <1>f, <2>1, <2>2, <2>3 DEF Follows
  <2>5. CASE reading.drifted
    BY <1>1, <1>2, <1>4, <2>4, <2>5, PageKeepsFields DEF ListInv
  <2>6. CASE ~reading.drifted
    <3>1. Sound(Before, List(q), Untouched, Have(q), reading.more[q])
      BY <1>1, <2>6 DEF ListInv
    <3>2. \A id \in List(q) \cap Untouched : Among(Have(q), id) <=> id \notin Ahead(q)
      <4>1. CASE First
        <5>1. Len(Have(q)) = 0 /\ Ahead(q) = List(q)
          BY <1>1, <4>1 DEF ListInv, Ahead, First
        <5> QED BY <5>1 DEF Among
      <4>2. CASE ~First
        BY <1>1, <1>4, <2>6, <4>2 DEF ListInv, Ahead, First
      <4> QED BY <4>1, <4>2
    <3>3. \A i \in List(q) \ Ahead(q), j \in Ahead(q) : <<i, j>> \in Before
      <4>1. First \/ reading.values \in Keys(Terms)
        BY <1>1, <1>4, <2>6 DEF ListInv
      <4> QED BY <4>1, AheadIsAfter
    <3> HIDE DEF n, most
    <3>4. /\ Sound(Before, List(q), Untouched, Have(q)', reading'.more[q])
          /\ reading'.more[q] /\ List(q) \subseteq Untouched => \E id \in List(q) : ~Among(Have(q)', id)
      <4> DEFINE S == List(q)
                 B == Ahead(q)
                 s == Have(q)
                 next == Have(q)'
                 R == Before
                 U == Untouched
                 way == reading.traversal
                 terms == Terms
                 size == reading.size
                 more == reading.more[q]
      <4>1. /\ terms \in TotalOrders /\ S \in SUBSET Present /\ B \in SUBSET S /\ s \in Seq(RowId) /\ size \in Nat /\ next \in Seq(RowId)
            /\ \A i, j \in Present : <<i, j>> \in R <=> Keyset!Precedes(terms, i, j, way)
        BY <1>f, <2>1
      <4>2. Sound(R, S, U, s, more) /\ \A id \in S \cap U : Among(s, id) <=> id \notin B
        BY <3>1, <3>2
      <4>3. (\A i \in S \ B, j \in B : <<i, j>> \in R) /\ (Len(s) > 0 => size > 0)
        BY <2>3, <3>3
      <4>4. next \in Seq(RowId) /\ Follows(s, Keyset!OrderBy(terms, B, way), next, Most(Cardinality(B), size))
        BY <2>1 DEF n, most
      <4>6. TableIs
        BY <1>f
      <4> DEFINE further == reading'.more[q]
      <4>5. further = (Cardinality(B) > size)
        BY <2>7
      <4> HIDE DEF S, B, s, next, R, U, way, terms, size, more, further
      <4>7. /\ Sound(R, S, U, next, further)
            /\ further /\ S \subseteq U => \E id \in S : ~Among(next, id)
        BY <4>1, <4>2, <4>3, <4>4, <4>5, <4>6, PageIsSound
      <4> QED BY <4>7 DEF S, B, s, next, R, U, way, terms, size, more, further
    <3>5. reading.touched = {} => List(q) \subseteq Untouched
      BY <1>f DEF Untouched
    <3>7. reading.touched = {} /\ reading'.more[q] => \E id \in List(q) : ~Among(Have(q)', id)
      BY <3>4, <3>5
    <3>8. reading.kind = "relation" /\ reading.touched = {} /\ ~First => reading.counts[q] = Cardinality(List(q))
      BY <1>1 DEF ListInv
    <3>9. reading'.phase = "count" /\ First => q \in reading.asked
      BY <1>4
    <3>10. reading'.touched = reading.touched /\ reading'.kind = reading.kind /\ reading'.asked = reading.asked
           /\ reading'.counts = reading.counts /\ reading'.size = reading.size /\ reading'.phase \in {"count", "idle"}
           /\ (reading.kind = "relation" => reading'.phase = "count")
      BY PageKeepsFields, PageReads
    <3> QED BY <1>1, <2>4, <3>4, <3>7, <3>8, <3>9, <3>10 DEF ListInv
  <2> QED BY <2>5, <2>6
<1> QED BY <1>3, <1>4

LEMMA PageStep == ASSUME KeysetInv, Keyset!ReadPage PROVE KeysetInv'
<1>1. Lists' = Lists /\ TableIs'
  BY PageReads, PageKeepsFields, NothingMoves
<1>2. \A q \in Lists : ListInv(q)'
  BY PageKeepsList
<1>3. (reading.kind = "query" => Keyset!HasTieBreaker(reading.order))' /\ (reading.drifted => reading.touched # {})'
      /\ reading'.phase # "cursor"
  BY PageReads, PageKeepsFields DEF KeysetInv
<1> QED BY <1>1, <1>2, <1>3, PageKeepsType DEF KeysetInv

\* Between pages what was read stays as it is.
LEMMA BetweenPages ==
  ASSUME KeysetInv, table' = table,
         reading' = [reading EXCEPT !.phase = reading'.phase, !.asked = reading'.asked, !.cursor = reading'.cursor,
                                    !.values = reading'.values, !.drifted = reading'.drifted, !.counts = reading'.counts],
         reading'.phase \in {"page", "idle", "cursor", "failed"}, reading'.asked \in SUBSET Lists,
         reading'.cursor \in RowId \cup {Absent}, reading'.values \in Seq(Values), reading'.drifted \in BOOLEAN,
         reading'.counts \in [Lists -> Nat]
  PROVE  /\ reading'.kind = reading.kind /\ reading'.order = reading.order /\ reading'.traversal = reading.traversal
         /\ reading'.size = reading.size /\ reading'.seen = reading.seen /\ reading'.more = reading.more
         /\ reading'.touched = reading.touched
         /\ TableIs' /\ Lists' = Lists /\ Terms' = Terms /\ Before' = Before /\ Untouched' = Untouched
         /\ reading' \in ReadingsOf(Lists)' /\ \A q \in Lists : List(q)' = List(q) /\ Have(q)' = Have(q)
<1>1. reading \in ReadingsOf(Lists)
  BY DEF KeysetInv
<1>2. /\ reading'.kind = reading.kind /\ reading'.order = reading.order /\ reading'.traversal = reading.traversal
      /\ reading'.size = reading.size /\ reading'.seen = reading.seen /\ reading'.more = reading.more
      /\ reading'.touched = reading.touched
  BY <1>1 DEF ReadingsOf
<1>3. reading' \in ReadingsOf(Lists)
  BY <1>1 DEF ReadingsOf
<1>4. TableIs' /\ Lists' = Lists /\ Terms' = Terms /\ Before' = Before /\ \A q \in Lists : List(q)' = List(q) /\ Have(q)' = Have(q)
  BY <1>2, NothingMoves
<1>5. Untouched' = Untouched
  BY <1>2 DEF Untouched
<1>6. ReadingsOf(Lists)' = ReadingsOf(Lists)
  BY <1>4 DEF ReadingsOf
<1> QED BY <1>2, <1>3, <1>4, <1>5, <1>6

LEMMA CountStep == ASSUME KeysetInv, Keyset!ReadCounts PROVE KeysetInv'
<1> DEFINE counts == [q \in DOMAIN reading.counts |->
                        IF q \in reading.asked THEN Keyset!Cardinality({id \in RowId : Keyset!Counted(id) /\ table[id].parent = q})
                        ELSE reading.counts[q]]
<1>1. reading \in ReadingsOf(Lists) /\ TableIs
  BY DEF KeysetInv
<1>2. DOMAIN reading.counts = Lists /\ reading.counts \in [Lists -> Nat] /\ reading.asked \in SUBSET Lists
      /\ reading.cursor \in RowId \cup {Absent} /\ reading.values \in Seq(Values) /\ reading.drifted \in BOOLEAN
  BY <1>1 DEF ReadingsOf
<1>3. \A T : Keyset!Cardinality(T) = Cardinality(T)
  BY DEF Keyset!Cardinality, Cardinality
<1>4. \A q : {id \in RowId : Keyset!Counted(id) /\ table[id].parent = q} \in SUBSET RowId
  OBVIOUS
<1>5. \A q : Keyset!Cardinality({id \in RowId : Keyset!Counted(id) /\ table[id].parent = q}) \in Nat
  BY <1>3, <1>4, RowsAssumption, FS_Subset, FS_CardinalityType
<1>6. counts \in [Lists -> Nat]
  BY <1>2, <1>5
<1>7. reading.kind = "relation" => \A q : {id \in RowId : Keyset!Counted(id) /\ table[id].parent = q} = List(q)
  BY DEF List, Keyset!Members, Keyset!Counted, Keyset!Selected, Keyset!Of
<1>8. \A q \in Lists : counts[q] = IF q \in reading.asked
                                   THEN Cardinality({id \in RowId : Keyset!Counted(id) /\ table[id].parent = q}) ELSE reading.counts[q]
  BY <1>2, <1>3
<1>9. reading' = [reading EXCEPT !.phase = "idle", !.counts = counts] /\ table' = table /\ reading.phase = "count"
  BY DEF Keyset!ReadCounts
<1> HIDE DEF counts
<1>10. /\ reading'.phase = "idle" /\ reading'.asked = reading.asked /\ reading'.cursor = reading.cursor
       /\ reading'.values = reading.values /\ reading'.drifted = reading.drifted /\ reading'.counts = counts
       /\ reading' = [reading EXCEPT !.phase = reading'.phase, !.asked = reading'.asked, !.cursor = reading'.cursor,
                                     !.values = reading'.values, !.drifted = reading'.drifted, !.counts = reading'.counts]
  BY <1>1, <1>9 DEF ReadingsOf
<1>11. /\ reading'.kind = reading.kind /\ reading'.order = reading.order /\ reading'.size = reading.size /\ reading'.more = reading.more
       /\ reading'.touched = reading.touched /\ TableIs' /\ Lists' = Lists /\ Before' = Before /\ Untouched' = Untouched
       /\ reading' \in ReadingsOf(Lists)' /\ \A q \in Lists : List(q)' = List(q) /\ Have(q)' = Have(q)
  BY <1>2, <1>6, <1>9, <1>10, BetweenPages
<1>12. ASSUME NEW q \in Lists PROVE ListInv(q)'
  <2>1. ListInv(q)
    BY DEF KeysetInv
  <2>2. reading.kind = "relation" /\ reading.touched = {} => counts[q] = Cardinality(List(q))
    <3>1. CASE q \in reading.asked
      BY <1>7, <1>8, <3>1
    <3>2. CASE q \notin reading.asked
      BY <1>8, <1>9, <2>1, <3>2 DEF ListInv
    <3> QED BY <3>1, <3>2
  <2>3. First' = First
    BY <1>10 DEF First
  <2> QED BY <1>9, <1>10, <1>11, <2>1, <2>2, <2>3 DEF ListInv
<1> QED BY <1>10, <1>11, <1>12 DEF KeysetInv

LEMMA AskStep == ASSUME KeysetInv, NEW p \in DOMAIN reading.seen, Keyset!AskOn(p) PROVE KeysetInv'
<1> DEFINE cursor == IF reading.traversal = "forward" THEN Keyset!Last(reading.seen[p]) ELSE Head(reading.seen[p])
           s == reading.seen[p]
<1>1. reading \in ReadingsOf(Lists) /\ TableIs
  BY DEF KeysetInv
<1>2. /\ DOMAIN reading.seen = Lists /\ reading.counts \in [Lists -> Nat] /\ reading.asked \in SUBSET Lists /\ reading.more[p] \in BOOLEAN
      /\ reading.cursor \in RowId \cup {Absent} /\ reading.values \in Seq(Values) /\ reading.drifted \in BOOLEAN
      /\ reading.phase = "idle" /\ reading.more[p] /\ s # <<>> /\ table' = table
      /\ reading' = [reading EXCEPT !.phase = "cursor", !.asked = {p}, !.cursor = cursor]
  BY <1>1 DEF ReadingsOf, Keyset!AskOn
<1>3. p \in Lists /\ s \in Seq(RowId) /\ Len(s) \in Nat /\ Len(s) > 0 /\ Len(Have(p)) = Len(s)
  BY <1>2, ReadingIs
<1>4. cursor = Have(p)[Len(Have(p))] /\ cursor \in RowId /\ cursor # Absent
  <2>1. Have(p)[Len(s)] = s[IF reading.traversal = "forward" THEN Len(s) ELSE Len(s) + 1 - Len(s)]
    BY <1>3, WayIs DEF Have
  <2>2. cursor = s[IF reading.traversal = "forward" THEN Len(s) ELSE 1]
    BY <1>2, <1>3 DEF Keyset!Last
  <2>3. Len(s) + 1 - Len(s) = 1 /\ s[Len(s)] \in RowId /\ s[1] \in RowId
    BY <1>3
  <2> HIDE DEF cursor, s
  <2> QED BY <1>3, <2>1, <2>2, <2>3, RowsAssumption
<1> HIDE DEF cursor, s
<1>5. /\ reading'.phase = "cursor" /\ reading'.asked = {p} /\ reading'.cursor = cursor
      /\ reading'.values = reading.values /\ reading'.drifted = reading.drifted /\ reading'.counts = reading.counts
      /\ reading' = [reading EXCEPT !.phase = reading'.phase, !.asked = reading'.asked, !.cursor = reading'.cursor,
                                    !.values = reading'.values, !.drifted = reading'.drifted, !.counts = reading'.counts]
  BY <1>1, <1>2 DEF ReadingsOf
<1>6. /\ reading'.kind = reading.kind /\ reading'.order = reading.order /\ reading'.size = reading.size /\ reading'.more = reading.more
      /\ reading'.touched = reading.touched /\ TableIs' /\ Lists' = Lists /\ Before' = Before /\ Untouched' = Untouched
      /\ reading' \in ReadingsOf(Lists)' /\ \A q \in Lists : List(q)' = List(q) /\ Have(q)' = Have(q)
  <2>1. {p} \in SUBSET Lists
    BY <1>3
  <2> QED BY <1>2, <1>4, <1>5, <2>1, BetweenPages
<1>7. ~First'
  BY <1>4, <1>5 DEF First
<1>8. ASSUME NEW q \in Lists PROVE ListInv(q)'
  <2>1. ListInv(q)
    BY DEF KeysetInv
  <2> QED BY <1>2, <1>3, <1>4, <1>5, <1>6, <1>7, <2>1 DEF ListInv
<1> QED BY <1>5, <1>6, <1>7, <1>8 DEF KeysetInv

LEMMA CursorStep == ASSUME KeysetInv, Keyset!ReadCursor PROVE KeysetInv'
<1> DEFINE c == reading.cursor
           way == reading.traversal
           Fails == table[c] = Absent \/ (reading.kind = "query" /\ ~Keyset!Selected(c))
<1>1. reading \in ReadingsOf(Lists) /\ TableIs /\ Terms \in TotalOrders /\ Terms \in Seq(Keyset!Term)
  BY ReadingIs DEF KeysetInv, TotalOrders
<1>2. /\ reading.counts \in [Lists -> Nat] /\ reading.asked \in SUBSET Lists /\ reading.values \in Seq(Values)
      /\ reading.drifted \in BOOLEAN /\ table' = table /\ reading.phase = "cursor" /\ ~First /\ c \in RowId
  BY <1>1 DEF ReadingsOf, Keyset!ReadCursor, KeysetInv, First
<1>3. \A q \in Lists : ListInv(q)
  BY DEF KeysetInv
<1>4. CASE Fails
  <2>1. reading' = [reading EXCEPT !.phase = "failed"]
    BY <1>4 DEF Keyset!ReadCursor
  <2>2. /\ reading'.phase = "failed" /\ reading'.asked = reading.asked /\ reading'.cursor = reading.cursor
        /\ reading'.values = reading.values /\ reading'.drifted = reading.drifted /\ reading'.counts = reading.counts
        /\ reading' = [reading EXCEPT !.phase = reading'.phase, !.asked = reading'.asked, !.cursor = reading'.cursor,
                                      !.values = reading'.values, !.drifted = reading'.drifted, !.counts = reading'.counts]
    BY <1>1, <2>1 DEF ReadingsOf
  <2>3. /\ reading'.kind = reading.kind /\ reading'.order = reading.order /\ reading'.size = reading.size /\ reading'.more = reading.more
        /\ reading'.touched = reading.touched /\ TableIs' /\ Lists' = Lists /\ Before' = Before /\ Untouched' = Untouched
        /\ reading' \in ReadingsOf(Lists)' /\ \A q \in Lists : List(q)' = List(q) /\ Have(q)' = Have(q)
    BY <1>2, <2>2, BetweenPages
  <2>4. ASSUME NEW q \in Lists PROVE ListInv(q)'
    <3>1. ListInv(q)
      BY <1>3
    <3> QED BY <1>2, <2>2, <2>3, <3>1 DEF ListInv
  <2> QED BY <2>2, <2>3, <2>4 DEF KeysetInv
<1>5. CASE ~Fails
  <2>1. reading' = [reading EXCEPT !.phase = "page", !.drifted = reading.drifted \/ c \in reading.touched, !.values = Key(Terms, c)]
    BY <1>1, <1>5 DEF Keyset!ReadCursor, ReadingsOf, Key, Terms
  <2>2. c \in Present
    BY <1>2, <1>5 DEF Present
  <2>3. Key(Terms, c) \in Keys(Terms)
    BY <1>1, <2>2, KeyIs
  <2>4. Key(Terms, c) \in Seq(Values)
    <3>1. DOMAIN Terms = 1 .. Len(Terms) /\ Len(Terms) \in Nat
      BY <1>1
    <3>2. Key(Terms, c) \in [1 .. Len(Terms) -> Values]
      BY <2>3, <3>1 DEF Keys
    <3> QED BY <3>1, <3>2
  <2> DEFINE key == Key(Terms, c)
             drifts == reading.drifted \/ c \in reading.touched
  <2>5. drifts \in BOOLEAN
    BY <1>2
  <2> HIDE DEF key, drifts
  <2>6. /\ reading'.phase = "page" /\ reading'.asked = reading.asked /\ reading'.cursor = reading.cursor
        /\ reading'.values = key /\ reading'.drifted = drifts /\ reading'.counts = reading.counts
        /\ reading' = [reading EXCEPT !.phase = reading'.phase, !.asked = reading'.asked, !.cursor = reading'.cursor,
                                      !.values = reading'.values, !.drifted = reading'.drifted, !.counts = reading'.counts]
    BY <1>1, <2>1 DEF ReadingsOf, key, drifts
  <2>7. /\ reading'.kind = reading.kind /\ reading'.order = reading.order /\ reading'.size = reading.size /\ reading'.more = reading.more
        /\ reading'.touched = reading.touched /\ TableIs' /\ Lists' = Lists /\ Before' = Before /\ Untouched' = Untouched
        /\ reading'.traversal = reading.traversal /\ Terms' = Terms
        /\ reading' \in ReadingsOf(Lists)' /\ \A q \in Lists : List(q)' = List(q) /\ Have(q)' = Have(q)
    BY <1>2, <2>4, <2>5, <2>6, BetweenPages DEF key
  <2>8. \A id \in Present : id \in Past' <=> <<c, id>> \in Before
    <3> SUFFICES ASSUME NEW id \in Present PROVE id \in Past' <=> <<c, id>> \in Before
      OBVIOUS
    <3>1. Keyset!KeysetWhere(Terms, id, reading.values, way)' <=> Keyset!KeysetWhere(Terms, id, key, way)
      BY <1>2, <2>6, <2>7 DEF Keyset!KeysetWhere, Keyset!Value
    <3>2. Keyset!KeysetWhere(Terms, id, key, way) <=> Less(Terms, way, Key(Terms, c), Key(Terms, id))
      BY <1>1, WhereIsLess DEF key
    <3>3. Keyset!Precedes(Terms, c, id, way) <=> Less(Terms, way, Key(Terms, c), Key(Terms, id))
      BY <1>1, PrecedesIsLess
    <3>4. <<c, id>> \in Before <=> Keyset!Precedes(Terms, c, id, way)
      BY <2>2, ReadingIs
    <3>5. id \in Past' <=> Keyset!KeysetWhere(Terms, id, reading.values, way)'
      BY DEF Past, Present
    <3> QED BY <3>1, <3>2, <3>3, <3>4, <3>5
  <2>9. ASSUME NEW q \in Lists PROVE ListInv(q)'
    <3>1. ListInv(q) /\ List(q) \subseteq Present /\ List(q) \subseteq RowId
      BY <1>3, ReadingIs
    <3>2. First' = First
      BY <2>6 DEF First
    <3>3. ~drifts => ~reading.drifted /\ c \in Untouched
      BY <1>2 DEF drifts, Untouched
    <3>4. ~drifts /\ q \in reading.asked => \A id \in List(q) \cap Untouched : Among(Have(q), id) <=> id \notin Past'
      <4> SUFFICES ASSUME ~drifts, q \in reading.asked, NEW id \in List(q) \cap Untouched
                   PROVE  Among(Have(q), id) <=> id \notin Past'
        OBVIOUS
      <4>1. reading.more[q] /\ Len(Have(q)) > 0 /\ c = Have(q)[Len(Have(q))]
        BY <1>2, <3>1 DEF ListInv
      <4>2. Sound(Before, List(q), Untouched, Have(q), reading.more[q])
        BY <3>1, <3>3 DEF ListInv
      <4>3. Among(Have(q), id) <=> <<c, id>> \notin Before
        BY <3>3, <4>1, <4>2 DEF Sound
      <4> QED BY <2>8, <3>1, <4>3
    <3>5. key \in Keys(Terms) /\ Keys(Terms)' = Keys(Terms)
      BY <2>3, <2>7 DEF key, Keys
    <3> QED BY <1>2, <2>6, <2>7, <3>1, <3>2, <3>3, <3>4, <3>5 DEF ListInv
  <2>10. drifts => reading.touched # {}
    BY DEF drifts, KeysetInv
  <2> QED BY <2>6, <2>7, <2>9, <2>10 DEF KeysetInv
<1> QED BY <1>4, <1>5

LEMMA EditStep == ASSUME KeysetInv, NEW edit \in Edits, Keyset!Edit(edit) PROVE KeysetInv'
<1>1. reading \in ReadingsOf(Lists) /\ TableIs
  BY DEF KeysetInv
<1>2. edit.id \in RowId /\ edit.row \in Keyset!Row \cup {Absent}
  BY RowsAssumption
<1>3. /\ table' = [table EXCEPT ![edit.id] = edit.row]
      /\ reading' = [reading EXCEPT !.touched = reading.touched \cup {edit.id}, !.edits = reading.edits + 1]
  BY <1>1 DEF Keyset!Edit, ReadingsOf
<1>4. /\ reading'.kind = reading.kind /\ reading'.order = reading.order /\ reading'.traversal = reading.traversal
      /\ reading'.size = reading.size /\ reading'.asked = reading.asked /\ reading'.cursor = reading.cursor
      /\ reading'.values = reading.values /\ reading'.phase = reading.phase /\ reading'.seen = reading.seen
      /\ reading'.more = reading.more /\ reading'.drifted = reading.drifted
      /\ reading'.touched = reading.touched \cup {edit.id}
  BY <1>1, <1>3 DEF ReadingsOf
<1>5. TableIs'
  BY <1>1, <1>2, <1>3 DEF TableIs
<1>6. Lists' = Lists /\ Terms' = Terms /\ First' = First /\ \A q : Have(q)' = Have(q)
  BY <1>4 DEF Lists, Terms, First, Have
<1>7. reading' \in ReadingsOf(Lists)'
  <2>1. reading.edits + 1 \in Nat /\ reading.touched \cup {edit.id} \in SUBSET RowId
    BY <1>1, <1>2 DEF ReadingsOf
  <2>2. reading' \in ReadingsOf(Lists)
    BY <1>1, <1>3, <2>1 DEF ReadingsOf
  <2> QED BY <1>6, <2>2 DEF ReadingsOf
<1>8. Untouched' \in SUBSET Untouched /\ Untouched' \subseteq RowId
  BY <1>4 DEF Untouched
<1>9. \A id \in Untouched' : table'[id] = table[id]
  BY <1>1, <1>3, <1>4 DEF Untouched, TableIs
<1>10. \A q : List(q)' \cap Untouched' = List(q) \cap Untouched'
  <2> TAKE q
  <2>1. \A id \in Untouched' : id \in List(q)' <=> id \in List(q)
    BY <1>4, <1>8, <1>9 DEF List, Keyset!Members, Keyset!Selected, Keyset!Of
  <2> QED BY <2>1
<1>11. \A id \in Untouched' : \A column : Keyset!Value(id, column)' = Keyset!Value(id, column)
  BY <1>9 DEF Keyset!Value
<1>12. \A i, j \in Untouched' : <<i, j>> \in Before' <=> <<i, j>> \in Before
  <2> SUFFICES ASSUME NEW i \in Untouched', NEW j \in Untouched' PROVE <<i, j>> \in Before' <=> <<i, j>> \in Before
    OBVIOUS
  <2>1. Keyset!Precedes(Terms, i, j, reading.traversal)' <=> Keyset!Precedes(Terms, i, j, reading.traversal)
    BY <1>4, <1>6, <1>9 DEF Keyset!Precedes, Keyset!Value
  <2> QED BY <1>8, <2>1 DEF Before
<1>13. \A id \in Untouched' : id \in Past' <=> id \in Past
  <2> TAKE id \in Untouched'
  <2>1. Keyset!KeysetWhere(Terms, id, reading.values, reading.traversal)' <=> Keyset!KeysetWhere(Terms, id, reading.values, reading.traversal)
    BY <1>4, <1>6, <1>9 DEF Keyset!KeysetWhere, Keyset!Value
  <2> QED BY <1>8, <2>1 DEF Past
<1>14. ASSUME NEW q \in Lists PROVE ListInv(q)'
  <2>1. ListInv(q)
    BY DEF KeysetInv
  <2>2. Sound(Before, List(q), Untouched, Have(q), reading.more[q]) => Sound(Before', List(q)', Untouched', Have(q), reading.more[q])
    BY <1>8, <1>10, <1>12, SoundShrinks
  <2>3. reading'.touched # {} /\ Keys(Terms)' = Keys(Terms)
    BY <1>4, <1>6 DEF Keys
  <2>4. (\A id \in List(q) \cap Untouched : Among(Have(q), id) <=> id \notin Past)
          => \A id \in List(q)' \cap Untouched' : Among(Have(q), id) <=> id \notin Past'
    BY <1>8, <1>10, <1>13
  <2> QED BY <1>4, <1>6, <2>1, <2>2, <2>3, <2>4 DEF ListInv
<1> QED BY <1>4, <1>5, <1>6, <1>7, <1>14 DEF KeysetInv

LEMMA KeysetInitially == Keyset!KeysetInit => KeysetInv
<1> SUFFICES ASSUME Keyset!KeysetInit PROVE KeysetInv
  OBVIOUS
<1>1. table \in Tables
  BY DEF Keyset!KeysetInit
<1>2. TableIs
  BY <1>1, RowsAssumption DEF TableIs
<1>3. PICK order \in Orders, way \in {"forward", "backward"}, size \in PageSizes :
        \/ Keyset!HasTieBreaker(order) /\ reading = Keyset!Reading("query", order, way, size, {"all"})
        \/ reading = Keyset!Reading("relation", order, way, size, Parent)
  BY DEF Keyset!KeysetInit
<1>4. order \in Seq(Keyset!Term) /\ size \in Nat
  BY RowsAssumption
<1>5. PICK kind \in {"query", "relation"} : reading = Keyset!Reading(kind, order, way, size, IF kind = "query" THEN {"all"} ELSE Parent)
                                           /\ (kind = "query" => Keyset!HasTieBreaker(order))
  BY <1>3
<1> DEFINE lists == IF kind = "query" THEN {"all"} ELSE Parent
<1>6. /\ reading.kind = kind /\ reading.order = order /\ reading.traversal = way /\ reading.size = size /\ reading.asked = lists
      /\ reading.cursor = Absent /\ reading.values = <<>> /\ reading.phase = "page" /\ reading.touched = {} /\ reading.drifted = FALSE
      /\ reading.edits = 0
      /\ reading.seen = [q \in lists |-> <<>>] /\ reading.more = [q \in lists |-> TRUE] /\ reading.counts = [q \in lists |-> 0]
  BY <1>5 DEF Keyset!Reading
<1>7. lists = Lists
  BY <1>6 DEF Lists
<1>8. reading \in ReadingsOf(lists)
  <2>1. <<>> \in Seq(Values) /\ [q \in lists |-> <<>>] \in [lists -> Seq(RowId)] /\ [q \in lists |-> TRUE] \in [lists -> BOOLEAN]
        /\ [q \in lists |-> 0] \in [lists -> Nat]
    OBVIOUS
  <2> HIDE DEF lists
  <2> QED BY <1>4, <1>5, <1>6, <2>1 DEF Keyset!Reading, ReadingsOf, lists
<1>9. ASSUME NEW q \in Lists PROVE ListInv(q)
  <2>1. q \in lists /\ reading.seen[q] = <<>> /\ reading.more[q] = TRUE
    BY <1>6, <1>7
  <2>2. Len(Have(q)) = 0
    <3>1. reading.seen[q] \in Seq(RowId) /\ Len(reading.seen[q]) = 0
      BY <2>1
    <3>2. Len(Way(reading.traversal, reading.seen[q])) = 0
      BY <3>1, WayIs
    <3> QED BY <3>2 DEF Have
  <2>3. First /\ Sound(Before, List(q), Untouched, Have(q), reading.more[q])
    BY <1>6, <2>1, <2>2 DEF First, Sound
  <2> HIDE DEF lists
  <2>4. q \in reading.asked /\ reading.phase = "page" /\ ~reading.drifted
    BY <1>6, <2>1
  <2> QED BY <2>2, <2>3, <2>4 DEF ListInv
<1> HIDE DEF lists
<1> QED BY <1>2, <1>5, <1>6, <1>7, <1>8, <1>9 DEF KeysetInv

LEMMA KeysetKeeps == KeysetInv /\ [Keyset!KeysetNext]_(Keyset!keysetVars) => KeysetInv'
<1> SUFFICES ASSUME KeysetInv, [Keyset!KeysetNext]_(Keyset!keysetVars) PROVE KeysetInv'
  OBVIOUS
<1>1. CASE Keyset!ReadPage
  BY <1>1, PageStep
<1>2. CASE Keyset!ReadCounts
  BY <1>2, CountStep
<1>3. CASE Keyset!ReadCursor
  BY <1>3, CursorStep
<1>4. CASE \E q \in DOMAIN reading.seen : Keyset!AskOn(q)
  BY <1>4, AskStep
<1>5. CASE \E edit \in Edits : Keyset!Edit(edit)
  BY <1>5, EditStep
<1>6. CASE UNCHANGED Keyset!keysetVars
  <2>1. table' = table /\ reading' = reading
    BY <1>6 DEF Keyset!keysetVars
  <2>2. TableIs' /\ Lists' = Lists /\ Before' = Before /\ Past' = Past /\ Terms' = Terms
        /\ \A q \in Lists : List(q)' = List(q) /\ Have(q)' = Have(q)
    BY <2>1, NothingMoves
  <2>3. First' = First /\ Untouched' = Untouched /\ Keys(Terms)' = Keys(Terms) /\ (reading \in ReadingsOf(Lists))' = (reading \in ReadingsOf(Lists))
    BY <2>1, <2>2 DEF First, Untouched, Keys, ReadingsOf
  <2>4. ASSUME NEW q \in Lists PROVE ListInv(q)'
    <3>1. ListInv(q)
      BY DEF KeysetInv
    <3> QED BY <2>1, <2>2, <2>3, <3>1 DEF ListInv
  <2> QED BY <2>1, <2>2, <2>3, <2>4 DEF KeysetInv
<1> QED BY <1>1, <1>2, <1>3, <1>4, <1>5, <1>6 DEF Keyset!KeysetNext

\* Untouched, what was read of a list is where the list starts, all of it when
\* there is no more.
LEMMA QuietStart ==
  ASSUME KeysetInv, reading.touched = {}, NEW q \in Lists
  PROVE  LET n == Cardinality(List(q))
             o == Keyset!OrderBy(Terms, List(q), reading.traversal)
         IN  /\ n \in Nat /\ o \in Seq(RowId) /\ Len(o) = n /\ Len(Have(q)) <= n
             /\ \A k \in 1 .. Len(Have(q)) : o[k] = Have(q)[k]
             /\ ~reading.more[q] => Len(Have(q)) = n
             /\ reading.more[q] /\ ~(reading.phase = "page" /\ First) => Len(Have(q)) # n
<1> DEFINE S == List(q)
           h == Have(q)
           way == reading.traversal
           n == Cardinality(S)
           terms == Terms
           o == Keyset!OrderBy(terms, S, way)
<1>1. /\ TableIs /\ terms \in TotalOrders /\ S \in SUBSET Present /\ S \subseteq RowId /\ h \in Seq(RowId) /\ Len(h) \in Nat
      /\ \A i, j \in Present : <<i, j>> \in Before <=> Keyset!Precedes(terms, i, j, way)
  BY ReadingIs DEF KeysetInv
<1>2. ListInv(q) /\ ~reading.drifted /\ Untouched = RowId
  BY DEF KeysetInv, Untouched
<1>3. Sound(Before, S, RowId, h, reading.more[q])
  BY <1>2 DEF ListInv
<1>4. reading.more[q] /\ ~(reading.phase = "page" /\ First) => \E id \in S : ~Among(h, id)
  BY <1>2 DEF ListInv
<1>5. /\ \A i \in Present : ~Keyset!Precedes(terms, i, i, way)
      /\ \A i, j, k \in Present : Keyset!Precedes(terms, i, j, way) /\ Keyset!Precedes(terms, j, k, way) => Keyset!Precedes(terms, i, k, way)
  BY <1>1, PrecedesOrder
<1> HIDE DEF S, h, way, terms
<1>6. n \in Nat /\ Len(o) = n /\ o \in Seq(S) /\ \A i \in S : \E k \in 1 .. n : o[k] = i
  BY <1>1, OrderByIs
<1>15. \A a, b \in 1 .. n : o[a] = o[b] => a = b
  BY <1>1, OrderByIs
<1> HIDE DEF n, o
<1>7. DOMAIN h = 1 .. Len(h) /\ \A k \in 1 .. Len(h) : h[k] \in S /\ h[k] \in RowId /\ h[k] \in Present
  <2>1. DOMAIN h = 1 .. Len(h) /\ \A k \in 1 .. Len(h) : h[k] \in RowId
    BY <1>1
  <2> QED BY <1>1, <1>3, <2>1 DEF Sound
<1>8. h \in Seq(S)
  BY <1>1, <1>7
<1>9. \A a, b \in DOMAIN h : a < b => Keyset!Precedes(terms, h[a], h[b], way)
  <2> SUFFICES ASSUME NEW a \in 1 .. Len(h), NEW b \in 1 .. Len(h), a < b PROVE Keyset!Precedes(terms, h[a], h[b], way)
    BY <1>7
  <2>1. <<h[a], h[b]>> \in Before
    BY <1>3, <1>7 DEF Sound
  <2> QED BY <1>1, <1>7, <2>1
<1>10. \A i \in S, k \in DOMAIN h : Keyset!Precedes(terms, i, h[k], way) => \E m \in DOMAIN h : h[m] = i
  <2> SUFFICES ASSUME NEW i \in S, NEW k \in 1 .. Len(h), Keyset!Precedes(terms, i, h[k], way), ~Among(h, i) PROVE FALSE
    BY <1>7 DEF Among
  <2> DEFINE l == Len(h)
  <2>1. l \in 1 .. l /\ l > 0 /\ k \in Nat
    BY <1>1
  <2>2. i \in RowId /\ i \in Present
    BY <1>1
  <2>3. reading.more[q] /\ <<h[l], i>> \in Before
    BY <1>3, <1>7, <2>1, <2>2 DEF Sound
  <2>4. Keyset!Precedes(terms, h[l], i, way) /\ h[l] \in Present /\ h[k] \in Present
    BY <1>1, <1>7, <2>1, <2>2, <2>3
  <2>5. Keyset!Precedes(terms, h[l], h[k], way)
    BY <1>5, <2>2, <2>4
  <2>6. k = l \/ k < l
    BY <1>1, <2>1
  <2>7. k = l \/ Keyset!Precedes(terms, h[k], h[l], way)
    BY <1>7, <1>9, <2>1, <2>6
  <2> QED BY <1>5, <2>4, <2>5, <2>7
<1>11. /\ Len(h) <= n
       /\ \A k \in 1 .. Len(h) : o[k] = h[k]
  <2> DEFINE Starts(f) == /\ \A a, b \in DOMAIN f : a < b => Keyset!Precedes(terms, f[a], f[b], way)
                          /\ \A i \in S, k \in DOMAIN f : Keyset!Precedes(terms, i, f[k], way) => \E m \in DOMAIN f : f[m] = i
  <2>0. TableIs /\ terms \in TotalOrders /\ S \in SUBSET Present
    BY <1>1
  <2>1. \A f \in Seq(S) : Starts(f) => Len(f) <= Cardinality(S)
    BY <2>0, StartOfList
  <2>4. \A f \in Seq(S) : Starts(f) => \A k \in 1 .. Len(f) : Keyset!OrderBy(terms, S, way)[k] = f[k]
    BY <2>0, StartOfList
  <2>2. n = Cardinality(S) /\ o = Keyset!OrderBy(terms, S, way)
    BY DEF n, o
  <2>3. /\ Len(h) <= Cardinality(S)
        /\ \A k \in 1 .. Len(h) : Keyset!OrderBy(terms, S, way)[k] = h[k]
    BY <1>8, <1>9, <1>10, <2>1, <2>4
  <2> QED BY <2>2, <2>3
<1>12. ~reading.more[q] => Len(h) = n
  <2>1. ~reading.more[q] => \A i \in S : Among(h, i)
    BY <1>1, <1>3 DEF Sound
  <2> SUFFICES ASSUME \A i \in S : Among(h, i), Len(h) # n PROVE FALSE
    BY <2>1
  <2>2. Len(h) + 1 \in 1 .. n /\ \A k \in 1 .. Len(h) : k \in 1 .. n /\ k # Len(h) + 1
    BY <1>1, <1>6, <1>11
  <2>3. o[Len(h) + 1] \in S
    BY <1>6, <2>2
  <2>4. PICK k \in 1 .. Len(h) : h[k] = o[Len(h) + 1]
    BY <2>3 DEF Among
  <2> QED BY <1>11, <1>15, <2>2, <2>4
<1>13. reading.more[q] /\ ~(reading.phase = "page" /\ First) => Len(h) # n
  BY <1>4, <1>6, <1>11 DEF Among
<1>14. o \in Seq(RowId)
  BY <1>1, <1>6
<1> QED BY <1>6, <1>11, <1>12, <1>13, <1>14 DEF S, h, way, n, o, terms

LEMMA PrefixIs ==
  ASSUME NEW s \in Seq(RowId), NEW t \in Seq(RowId), Len(s) <= Len(t), \A k \in 1 .. Len(s) : t[k] = s[k]
  PROVE  Keyset!IsPrefix(s, t)
<1> DEFINE n == Len(s)
           a == SubSeq(s, 1, n)
           b == SubSeq(t, 1, n)
<1>1. n \in Nat /\ \A k \in 1 .. n : s[k] \in RowId /\ t[k] \in RowId
  OBVIOUS
<1>2. a = [k \in 1 .. n |-> s[k]]
  BY <1>1
<1>3. b = [k \in 1 .. n |-> t[k]]
  BY <1>1
<1>4. a = b
  BY <1>2, <1>3
<1> QED BY <1>4 DEF Keyset!IsPrefix

LEMMA ListedIs ==
  ASSUME KeysetInv, NEW q \in Lists
  PROVE  LET all == Keyset!Listed(reading, q)
             n == Cardinality(List(q))
             o == Keyset!OrderBy(Terms, List(q), reading.traversal)
         IN  /\ all \in Seq(RowId) /\ Len(all) = n /\ n \in Nat /\ Way(reading.traversal, all) = o
             /\ \A k \in 1 .. n : all[k] \in List(q)
             /\ \A a, b \in 1 .. n : a < b <=> Keyset!Precedes(Terms, all[a], all[b], "forward")
             /\ \A i \in List(q) : \E k \in 1 .. n : all[k] = i
<1> DEFINE all == Keyset!OrderBy(Terms, List(q), "forward")
           n == Cardinality(List(q))
<1>1. TableIs /\ Terms \in TotalOrders /\ List(q) \in SUBSET Present /\ List(q) \subseteq RowId /\ reading.traversal \in {"forward", "backward"}
  BY ReadingIs DEF KeysetInv, ReadingsOf
<1>2. Keyset!Listed(reading, q) = all
  BY DEF Keyset!Listed, List, Terms
<1>3. Way(reading.traversal, all) = Keyset!OrderBy(Terms, List(q), reading.traversal)
  BY <1>1, OrderByWay
<1>4. n \in Nat /\ Len(all) = n /\ all \in Seq(List(q)) /\ \A i \in List(q) : \E k \in 1 .. n : all[k] = i
  BY <1>1, OrderByIs
<1>5. \A a, b \in 1 .. n : a < b <=> Keyset!Precedes(Terms, all[a], all[b], "forward")
  BY <1>1, OrderByIs
<1> HIDE DEF all, n
<1>6. all \in Seq(RowId) /\ \A k \in 1 .. n : all[k] \in List(q)
  BY <1>1, <1>4
<1> QED BY <1>2, <1>3, <1>4, <1>5, <1>6 DEF n

LEMMA QuietIsTheList == KeysetInv => Keyset!QuietReadIsTheList
<1> SUFFICES ASSUME KeysetInv, reading.touched = {}, NEW q \in DOMAIN reading.seen
             PROVE  LET all == Keyset!Listed(reading, q)
                    IN  /\ IF reading.traversal = "forward" THEN Keyset!IsPrefix(reading.seen[q], all) ELSE Keyset!IsSuffix(reading.seen[q], all)
                        /\ ~reading.more[q] => reading.seen[q] = all
                        /\ reading.seen[q] = all /\ all # <<>> => ~reading.more[q]
  BY DEF Keyset!QuietReadIsTheList
<1> DEFINE all == Keyset!Listed(reading, q)
           s == reading.seen[q]
           n == Cardinality(List(q))
           h == Have(q)
           o == Keyset!OrderBy(Terms, List(q), reading.traversal)
           way == reading.traversal
<1>1. q \in Lists /\ way \in {"forward", "backward"} /\ ListInv(q)
  BY DEF KeysetInv, ReadingsOf
<1>2. all \in Seq(RowId) /\ Len(all) = n /\ n \in Nat /\ Way(way, all) = o
  BY <1>1, ListedIs
<1>3. s \in Seq(RowId) /\ h \in Seq(RowId) /\ Len(h) = Len(s) /\ Len(s) \in Nat /\ Way(way, s) = h
  BY <1>1, ReadingIs DEF Have
<1>4. /\ o \in Seq(RowId) /\ Len(o) = n /\ Len(h) <= n /\ \A k \in 1 .. Len(h) : o[k] = h[k]
      /\ ~reading.more[q] => Len(h) = n
      /\ reading.more[q] /\ ~(reading.phase = "page" /\ First) => Len(h) # n
  BY <1>1, QuietStart
<1>5. reading.phase = "page" /\ First => Len(h) = 0
  BY <1>1 DEF ListInv
<1> HIDE DEF all, n, h, o, s
<1>6. Keyset!IsPrefix(h, o)
  BY <1>3, <1>4, PrefixIs
<1>7. IF way = "forward" THEN Keyset!IsPrefix(s, all) ELSE Keyset!IsSuffix(s, all)
  <2>1. CASE way = "forward"
    BY <1>2, <1>3, <1>6, <2>1 DEF Way
  <2>2. CASE way # "forward"
    <3>1. h = Keyset!Reverse(s) /\ o = Keyset!Reverse(all)
      BY <1>2, <1>3, <2>2 DEF Way
    <3> QED BY <1>6, <2>2, <3>1 DEF Keyset!IsSuffix
  <2> QED BY <2>1, <2>2
<1>8. ASSUME ~reading.more[q] PROVE s = all
  <2>1. Len(s) = n
    BY <1>3, <1>4, <1>8
  <2>2. \A k \in 1 .. n : s[k] = all[k]
    <3>1. CASE way = "forward"
      BY <1>2, <1>3, <1>4, <2>1, <3>1 DEF Way
    <3>2. CASE way # "forward"
      <4>1. h = Keyset!Reverse(s) /\ o = Keyset!Reverse(all)
        BY <1>2, <1>3, <3>2 DEF Way
      <4>2. h = [k \in 1 .. n |-> s[n - k + 1]] /\ o = [k \in 1 .. n |-> all[n - k + 1]]
        BY <1>2, <2>1, <4>1 DEF Keyset!Reverse
      <4> TAKE k \in 1 .. n
      <4>3. n - k + 1 \in 1 .. n /\ n - (n - k + 1) + 1 = k
        BY <1>2
      <4>4. h[n - k + 1] = s[k] /\ o[n - k + 1] = all[k]
        BY <4>2, <4>3
      <4> QED BY <1>3, <1>4, <2>1, <4>3, <4>4
    <3> QED BY <3>1, <3>2
  <2>3. s = [k \in 1 .. n |-> s[k]] /\ all = [k \in 1 .. n |-> all[k]]
    BY <1>2, <1>3, <2>1
  <2>4. [k \in 1 .. n |-> s[k]] = [k \in 1 .. n |-> all[k]]
    BY <2>2
  <2> QED BY <2>3, <2>4
<1>9. ASSUME s = all, all # <<>> PROVE ~reading.more[q]
  <2>1. Len(h) = n /\ Len(h) > 0
    BY <1>2, <1>3, <1>9
  <2> QED BY <1>4, <1>5, <2>1
<1> QED BY <1>7, <1>8, <1>9 DEF all, s

LEMMA CountIsIt == KeysetInv => Keyset!CountIsTheLength
<1> SUFFICES ASSUME KeysetInv, reading.kind = "relation", reading.touched = {}, reading.phase = "idle", NEW q \in DOMAIN reading.seen
             PROVE  /\ reading.counts[q] >= Len(reading.seen[q])
                    /\ reading.counts[q] = Len(reading.seen[q]) <=> ~reading.more[q]
  BY DEF Keyset!CountIsTheLength
<1>1. q \in Lists /\ ListInv(q)
  BY DEF KeysetInv, ReadingsOf
<1>2. reading.counts[q] = Cardinality(List(q))
  BY <1>1 DEF ListInv
<1>3. Len(Have(q)) = Len(reading.seen[q]) /\ Len(Have(q)) \in Nat
  BY <1>1, ReadingIs
<1>4. /\ Cardinality(List(q)) \in Nat /\ Len(Have(q)) <= Cardinality(List(q))
      /\ ~reading.more[q] => Len(Have(q)) = Cardinality(List(q))
      /\ reading.more[q] => Len(Have(q)) # Cardinality(List(q))
  BY <1>1, QuietStart
<1> QED BY <1>2, <1>3, <1>4

LEMMA UnmovedAre == KeysetInv => Keyset!UnmovedAreSeenOnce
<1> SUFFICES ASSUME KeysetInv, NEW q \in DOMAIN reading.seen, ~reading.drifted, ~reading.more[q]
             PROVE  LET seen == reading.seen[q]
                        all  == Keyset!Listed(reading, q)
                        left(rows) == {i \in DOMAIN rows : rows[i] \notin reading.touched}
                    IN  /\ {seen[i] : i \in left(seen)} = {all[i] : i \in left(all)}
                        /\ \A i, j \in left(seen) : i < j => \E k, l \in left(all) : k < l /\ seen[i] = all[k] /\ seen[j] = all[l]
  BY DEF Keyset!UnmovedAreSeenOnce
<1> DEFINE all == Keyset!Listed(reading, q)
           s == reading.seen[q]
           n == Cardinality(List(q))
           m == Len(s)
           h == Have(q)
           way == reading.traversal
           S == List(q)
           at(k) == IF way = "forward" THEN k ELSE m + 1 - k
<1>1. q \in Lists /\ way \in {"forward", "backward"} /\ ListInv(q) /\ TableIs /\ Terms \in TotalOrders
  BY ReadingIs DEF KeysetInv, ReadingsOf
<1>2. /\ all \in Seq(RowId) /\ Len(all) = n /\ n \in Nat
      /\ \A k \in 1 .. n : all[k] \in S
      /\ \A i \in S : \E k \in 1 .. n : all[k] = i
  BY <1>1, ListedIs
<1>3. \A a, b \in 1 .. n : a < b <=> Keyset!Precedes(Terms, all[a], all[b], "forward")
  BY <1>1, ListedIs
<1>4. s \in Seq(RowId) /\ Len(h) = m /\ m \in Nat /\ S \subseteq Present /\ S \subseteq RowId
      /\ \A i, j \in Present : <<i, j>> \in Before <=> Keyset!Precedes(Terms, i, j, way)
  BY <1>1, ReadingIs
<1>5. \A k \in 1 .. m : at(k) \in 1 .. m /\ h[at(k)] = s[k]
  <2> TAKE k \in 1 .. m
  <2>1. at(k) \in 1 .. m /\ k = IF way = "forward" THEN at(k) ELSE m + 1 - at(k)
    BY <1>4
  <2>2. \A l \in 1 .. m : h[l] = s[IF way = "forward" THEN l ELSE m + 1 - l]
    BY <1>4, WayIs DEF Have
  <2> QED BY <2>1, <2>2
<1>6. Sound(Before, S, Untouched, h, reading.more[q])
  BY <1>1 DEF ListInv
<1> HIDE DEF all, s, n, h, m, S
<1>7. DOMAIN s = 1 .. m /\ DOMAIN all = 1 .. n /\ (\A k \in 1 .. m : s[k] \in RowId) /\ \A k \in 1 .. n : all[k] \in RowId
  BY <1>2, <1>4 DEF m
<1>8. \A k \in 1 .. m : s[k] \notin reading.touched => s[k] \in S
  <2> TAKE k \in 1 .. m
  <2>1. s[k] = h[at(k)] /\ at(k) \in 1 .. m
    BY <1>5
  <2> QED BY <1>4, <1>6, <1>7, <2>1 DEF Sound, Untouched
<1>9. \A i \in S : i \notin reading.touched => \E k \in 1 .. m : s[k] = i
  <2> SUFFICES ASSUME NEW i \in S, i \notin reading.touched PROVE \E k \in 1 .. m : s[k] = i
    OBVIOUS
  <2>1. Among(h, i)
    BY <1>4, <1>6 DEF Sound, Untouched
  <2>2. PICK l \in 1 .. m : h[l] = i
    BY <1>4, <2>1 DEF Among
  <2>3. at(l) \in 1 .. m /\ at(at(l)) = l
    BY <1>4
  <2>4. s[at(l)] = i
    BY <1>5, <2>2, <2>3
  <2> QED BY <2>3, <2>4
<1>10. {s[i] : i \in {j \in DOMAIN s : s[j] \notin reading.touched}} = {all[i] : i \in {j \in DOMAIN all : all[j] \notin reading.touched}}
  <2>1. \A x : (\E k \in 1 .. m : s[k] \notin reading.touched /\ s[k] = x) <=> (\E k \in 1 .. n : all[k] \notin reading.touched /\ all[k] = x)
    BY <1>2, <1>8, <1>9
  <2> QED BY <1>7, <2>1
<1>11. ASSUME NEW i \in 1 .. m, NEW j \in 1 .. m, s[i] \notin reading.touched, s[j] \notin reading.touched, i < j
       PROVE  \E k, l \in 1 .. n : k < l /\ s[i] = all[k] /\ s[j] = all[l]
  <2>1. s[i] \in S /\ s[j] \in S
    BY <1>8, <1>11
  <2>2. Keyset!Precedes(Terms, s[i], s[j], "forward")
    <3>1. h[at(i)] = s[i] /\ h[at(j)] = s[j] /\ at(i) \in 1 .. m /\ at(j) \in 1 .. m
      BY <1>5
    <3>2. s[i] \in Untouched /\ s[j] \in Untouched
      BY <1>7, <1>11 DEF Untouched
    <3>3. CASE way = "forward"
      <4>1. <<s[i], s[j]>> \in Before
        <5>1. at(i) < at(j)
          BY <1>11, <3>3
        <5> QED BY <1>4, <1>6, <3>1, <3>2, <5>1 DEF Sound
      <4> QED BY <1>4, <2>1, <3>3, <4>1
    <3>4. CASE way = "backward"
      <4>1. <<s[j], s[i]>> \in Before
        <5>1. at(j) < at(i)
          BY <1>4, <1>11, <3>4
        <5> QED BY <1>4, <1>6, <3>1, <3>2, <5>1 DEF Sound
      <4>2. Keyset!Precedes(Terms, s[j], s[i], "backward")
        BY <1>4, <2>1, <3>4, <4>1
      <4>3. s[i] \in Present /\ s[j] \in Present
        BY <1>4, <2>1
      <4> QED BY <1>1, <4>2, <4>3, PrecedesOrder
    <3> QED BY <1>1, <3>3, <3>4
  <2>3. PICK k \in 1 .. n, l \in 1 .. n : all[k] = s[i] /\ all[l] = s[j]
    BY <1>2, <2>1
  <2>4. k < l
    BY <1>3, <2>2, <2>3
  <2> QED BY <2>3, <2>4
<1>12. \A i, j \in {k \in DOMAIN s : s[k] \notin reading.touched} : i < j =>
         \E k, l \in {b \in DOMAIN all : all[b] \notin reading.touched} : k < l /\ s[i] = all[k] /\ s[j] = all[l]
  <2> SUFFICES ASSUME NEW i \in 1 .. m, NEW j \in 1 .. m, s[i] \notin reading.touched, s[j] \notin reading.touched, i < j
               PROVE  \E k, l \in {b \in DOMAIN all : all[b] \notin reading.touched} : k < l /\ s[i] = all[k] /\ s[j] = all[l]
    BY <1>7
  <2>1. PICK k \in 1 .. n, l \in 1 .. n : k < l /\ s[i] = all[k] /\ s[j] = all[l]
    BY <1>11
  <2>2. k \in {b \in DOMAIN all : all[b] \notin reading.touched} /\ l \in {b \in DOMAIN all : all[b] \notin reading.touched}
    BY <1>7, <2>1
  <2> QED BY <2>1, <2>2
<1> QED BY <1>10, <1>12 DEF all, s

\* KeysetReads: whatever rows others write between its statements, in any order
\* and direction and from any page on, pages of a list nobody touched are that
\* list and its count, and a row left alone is seen once and in its place.
THEOREM ReadsAlwaysTheList == Keyset!KeysetSpec => []ReadsAreTheList
<1>1. KeysetInv => ReadsAreTheList
  BY QuietIsTheList, UnmovedAre, CountIsIt DEF ReadsAreTheList
<1> QED BY <1>1, KeysetInitially, KeysetKeeps, PTL DEF Keyset!KeysetSpec
=============================================================================
