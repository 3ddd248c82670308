----------------------------- MODULE SavedCache -----------------------------
(***************************************************************************)
(* The saved snapshot of Remote's entity store                             *)
(* (packages/remote/src/persistence.ts, Hydrated in model.ts): tabs that   *)
(* share one KeyValueStore key save and restore it, each under its user's  *)
(* scope and its build's version and size limit, while reads answer,       *)
(* invalidations arrive, users sign in and out and builds are replaced.    *)
(*                                                                         *)
(* A restore reads the key, and removes it in a second step when it        *)
(* refuses what it read; what it accepts reaches the store as a Message,   *)
(* later.  An entity's entry is the scope it was read for, the server's    *)
(* version of it and whether it is stale; a text is as large as its store. *)
(***************************************************************************)
EXTENDS Naturals, FiniteSets

CONSTANTS Tab, Entity, Scope,
          Build,            \* [version, maxBytes] of the builds deployed
          Policy,           \* the merge policy the application hydrates with
          Absent,           \* no snapshot, no restore
          MaxVersion,       \* bound: versions of an entity on the server
          MaxReloads        \* bound: reloads

VARIABLES server,           \* the version of each entity
          tabs,             \* [scope, build, store, restore] of each tab
          kv,               \* the text under the key
          reloads

cacheVars == <<server, tabs, kv, reloads>>

Malformed == [malformed |-> TRUE]
EmptyStore == [e \in {} |-> Absent]
Tabs == [scope : Scope, build : Build]
Opened(scope, build) == [scope |-> scope, build |-> build, store |-> EmptyStore, restore |-> Absent]

Exceeds(entities, build) == Cardinality(DOMAIN entities) > build.maxBytes

SerializeStore(tab) == [version |-> tab.build.version, scope |-> tab.scope, entities |-> tab.store]

\* Mutant: what was written without a scope is anybody's.
HydratesUnscoped(text, tab) ==
    /\ text # Malformed /\ ~Exceeds(text.entities, tab.build)
    /\ text.version = tab.build.version
    /\ text.scope \in {tab.scope, "none"}

\* Whether `hydrate` accepts a text.
Hydrates(text, tab) ==
    /\ text # Malformed /\ ~Exceeds(text.entities, tab.build)
    /\ text.version = tab.build.version
    /\ text.scope = tab.scope

\* Both stores, where they meet the first.
Over(first, other) ==
    [e \in DOMAIN first \cup DOMAIN other |-> IF e \in DOMAIN first THEN first[e] ELSE other[e]]

MergeStores(current, snapshot) ==
    IF Policy = "replace" THEN Over(snapshot, current) ELSE Over(current, snapshot)

SavedInit ==
    /\ server = [e \in Entity |-> 0]
    /\ tabs \in {[t \in Tab |-> Opened(s, b)] : s \in Scope, b \in Build}
    /\ kv = Absent /\ reloads = 0

\* A read answers with what the server has now.
Read(t, e) ==
    /\ tabs' = [tabs EXCEPT ![t].store =
                   Over([x \in {e} |-> [scope |-> tabs[t].scope, at |-> server[e], stale |-> FALSE]], @)]
    /\ UNCHANGED <<server, kv, reloads>>

Invalidate(t, e) ==
    /\ e \in DOMAIN tabs[t].store
    /\ tabs' = [tabs EXCEPT ![t].store[e].stale = TRUE]
    /\ UNCHANGED <<server, kv, reloads>>

ServerChanges(e) ==
    /\ server[e] < MaxVersion
    /\ server' = [server EXCEPT ![e] = @ + 1]
    /\ UNCHANGED <<tabs, kv, reloads>>

(* A store too large for a snapshot takes the old one away with it.        *)
Save(t) ==
    /\ kv' = IF Exceeds(tabs[t].store, tabs[t].build) THEN Absent ELSE SerializeStore(tabs[t])
    /\ UNCHANGED <<server, tabs, reloads>>

Restore(t) ==
    /\ tabs[t].restore = Absent
    /\ tabs' = [tabs EXCEPT ![t].restore =
                   IF kv = Absent THEN [done |-> TRUE, entities |-> EmptyStore]
                   ELSE IF Hydrates(kv, tabs[t]) THEN [done |-> TRUE, entities |-> kv.entities]
                   ELSE [done |-> FALSE, entities |-> EmptyStore]]
    /\ UNCHANGED <<server, kv, reloads>>

\* Whatever is under the key by now.
RemoveRefused(t) ==
    /\ tabs[t].restore # Absent /\ ~tabs[t].restore.done
    /\ kv' = Absent
    /\ tabs' = [tabs EXCEPT ![t].restore.done = TRUE]
    /\ UNCHANGED <<server, reloads>>

Hydrated(t) ==
    /\ tabs[t].restore # Absent /\ tabs[t].restore.done
    /\ tabs' = [tabs EXCEPT ![t].restore = Absent,
                            ![t].store = MergeStores(@, tabs[t].restore.entities)]
    /\ UNCHANGED <<server, kv, reloads>>

\* Another user signs in, another build is served.
Reload(t) ==
    /\ reloads < MaxReloads
    /\ \E s \in Scope, b \in Build : tabs' = [tabs EXCEPT ![t] = Opened(s, b)]
    /\ reloads' = reloads + 1
    /\ UNCHANGED <<server, kv>>

\* A write that was cut off, an edit by hand.
Corrupt ==
    /\ kv # Absent /\ reloads < MaxReloads
    /\ kv' = Malformed
    /\ reloads' = reloads + 1
    /\ UNCHANGED <<server, tabs>>

SavedNext ==
    \/ \E t \in Tab : Save(t) \/ Restore(t) \/ RemoveRefused(t) \/ Hydrated(t) \/ Reload(t)
    \/ \E t \in Tab, e \in Entity : Read(t, e) \/ Invalidate(t, e)
    \/ \E e \in Entity : ServerChanges(e)
    \/ Corrupt

SavedSpec == SavedInit /\ [][SavedNext]_cacheVars

(***************************************************************************)
(* Properties                                                              *)
(***************************************************************************)

(* No tab ever shows its user an entry read for another: not from a        *)
(* snapshot taken under another scope or under none, whatever the order of *)
(* saves, restores and sign-ins of the tabs that share the key (hydrate).  *)
OwnDataOnly(t) == \A e \in DOMAIN tabs[t].store : tabs[t].store[e].scope = tabs[t].scope

(* With `preserve-existing` a snapshot never takes back what a read        *)
(* brought while the restore was under way: an entry of a tab only becomes *)
(* newer until the tab reloads, and hydration does not forget that it is   *)
(* stale (mergeStores: a held entry "is at least as fresh").               *)
KeepsItsNewestStep ==
    Policy = "preserve-existing" =>
    \A t \in Tab : reloads' = reloads =>
        \A e \in DOMAIN tabs[t].store :
            /\ e \in DOMAIN tabs'[t].store
            /\ tabs'[t].store[e].at >= tabs[t].store[e].at
            /\ tabs[t].restore # tabs'[t].restore => tabs'[t].store[e] = tabs[t].store[e]
=============================================================================
