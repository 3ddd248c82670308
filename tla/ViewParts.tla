----------------------------- MODULE ViewParts -----------------------------
(***************************************************************************)
(* Parts of what a view is made of, side by side: the saved cache of its   *)
(* entities, the contracts that say who owns its Model, and the paged      *)
(* reads behind its lists.  Each has variables of its own.  The properties *)
(* of the parts are stated and explained in their modules; here they are   *)
(* put together for the runs and the theorems.                             *)
(***************************************************************************)
EXTENDS Integers, Sequences, FiniteSets

CONSTANTS Tab, Entity, Scope, Build, Policy, Absent, MaxVersion, MaxReloads,
          App, ModelFields, Tags, Features, MaxContracts,
          RowId, Parent, Tables, Edits, Orders, PageSizes, None, MaxEdits

VARIABLES server, tabs, kv, reloads, contracts, table, reading

Saved  == INSTANCE SavedCache
Module == INSTANCE SurfaceModule WITH Fields <- ModelFields, Items <- Features
Keyset == INSTANCE KeysetReads WITH
            Ids <- RowId, Parents <- Parent, Sizes <- PageSizes, Null <- None

\* A path is a sequence of field names (readonly string[]).
ASSUME FeaturesAssumption == \A item \in Features : item.owns \subseteq Seq(STRING)

\* Ids and ranks are numbers, NULL and a missing row are none and no row; there
\* are finitely many ids, and pages have no negative length.
ASSUME RowsAssumption ==
  /\ IsFiniteSet(RowId) /\ RowId \subseteq Int /\ PageSizes \subseteq Nat
  /\ None \notin Int /\ Absent \notin RowId \cup Keyset!Row
  /\ Tables \subseteq [RowId -> Keyset!Row \cup {Absent}]
  /\ Edits \subseteq [id : RowId, row : Keyset!Row \cup {Absent}]
  /\ Orders \subseteq Seq(Keyset!Term)

\* SavedCache: nobody is shown what was read for another, and a snapshot takes
\* nothing newer back.
SavedIsOwn == [](\A tab \in Tab : Saved!OwnDataOnly(tab)) /\ [][Saved!KeepsItsNewestStep]_(Saved!cacheVars)

\* SurfaceModule: without findings everything has one owner; neither the order
\* of contracts nor one more hides a finding; the manifest is true.
ModuleIsOwned ==
  Module!CleanIsOwnedOnce /\ Module!OrderIsIrrelevant /\ Module!AddingHidesNothing /\ Module!ManifestIsTrue

\* KeysetReads: pages of a list nobody writes are the list and its count, and
\* a row left alone is seen once.
ReadsAreTheList == Keyset!QuietReadIsTheList /\ Keyset!UnmovedAreSeenOnce /\ Keyset!CountIsTheLength
=============================================================================
