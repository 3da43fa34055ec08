---------------------------- MODULE ReleaseHistory ----------------------------
(***************************************************************************)
(* Signed release catalogs and what a newer one may change in an older one *)
(* (release/catalog.mjs).  A release is named by product, version and      *)
(* build; its artifacts, date and channel are one value, its build.        *)
(***************************************************************************)
CONSTANTS
  Release,    \* product/version/buildId
  Build,      \* artifact bytes, releasedAt and channel of a release
  GitHub,     \* releases whose assets are on a GitHub release, not in R2
  Absent,     \* a release a catalog does not list
  None,       \* an object that is not stored
  NoCatalog   \* no catalog was ever activated

ASSUME NamesAssumption == None \notin Build /\ GitHub \subseteq Release

Status == {"unreleased", "published", "withdrawn"}
Entry == [status : Status, build : Build]

\* assertCatalog: a release is listed at most once.
Catalog == [Release -> Entry \cup {Absent}]

ASSUME AbsentAssumption == Absent \notin Entry /\ NoCatalog \notin Catalog

\* readActiveCatalog: without an active catalog the history is empty.
Releases(c) == IF c = NoCatalog THEN [r \in Release |-> Absent] ELSE c

Listed(c) == {r \in Release : Releases(c)[r] # Absent}
Offered(c) == {r \in Listed(c) : c[r].status # "withdrawn"}

\* The part of assertCatalogTransition that is about one release.
EntryMayBecome(before, after) ==
  /\ after # Absent
  /\ before.build = after.build
  /\ before.status = "withdrawn" => after.status = "withdrawn"
  /\ before.status = "published" => after.status # "unreleased"

\* assertCatalogTransition
MayFollow(previous, next) ==
  \A r \in Listed(previous) : EntryMayBecome(previous[r], next[r])

\* unchangedHistory
UnchangedHistory(previous, next) ==
  {r \in Offered(next) \cap Listed(previous) : EntryMayBecome(previous[r], next[r])}
=============================================================================
