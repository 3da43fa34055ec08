---------------------------- MODULE ReleaseCatalog ----------------------------
(***************************************************************************)
(* What publishing promises to the readers of the active catalog, whoever  *)
(* publishes and whatever fails: the catalog changes by one step at a time *)
(* into one that keeps its history, that is archived, and whose downloads  *)
(* are in place; stored bytes are never replaced.                          *)
(***************************************************************************)
EXTENDS ReleaseHistory

VARIABLES
  active,   \* catalog/v1.json
  stored,   \* artifact bytes at each release's location
  archive   \* catalogs with a copy under catalogs/<sha256>/

vars == <<active, stored, archive>>

InPlace(c) == \A r \in Offered(c) : stored[r] = c[r].build

TypeOK ==
  /\ active \in Catalog \cup {NoCatalog}
  /\ stored \in [Release -> Build \cup {None}]
  /\ archive \in SUBSET Catalog

Init ==
  /\ active = NoCatalog
  /\ stored = [r \in Release |-> None]
  /\ archive = {}

Store(r, b) ==
  /\ stored[r] = None
  /\ stored' = [stored EXCEPT ![r] = b]
  /\ UNCHANGED <<active, archive>>

\* Files of a withdrawn release may be taken away.
Remove(r) ==
  /\ r \in Listed(active) \ Offered(active)
  /\ stored' = [stored EXCEPT ![r] = None]
  /\ UNCHANGED <<active, archive>>

Archive(c) ==
  /\ archive' = archive \cup {c}
  /\ UNCHANGED <<active, stored>>

Activate(c) ==
  /\ MayFollow(active, c)
  /\ c \in archive
  /\ InPlace(c)
  /\ active' = c
  /\ UNCHANGED <<stored, archive>>

Next ==
  \/ \E r \in Release, b \in Build : Store(r, b)
  \/ \E r \in Release : Remove(r)
  \/ \E c \in Catalog : Archive(c) \/ Activate(c)

Spec == Init /\ [][Next]_vars
=============================================================================
