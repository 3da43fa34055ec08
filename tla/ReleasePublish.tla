---------------------------- MODULE ReleasePublish ----------------------------
(***************************************************************************)
(* `publish --execute` (release/publish.mjs): any number of publishers,    *)
(* each with a signed catalog of its own, over one bucket without locks or *)
(* transactions.  A publisher may be killed between any two requests; a    *)
(* request may fail, or be given up on and still take effect much later.   *)
(*                                                                         *)
(* Bytes and their hashes are one value, and so are a catalog, its         *)
(* signature and its ETag.  Release notes are left out.                    *)
(***************************************************************************)
EXTENDS ReleaseHistory, Naturals

CONSTANTS
  Publisher,
  MaxRuns      \* bound: publish runs in all

ASSUME BoundAssumption == MaxRuns \in Nat

VARIABLES
  active,      \* catalog/v1.json
  stored,      \* artifact bytes at each release's location, in R2 or on GitHub
  archive,     \* catalogs with a copy under catalogs/<sha256>/
  late,        \* PUTs whose publisher gave up, and that R2 may still carry out
  pc,          \* where each publisher is, or how its last run ended
  next,        \* the signed catalog it publishes
  prior,       \* the active catalog it read
  local,       \* releases it has a verified local copy of
  todo,        \* releases its current phase has still to deal with
  item,        \* the release it is uploading
  runs

bucket == <<active, stored, archive>>
mine == <<next, prior, local>>
vars == <<bucket, late, pc, mine, todo, item, runs>>

\* A run that throws has "failed", whatever the error says.
Ended == {"idle", "executed", "failed"}
Phase == Ended \cup
  {"history", "head", "put", "verify", "public", "metadata", "activate", "confirm"}

ArtifactPut == [release : Release, build : Build]
CatalogPut == [ifMatch : Catalog \cup {NoCatalog}, catalog : Catalog]

\* Every field has its type, and a publisher deals with releases its catalog offers only.
TypeOK ==
  /\ active \in Catalog \cup {NoCatalog}
  /\ stored \in [Release -> Build \cup {None}]
  /\ archive \in SUBSET Catalog
  /\ late \in SUBSET (ArtifactPut \cup CatalogPut)
  /\ pc \in [Publisher -> Phase]
  /\ next \in [Publisher -> Catalog \cup {NoCatalog}]
  /\ prior \in [Publisher -> Catalog \cup {NoCatalog}]
  /\ \A p \in Publisher : local[p] \cup todo[p] \subseteq Offered(next[p])
  /\ item \in [Publisher -> Release \cup {None}]
  /\ \A p \in Publisher : pc[p] \in {"put", "verify"} => item[p] \in todo[p]
  /\ runs \in 0..MaxRuns

Init ==
  /\ active = NoCatalog
  /\ stored = [r \in Release |-> None]
  /\ archive = {}
  /\ late = {}
  /\ pc = [p \in Publisher |-> "idle"]
  /\ next = [p \in Publisher |-> NoCatalog]
  /\ prior = [p \in Publisher |-> NoCatalog]
  /\ local = [p \in Publisher |-> {}]
  /\ todo = [p \in Publisher |-> {}]
  /\ item = [p \in Publisher |-> None]
  /\ runs = 0

Goes(p, phase) == pc' = [pc EXCEPT ![p] = phase]
Deals(p, rs) == todo' = [todo EXCEPT ![p] = rs]
Handled(p, r) == Deals(p, todo[p] \ {r})

\* The end of a run; what it kept in memory is gone.
Ends(p, how) ==
  /\ Goes(p, how)
  /\ next' = [next EXCEPT ![p] = NoCatalog]
  /\ prior' = [prior EXCEPT ![p] = NoCatalog]
  /\ local' = [local EXCEPT ![p] = {}]
  /\ Deals(p, {})
  /\ item' = [item EXCEPT ![p] = None]

\* Fault in Matches: catalog/v1.json is written whatever it holds by now.
MatchesAlways(request) == TRUE

\* The condition of createR2Transport.put, which R2 tests as it writes.
Matches(request) == active = request.ifMatch
IsNew(request) == stored[request.release] = None

(***************************************************************************)
(* publishVerified, one request a step.                                    *)
(***************************************************************************)

\* Releases in R2 among rs: GitHub's are uploaded elsewhere and only downloaded here.
InR2(rs) == rs \ GitHub

\* readActiveCatalog and the checks on it; verifyArtifacts says which copies are local.
ReadActive(p, c, copies) ==
  /\ pc[p] \in Ended
  /\ runs < MaxRuns
  /\ runs' = runs + 1
  /\ copies \subseteq Offered(c)
  /\ \/ /\ MayFollow(active, c)
        /\ Offered(c) \ copies \subseteq UnchangedHistory(active, c)
        /\ Goes(p, "history")
        /\ next' = [next EXCEPT ![p] = c]
        /\ prior' = [prior EXCEPT ![p] = active]
        /\ local' = [local EXCEPT ![p] = copies]
        /\ Deals(p, InR2(Offered(c) \ copies))
        /\ UNCHANGED item
     \/ /\ ~ MayFollow(active, c) \/ ~ Offered(c) \ copies \subseteq UnchangedHistory(active, c)
        /\ Ends(p, "failed")
  /\ UNCHANGED <<bucket, late>>

\* A release without a local copy: its stored bytes are read and compared.
CheckHistory(p, r) ==
  /\ pc[p] = "history"
  /\ r \in todo[p]
  /\ \/ /\ stored[r] = next[p][r].build
        /\ Handled(p, r)
        /\ UNCHANGED <<pc, mine, item>>
     \/ /\ stored[r] # next[p][r].build
        /\ Ends(p, "failed")
  /\ UNCHANGED <<bucket, late, runs>>

\* Fault in Uploads: local copies of withdrawn releases count too.
UploadsWithdrawn(p) == InR2(Listed(next[p]))

\* Releases to upload, and releases to download through their public location.
Uploads(p) == InR2(local[p])

\* Fault in Downloads: only what this run uploaded.
DownloadsOfUploads(p) == Uploads(p)

Downloads(p) == Offered(next[p])

\* A phase that has nothing left to do gives way to the next.
NextPhase(p) ==
  /\ todo[p] = {}
  /\ \/ pc[p] = "history" /\ Goes(p, "head") /\ Deals(p, Uploads(p))
     \/ pc[p] = "head" /\ Goes(p, "public") /\ Deals(p, Downloads(p))
     \/ pc[p] = "public" /\ Goes(p, "metadata") /\ UNCHANGED todo
  /\ UNCHANGED <<bucket, late, mine, item, runs>>

\* immutable: look first, create only what is not there, read back what is.
Head(p, r) ==
  /\ pc[p] = "head"
  /\ r \in todo[p]
  /\ item' = [item EXCEPT ![p] = r]
  /\ Goes(p, IF stored[r] = None THEN "put" ELSE "verify")
  /\ UNCHANGED <<bucket, late, mine, todo, runs>>

Upload(p) == [release |-> item[p], build |-> next[p][item[p]].build]

PutArtifact(p) ==
  /\ pc[p] = "put"
  /\ \/ /\ IsNew(Upload(p))
        /\ stored' = [stored EXCEPT ![item[p]] = Upload(p).build]
        /\ Goes(p, "verify")
        /\ UNCHANGED <<mine, todo, item>>
     \/ /\ ~ IsNew(Upload(p))
        /\ Ends(p, "failed")
        /\ UNCHANGED stored
  /\ UNCHANGED <<active, archive, late, runs>>

VerifyArtifact(p) ==
  /\ pc[p] = "verify"
  /\ \/ /\ stored[item[p]] = Upload(p).build
        /\ Goes(p, "head")
        /\ Handled(p, item[p])
        /\ item' = [item EXCEPT ![p] = None]
        /\ UNCHANGED mine
     \/ /\ stored[item[p]] # Upload(p).build
        /\ Ends(p, "failed")
  /\ UNCHANGED <<bucket, late, runs>>

\* verifyPublicArtifact, on every artifact the catalog offers.
CheckPublic(p, r) ==
  /\ pc[p] = "public"
  /\ r \in todo[p]
  /\ \/ /\ stored[r] = next[p][r].build
        /\ Handled(p, r)
        /\ UNCHANGED <<pc, mine, item>>
     \/ /\ stored[r] # next[p][r].build
        /\ Ends(p, "failed")
  /\ UNCHANGED <<bucket, late, runs>>

\* The three metadata objects: their key is their content, so storing them again is no change.
PutMetadata(p) ==
  /\ pc[p] = "metadata"
  /\ archive' = archive \cup {next[p]}
  /\ Goes(p, "activate")
  /\ UNCHANGED <<active, stored, late, mine, todo, item, runs>>

Activation(p) == [ifMatch |-> prior[p], catalog |-> next[p]]

PutCatalog(p) ==
  /\ pc[p] = "activate"
  /\ \/ /\ Matches(Activation(p))
        /\ active' = next[p]
        /\ Goes(p, "confirm")
        /\ UNCHANGED <<mine, todo, item>>
     \/ /\ ~ Matches(Activation(p))
        /\ Ends(p, "failed")
        /\ UNCHANGED active
  /\ UNCHANGED <<stored, archive, late, runs>>

\* transport.verify reads catalog/v1.json back: a larger object and another hash are different
\* errors, and both end the run.
Confirm(p) ==
  /\ pc[p] = "confirm"
  /\ Ends(p, IF active = next[p] THEN "executed" ELSE "failed")
  /\ UNCHANGED <<bucket, late, runs>>

(***************************************************************************)
(* What else happens: failed requests, requests the publisher stopped      *)
(* waiting for, killed publishers, and other people.                       *)
(***************************************************************************)

\* An error answer, or no answer, to a request that changed nothing.
Fails(p) ==
  /\ pc[p] \notin Ended
  /\ Ends(p, "failed")
  /\ UNCHANGED <<bucket, late, runs>>

\* requestTimeoutMs passes: "activation was not confirmed".
GivesUp(p) ==
  /\ \/ pc[p] = "put" /\ late' = late \cup {Upload(p)} /\ Ends(p, "failed")
     \/ pc[p] = "activate" /\ late' = late \cup {Activation(p)} /\ Ends(p, "failed")
  /\ UNCHANGED <<bucket, runs>>

LateArtifact(request) ==
  /\ request \in late \cap ArtifactPut
  /\ late' = late \ {request}
  /\ stored' = IF IsNew(request) THEN [stored EXCEPT ![request.release] = request.build] ELSE stored
  /\ UNCHANGED <<active, archive, pc, mine, todo, item, runs>>

LateCatalog(request) ==
  /\ request \in late \cap CatalogPut
  /\ late' = late \ {request}
  /\ active' = IF Matches(request) THEN request.catalog ELSE active
  /\ UNCHANGED <<stored, archive, pc, mine, todo, item, runs>>

Killed(p) ==
  /\ pc[p] \notin Ended
  /\ Ends(p, "idle")
  /\ UNCHANGED <<bucket, late, runs>>

\* The release workflow puts an asset on an immutable GitHub release.
GitHubPublishes(r, b) ==
  /\ r \in GitHub
  /\ stored[r] = None
  /\ stored' = [stored EXCEPT ![r] = b]
  /\ UNCHANGED <<active, archive, late, pc, mine, todo, item, runs>>

\* A storage operator takes away the bytes of a withdrawn release.
OperatorRemoves(r) ==
  /\ r \in InR2(Listed(active) \ Offered(active))
  /\ stored[r] # None
  /\ stored' = [stored EXCEPT ![r] = None]
  /\ UNCHANGED <<active, archive, late, pc, mine, todo, item, runs>>

Next ==
  \/ \E p \in Publisher, c \in Catalog :
       \E copies \in SUBSET Offered(c) : ReadActive(p, c, copies)
  \/ \E p \in Publisher, r \in Release :
       CheckHistory(p, r) \/ Head(p, r) \/ CheckPublic(p, r)
  \/ \E p \in Publisher :
       \/ NextPhase(p) \/ PutArtifact(p) \/ VerifyArtifact(p) \/ PutMetadata(p)
       \/ PutCatalog(p) \/ Confirm(p) \/ Fails(p) \/ GivesUp(p) \/ Killed(p)
  \/ \E request \in late : LateArtifact(request) \/ LateCatalog(request)
  \/ \E r \in Release : OperatorRemoves(r) \/ \E b \in Build : GitHubPublishes(r, b)

Spec == Init /\ [][Next]_vars

(***************************************************************************)
(* Properties                                                              *)
(***************************************************************************)

\* Everything the active catalog offers can be downloaded, byte for byte: the checks of one
\* publisher (publish.mjs:211-229) stay true until its PUT lands (235), however late, whatever
\* other publishers activate and storage operators remove meanwhile.
DownloadsAreServed == \A r \in Offered(active) : stored[r] = active[r].build

\* Publishers that know nothing of each other, may stop anywhere and retry, implement one
\* catalog that only ever grows out of its history: no release is lost or altered, none comes
\* back from withdrawal, every activated catalog is archived and in place, and stored bytes
\* are never replaced (publish.mjs:182-236).
Promise == INSTANCE ReleaseCatalog WITH
             active <- active, stored <- stored, archive <- archive
ImplementsReleaseCatalog == Promise!Spec
=============================================================================
