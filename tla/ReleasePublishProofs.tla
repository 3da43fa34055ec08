-------------------------- MODULE ReleasePublishProofs --------------------------
(***************************************************************************)
(* Proofs about ReleasePublish, for any publishers, releases and builds:   *)
(* its types, that it implements ReleaseCatalog, and that everything the   *)
(* active catalog offers is in place.                                      *)
(***************************************************************************)
EXTENDS ReleasePublish, TLAPS

-----------------------------------------------------------------------------
(* History: what may follow what is a partial order, so a catalog that was *)
(* replaced is never active again.                                         *)

History == Catalog \cup {NoCatalog}

\* b is a, or came after it.
Follows(a, b) == a = b \/ (b \in Catalog /\ MayFollow(a, b))

LEMMA ListedIsOfCatalog ==
  ASSUME NEW c \in History
  PROVE  /\ \A r \in Listed(c) : r \in Release /\ c \in Catalog /\ c[r] \in Entry
         /\ c \in Catalog => \A r \in Release : r \notin Listed(c) => c[r] = Absent
         /\ Offered(c) \subseteq Listed(c)
<1>1. c = NoCatalog => Listed(c) = {} BY DEF Listed, Releases
<1>2. c \in Catalog => Releases(c) = c BY AbsentAssumption DEF Releases
<1>3. c \in Catalog => \A r \in Release : c[r] \in Entry \cup {Absent} BY DEF Catalog
<1>4. QED BY <1>1, <1>2, <1>3 DEF History, Listed, Offered

LEMMA EntriesArePartiallyOrdered ==
  /\ \A e \in Entry : EntryMayBecome(e, e)
  /\ \A e, f, g \in Entry : EntryMayBecome(e, f) /\ EntryMayBecome(f, g) => EntryMayBecome(e, g)
  /\ \A e, f \in Entry : EntryMayBecome(e, f) /\ EntryMayBecome(f, e) => e = f
BY AbsentAssumption DEF EntryMayBecome, Entry, Status

LEMMA FollowsIsTransitive ==
  ASSUME NEW a \in History, NEW b \in History, NEW c \in History, Follows(a, b), Follows(b, c)
  PROVE  Follows(a, c)
<1>1. CASE a = b \/ b = c BY <1>1
<1>2. CASE b \in Catalog /\ MayFollow(a, b) /\ c \in Catalog /\ MayFollow(b, c)
  <2> SUFFICES ASSUME NEW r \in Listed(a) PROVE EntryMayBecome(a[r], c[r])
    BY <1>2 DEF Follows, MayFollow
  <2>1. r \in Release /\ a[r] \in Entry BY ListedIsOfCatalog
  <2>2. EntryMayBecome(a[r], b[r]) BY <1>2 DEF MayFollow
  <2>3. r \in Listed(b) /\ b[r] \in Entry BY <1>2, <2>1, <2>2, ListedIsOfCatalog DEF EntryMayBecome
  <2>4. EntryMayBecome(b[r], c[r]) BY <1>2, <2>3 DEF MayFollow
  <2>5. c[r] \in Entry
    BY <1>2, <2>1, <2>4, ListedIsOfCatalog DEF EntryMayBecome
  <2>6. QED BY <2>1, <2>2, <2>3, <2>4, <2>5, EntriesArePartiallyOrdered
<1>3. QED BY <1>1, <1>2 DEF Follows

LEMMA FollowsIsAntisymmetric ==
  ASSUME NEW a \in History, NEW b \in History, Follows(a, b), Follows(b, a)
  PROVE  a = b
<1> SUFFICES ASSUME a \in Catalog, b \in Catalog, MayFollow(a, b), MayFollow(b, a)
             PROVE  a = b
  BY DEF Follows
<1>1. \A r \in Release : a[r] = b[r]
  <2> SUFFICES ASSUME NEW r \in Release PROVE a[r] = b[r] OBVIOUS
  <2>1. CASE r \in Listed(a)
    <3>1. a[r] \in Entry /\ EntryMayBecome(a[r], b[r]) BY <2>1, ListedIsOfCatalog DEF MayFollow
    <3>2. r \in Listed(b) BY <3>1, ListedIsOfCatalog DEF EntryMayBecome
    <3>3. b[r] \in Entry /\ EntryMayBecome(b[r], a[r]) BY <3>2, ListedIsOfCatalog DEF MayFollow
    <3>4. QED BY <3>1, <3>3, EntriesArePartiallyOrdered
  <2>2. CASE r \notin Listed(a)
    <3>1. a[r] = Absent BY <2>2, ListedIsOfCatalog
    <3>2. r \notin Listed(b) BY <3>1 DEF MayFollow, EntryMayBecome
    <3>3. QED BY <3>1, <3>2, ListedIsOfCatalog
  <2>3. QED BY <2>1, <2>2
<1>2. QED BY <1>1 DEF Catalog

-----------------------------------------------------------------------------
(* The inductive invariant *)

Tables ==
  /\ local \in [Publisher -> SUBSET Release]
  /\ todo \in [Publisher -> SUBSET Release]

Running == Phase \ (Ended \cup {"confirm"})

\* Whoever read a and wants to write c: c may follow a, and a is active still or was.
PlanHolds(a, c) == c \in Catalog /\ MayFollow(a, c) /\ Follows(a, active)

\* As long as a is active, what was checked of c stays true: only releases that a has
\* withdrawn are removed, and c does not offer them.
Checked(a, c, rs) == active = a => \A r \in rs : stored[r] = c[r].build

PlanOf(p) == pc[p] \in Running =>
  /\ PlanHolds(prior[p], next[p])
  /\ pc[p] = "public" => Checked(prior[p], next[p], Offered(next[p]) \ todo[p])
  /\ pc[p] \in {"metadata", "activate"} => Checked(prior[p], next[p], Offered(next[p]))
  /\ pc[p] = "activate" => next[p] \in archive

PlansHold == \A p \in Publisher : PlanOf(p)

\* A PUT that its publisher gave up on is as good as one that it is about to make.
LatePlansHold ==
  \A q \in late \cap CatalogPut :
    /\ PlanHolds(q.ifMatch, q.catalog)
    /\ Checked(q.ifMatch, q.catalog, Offered(q.catalog))
    /\ q.catalog \in archive

PublishInv == TypeOK /\ Tables /\ PlansHold /\ LatePlansHold /\ DownloadsAreServed

LEMMA InitInv == Init => PublishInv
<1> SUFFICES ASSUME Init PROVE PublishInv OBVIOUS
<1> USE DEF Init
<1>1. TypeOK
  <2>1. 0 \in 0..MaxRuns BY BoundAssumption
  <2>2. \A p \in Publisher : local[p] \cup todo[p] \subseteq Offered(next[p]) OBVIOUS
  <2>3. QED BY <2>1, <2>2 DEF TypeOK, Phase, Ended
<1>2. Tables BY DEF Tables
<1>3. PlansHold BY DEF PlansHold, PlanOf, Running, Phase, Ended
<1>4. LatePlansHold BY DEF LatePlansHold
<1>5. DownloadsAreServed
  BY ListedIsOfCatalog, AbsentAssumption DEF DownloadsAreServed, History
<1>6. QED BY <1>1, <1>2, <1>3, <1>4, <1>5 DEF PublishInv

-----------------------------------------------------------------------------
(* What a step does to the bucket, which is what ReleaseCatalog allows it  *)

Stores == \E r \in Release, b \in Build :
            /\ stored[r] = None /\ stored' = [stored EXCEPT ![r] = b]
            /\ UNCHANGED <<active, archive>>
Removes == \E r \in Listed(active) \ Offered(active) :
            /\ stored' = [stored EXCEPT ![r] = None]
            /\ UNCHANGED <<active, archive>>
Archives == \E c \in Catalog : archive' = archive \cup {c} /\ UNCHANGED <<active, stored>>
Activates == \E c \in Catalog :
            /\ MayFollow(active, c) /\ c \in archive
            /\ \A r \in Offered(c) : stored[r] = c[r].build
            /\ active' = c
            /\ UNCHANGED <<stored, archive>>

BucketStep == Stores \/ Removes \/ Archives \/ Activates \/ UNCHANGED bucket

\* What a publisher uploads is a build of a release, and what it gave up on was one.
LEMMA UploadIsArtifact ==
  ASSUME TypeOK, NEW p \in Publisher, pc[p] \in {"put", "verify"}, next[p] \in Catalog
  PROVE  item[p] \in Release /\ Upload(p) \in ArtifactPut
<1>1. item[p] \in Offered(next[p]) BY DEF TypeOK
<1>2. item[p] \in Release /\ next[p][item[p]] \in Entry
  BY <1>1, ListedIsOfCatalog DEF History
<1>3. QED BY <1>2 DEF Upload, ArtifactPut, Entry

LEMMA PublisherTouchesBucket ==
  ASSUME PublishInv, NEW p \in Publisher, PutArtifact(p) \/ PutMetadata(p) \/ PutCatalog(p)
  PROVE  BucketStep
<1>1. pc[p] \in {"put", "metadata", "activate"} BY DEF PutArtifact, PutMetadata, PutCatalog
<1>2. PlanHolds(prior[p], next[p]) /\ next[p] \in Catalog
  BY <1>1 DEF PublishInv, PlansHold, PlanOf, Running, Phase, Ended, PlanHolds
<1>3. CASE PutArtifact(p) /\ IsNew(Upload(p))
  <2>1. item[p] \in Release /\ Upload(p).build \in Build
    BY <1>2, <1>3, UploadIsArtifact DEF PublishInv, PutArtifact, ArtifactPut
  <2>2. stored[item[p]] = None BY <1>3 DEF IsNew, Upload
  <2>3. UNCHANGED <<active, archive>> /\ stored' = [stored EXCEPT ![item[p]] = Upload(p).build]
    BY <1>3 DEF PutArtifact
  <2>4. QED BY <2>1, <2>2, <2>3 DEF BucketStep, Stores
<1>4. CASE PutArtifact(p) /\ ~IsNew(Upload(p))
  BY <1>4 DEF PutArtifact, BucketStep, bucket
<1>5. CASE PutMetadata(p) BY <1>2, <1>5 DEF PutMetadata, BucketStep, Archives
<1>6. CASE PutCatalog(p) /\ Matches(Activation(p))
  <2>1. active = prior[p] /\ active' = next[p] /\ UNCHANGED <<stored, archive>>
    BY <1>6 DEF PutCatalog, Matches, Activation
  <2>2. Checked(prior[p], next[p], Offered(next[p])) /\ next[p] \in archive
    BY <1>6 DEF PutCatalog, PublishInv, PlansHold, PlanOf, Running, Phase, Ended
  <2>3. QED BY <1>2, <2>1, <2>2 DEF PlanHolds, Checked, BucketStep, Activates
<1>7. CASE PutCatalog(p) /\ ~Matches(Activation(p))
  BY <1>7 DEF PutCatalog, BucketStep, bucket
<1>8. QED BY <1>3, <1>4, <1>5, <1>6, <1>7

LEMMA LateTouchesBucket ==
  ASSUME PublishInv, NEW q \in late, LateArtifact(q) \/ LateCatalog(q)
  PROVE  BucketStep
<1>1. CASE LateArtifact(q) /\ IsNew(q)
  <2>1. q.release \in Release /\ q.build \in Build BY <1>1 DEF LateArtifact, ArtifactPut
  <2>2. QED BY <1>1, <2>1 DEF LateArtifact, IsNew, BucketStep, Stores
<1>2. CASE LateArtifact(q) /\ ~IsNew(q) BY <1>2 DEF LateArtifact, BucketStep, bucket
<1>3. CASE LateCatalog(q) /\ Matches(q)
  <2>1. active = q.ifMatch /\ active' = q.catalog /\ UNCHANGED <<stored, archive>>
    BY <1>3 DEF LateCatalog, Matches
  <2>2. /\ PlanHolds(q.ifMatch, q.catalog) /\ q.catalog \in archive
        /\ Checked(q.ifMatch, q.catalog, Offered(q.catalog))
    BY <1>3 DEF LateCatalog, PublishInv, LatePlansHold
  <2>3. QED BY <2>1, <2>2 DEF PlanHolds, Checked, BucketStep, Activates
<1>4. CASE LateCatalog(q) /\ ~Matches(q) BY <1>4 DEF LateCatalog, BucketStep, bucket
<1>5. QED BY <1>1, <1>2, <1>3, <1>4

LEMMA BucketChanges ==
  ASSUME PublishInv, [Next]_vars
  PROVE  BucketStep
<1>1. CASE UNCHANGED vars BY <1>1 DEF vars, BucketStep
<1>2. CASE \E p \in Publisher, c \in Catalog : \E copies \in SUBSET Offered(c) : ReadActive(p, c, copies)
  BY <1>2 DEF ReadActive, BucketStep
<1>3. CASE \E p \in Publisher, r \in Release : CheckHistory(p, r) \/ Head(p, r) \/ CheckPublic(p, r)
  BY <1>3 DEF CheckHistory, Head, CheckPublic, BucketStep
<1>4. CASE \E p \in Publisher : NextPhase(p) \/ VerifyArtifact(p) \/ Confirm(p) \/ Fails(p) \/ GivesUp(p) \/ Killed(p)
  BY <1>4 DEF NextPhase, VerifyArtifact, Confirm, Fails, GivesUp, Killed, BucketStep
<1>5. CASE \E p \in Publisher : PutArtifact(p) \/ PutMetadata(p) \/ PutCatalog(p)
  BY <1>5, PublisherTouchesBucket
<1>6. CASE \E q \in late : LateArtifact(q) \/ LateCatalog(q) BY <1>6, LateTouchesBucket
<1>7. CASE \E r \in Release : OperatorRemoves(r)
  BY <1>7 DEF OperatorRemoves, InR2, BucketStep, Removes
<1>8. CASE \E r \in Release, b \in Build : GitHubPublishes(r, b)
  BY <1>8 DEF GitHubPublishes, BucketStep, Stores
<1>9. QED BY <1>1, <1>2, <1>3, <1>4, <1>5, <1>6, <1>7, <1>8 DEF Next

LEMMA BucketStepsArePromised ==
  ASSUME BucketStep
  PROVE  [Promise!Next]_(Promise!vars)
<1>1. CASE Stores BY <1>1 DEF Stores, Promise!Next, Promise!Store
<1>2. CASE Removes
  BY <1>2 DEF Removes, Listed, Offered, Releases, Promise!Next, Promise!Remove, Promise!Listed,
              Promise!Offered, Promise!Releases
<1>3. CASE Archives
  BY <1>3 DEF Archives, Catalog, Entry, Status, Promise!Next, Promise!Archive, Promise!Catalog,
              Promise!Entry, Promise!Status
<1>4. CASE Activates
  BY <1>4 DEF Activates, Catalog, Entry, Status, MayFollow, EntryMayBecome, Listed, Offered, Releases,
              Promise!Next, Promise!Activate, Promise!Catalog, Promise!Entry, Promise!Status,
              Promise!MayFollow, Promise!EntryMayBecome, Promise!InPlace, Promise!Listed,
              Promise!Offered, Promise!Releases
<1>5. CASE UNCHANGED bucket BY <1>5 DEF bucket, Promise!vars
<1>6. QED BY <1>1, <1>2, <1>3, <1>4, <1>5 DEF BucketStep

-----------------------------------------------------------------------------
(* What a step of the bucket keeps *)

LEMMA ActiveGoesOn ==
  ASSUME TypeOK, BucketStep
  PROVE  /\ active' \in History /\ active \in History /\ Follows(active, active')
         /\ stored' \in [Release -> Build \cup {None}] /\ archive' \in SUBSET Catalog
         /\ archive \subseteq archive'
BY ListedIsOfCatalog DEF TypeOK, BucketStep, Stores, Removes, Archives, Activates, bucket, Follows, History

\* An artifact that is in place stays so, unless its release is withdrawn.
LEMMA PlacedStays ==
  ASSUME TypeOK, BucketStep, NEW r \in Release, NEW b \in Build, stored[r] = b,
         r \notin Listed(active) \ Offered(active)
  PROVE  stored'[r] = b
BY NamesAssumption DEF TypeOK, BucketStep, Stores, Removes, Archives, Activates, bucket

LEMMA ServedStays ==
  ASSUME TypeOK, DownloadsAreServed, BucketStep
  PROVE  DownloadsAreServed'
<1>1. CASE Activates
  BY <1>1 DEF Activates, DownloadsAreServed
<1>2. CASE UNCHANGED active
  <2> SUFFICES ASSUME NEW r \in Offered(active) PROVE stored'[r] = active[r].build
    BY <1>2 DEF DownloadsAreServed
  <2>1. r \in Release /\ active[r].build \in Build
    BY ListedIsOfCatalog DEF TypeOK, History, Entry
  <2>2. QED BY <2>1, PlacedStays DEF DownloadsAreServed
<1>3. QED
  BY <1>1, <1>2 DEF BucketStep, Stores, Removes, Archives, bucket

\* What a plan has seen stays true, whatever others store, remove or activate.
LEMMA PlansPersist ==
  ASSUME TypeOK, BucketStep, NEW a \in History, NEW c, PlanHolds(a, c),
         NEW rs \in SUBSET Offered(c)
  PROVE  /\ c \in Catalog /\ MayFollow(a, c) /\ Follows(a, active')
         /\ Checked(a, c, rs) => (active' = a => \A r \in rs : stored'[r] = c[r].build)
<1>1. Follows(a, active') BY ActiveGoesOn, FollowsIsTransitive DEF PlanHolds
<1>2. ASSUME Checked(a, c, rs), active' = a, NEW r \in rs
      PROVE  stored'[r] = c[r].build
  <2>1. active = a BY <1>2, ActiveGoesOn, FollowsIsAntisymmetric DEF PlanHolds
  <2>2. stored[r] = c[r].build BY <1>2, <2>1 DEF Checked
  <2>3. r \in Listed(c) /\ r \in Release /\ c[r] \in Entry /\ c[r].status # "withdrawn"
    BY ListedIsOfCatalog DEF PlanHolds, History, Offered
  <2>4. r \notin Listed(a) \ Offered(a)
    BY <2>3 DEF PlanHolds, MayFollow, EntryMayBecome, Offered
  <2>5. QED BY <2>1, <2>2, <2>3, <2>4, PlacedStays DEF Entry
<1>3. QED BY <1>1, <1>2 DEF PlanHolds

-----------------------------------------------------------------------------
(* Types *)

\* What a publisher keeps, apart from what is the bucket's.
PublisherTypes ==
  /\ Tables
  /\ pc \in [Publisher -> Phase]
  /\ next \in [Publisher -> History]
  /\ prior \in [Publisher -> History]
  /\ \A p \in Publisher : local[p] \cup todo[p] \subseteq Offered(next[p])
  /\ item \in [Publisher -> Release \cup {None}]
  /\ \A p \in Publisher : pc[p] \in {"put", "verify"} => item[p] \in todo[p]

LEMMA EndsTypes ==
  ASSUME PublisherTypes, NEW p \in Publisher, NEW how \in Ended, Ends(p, how)
  PROVE  PublisherTypes'
<1> USE DEF PublisherTypes, Tables, Ends, Goes, Deals, Phase, Ended, History
<1>1. next' = [next EXCEPT ![p] = NoCatalog] /\ next' \in [Publisher -> History] OBVIOUS
<1>2. \A q \in Publisher : local'[q] \cup todo'[q] \subseteq Offered(next'[q])
  <2> SUFFICES ASSUME NEW q \in Publisher PROVE local'[q] \cup todo'[q] \subseteq Offered(next'[q])
    OBVIOUS
  <2>1. CASE q = p BY <2>1
  <2>2. CASE q # p BY <2>2
  <2>3. QED BY <2>1, <2>2
<1>3. QED BY <1>1, <1>2

LEMMA StartTypes ==
  ASSUME PublisherTypes, active \in History, NEW p \in Publisher, NEW c \in Catalog,
         NEW copies \in SUBSET Offered(c), ReadActive(p, c, copies)
  PROVE  PublisherTypes'
<1>1. CASE Ends(p, "failed") BY <1>1, EndsTypes DEF Ended
<1>2. CASE ~Ends(p, "failed")
  <2>1. /\ pc' = [pc EXCEPT ![p] = "history"] /\ next' = [next EXCEPT ![p] = c]
        /\ prior' = [prior EXCEPT ![p] = active] /\ local' = [local EXCEPT ![p] = copies]
        /\ todo' = [todo EXCEPT ![p] = InR2(Offered(c) \ copies)] /\ UNCHANGED item
    BY <1>2 DEF ReadActive, Goes, Deals
  <2>2. Offered(c) \subseteq Release BY ListedIsOfCatalog DEF History
  <2>3. InR2(Offered(c) \ copies) \subseteq Offered(c) BY DEF InR2
  <2>4. \A q \in Publisher : local'[q] \cup todo'[q] \subseteq Offered(next'[q])
    <3> SUFFICES ASSUME NEW q \in Publisher PROVE local'[q] \cup todo'[q] \subseteq Offered(next'[q])
      OBVIOUS
    <3>1. CASE q = p BY <2>1, <2>3, <3>1 DEF PublisherTypes, Tables
    <3>2. CASE q # p BY <2>1, <3>2 DEF PublisherTypes, Tables
    <3>3. QED BY <3>1, <3>2
  <2>5. QED BY <2>1, <2>2, <2>3, <2>4 DEF PublisherTypes, Tables, Phase, Ended, History
<1>3. QED BY <1>1, <1>2

\* A step to another phase, or within one, that changes what is left to do.
LEMMA GoesOnTypes ==
  ASSUME PublisherTypes, NEW p \in Publisher, NEW phase \in Phase, NEW left \in SUBSET Offered(next[p]),
         NEW r \in Release \cup {None}, phase \in {"put", "verify"} => r \in left,
         next[p] \in Catalog,
         pc' = [pc EXCEPT ![p] = phase], todo' = [todo EXCEPT ![p] = left],
         item' = [item EXCEPT ![p] = r], UNCHANGED mine
  PROVE  PublisherTypes'
<1>1. left \subseteq Release BY ListedIsOfCatalog DEF History
<1>2. QED BY <1>1 DEF PublisherTypes, Tables, mine

LEMMA StepTypes ==
  ASSUME PublishInv, PublisherTypes, [Next]_vars
  PROVE  PublisherTypes'
<1>1. CASE UNCHANGED <<pc, mine, todo, item>> BY <1>1 DEF PublisherTypes, Tables, mine
<1>2. CASE \E p \in Publisher, how \in Ended : Ends(p, how) BY <1>2, EndsTypes
<1>3. CASE \E p \in Publisher, c \in Catalog : \E copies \in SUBSET Offered(c) : ReadActive(p, c, copies)
  BY <1>3, StartTypes DEF PublishInv, TypeOK, History
<1>4. ASSUME NEW p \in Publisher, pc[p] \in Running, ~UNCHANGED <<pc, mine, todo, item>>,
             ~ \E how \in Ended : Ends(p, how),
             \/ NextPhase(p) \/ PutArtifact(p) \/ VerifyArtifact(p) \/ PutMetadata(p) \/ PutCatalog(p)
             \/ \E r \in Release : CheckHistory(p, r) \/ Head(p, r) \/ CheckPublic(p, r)
      PROVE  PublisherTypes'
  <2>1. next[p] \in Catalog BY <1>4 DEF PublishInv, PlansHold, PlanOf, PlanHolds
  <2>2. todo[p] \subseteq Offered(next[p]) /\ local[p] \subseteq Offered(next[p]) BY DEF PublisherTypes
  <2>3. /\ pc = [pc EXCEPT ![p] = pc[p]] /\ todo = [todo EXCEPT ![p] = todo[p]]
        /\ item = [item EXCEPT ![p] = item[p]] /\ item[p] \in Release \cup {None}
    BY DEF PublisherTypes, Tables
  <2> USE <1>4, <2>1, <2>2, <2>3, GoesOnTypes DEF Goes, Deals, Handled, Phase, Ended
  <2>4. CASE NextPhase(p)
    <3>1. Uploads(p) \subseteq Offered(next[p]) /\ Downloads(p) \subseteq Offered(next[p])
      BY DEF Uploads, Downloads, InR2
    <3>2. UNCHANGED <<mine, item>> BY <2>4 DEF NextPhase
    <3>3. CASE pc' = [pc EXCEPT ![p] = "head"] /\ todo' = [todo EXCEPT ![p] = Uploads(p)] BY <3>1, <3>2, <3>3
    <3>4. CASE pc' = [pc EXCEPT ![p] = "public"] /\ todo' = [todo EXCEPT ![p] = Downloads(p)] BY <3>1, <3>2, <3>4
    <3>5. CASE pc' = [pc EXCEPT ![p] = "metadata"] /\ UNCHANGED todo BY <3>2, <3>5
    <3>6. QED BY <2>4, <3>3, <3>4, <3>5 DEF NextPhase
  <2>5. CASE \E r \in Release : CheckHistory(p, r) \/ CheckPublic(p, r)
    <3>1. PICK r \in Release : todo' = [todo EXCEPT ![p] = todo[p] \ {r}] /\ UNCHANGED <<pc, mine, item>>
      BY <2>5 DEF CheckHistory, CheckPublic
    <3>2. pc[p] \in {"history", "public"} BY <2>5 DEF CheckHistory, CheckPublic
    <3>3. QED BY <3>1, <3>2
  <2>6. CASE \E r \in Release : Head(p, r)
    <3>1. PICK r \in Release : Head(p, r) BY <2>6
    <3>2. PICK phase \in {"put", "verify"} : pc' = [pc EXCEPT ![p] = phase] BY <3>1 DEF Head
    <3>3. QED BY <3>1, <3>2 DEF Head
  <2>7. CASE PutArtifact(p)
    <3>1. pc' = [pc EXCEPT ![p] = "verify"] /\ UNCHANGED <<mine, todo, item>> /\ pc[p] = "put"
      BY <2>7 DEF PutArtifact
    <3>2. QED BY <3>1 DEF PublisherTypes
  <2>8. CASE VerifyArtifact(p)
    <3>1. /\ pc' = [pc EXCEPT ![p] = "head"] /\ todo' = [todo EXCEPT ![p] = todo[p] \ {item[p]}]
          /\ item' = [item EXCEPT ![p] = None] /\ UNCHANGED mine
      BY <2>8 DEF VerifyArtifact
    <3>2. QED BY <3>1
  <2>9. CASE PutMetadata(p) BY <2>9 DEF PutMetadata
  <2>10. CASE PutCatalog(p)
    <3>1. pc' = [pc EXCEPT ![p] = "confirm"] /\ UNCHANGED <<mine, todo, item>>
      BY <1>4, <2>10 DEF PutCatalog
    <3>2. QED BY <3>1
  <2>11. QED BY <2>4, <2>5, <2>6, <2>7, <2>8, <2>9, <2>10
<1>5. QED
  <2>1. \A p \in Publisher : Confirm(p) \/ Fails(p) \/ GivesUp(p) \/ Killed(p) => \E how \in Ended : Ends(p, how)
    BY DEF Confirm, Fails, GivesUp, Killed, Ended
  <2>2. \A q : LateArtifact(q) \/ LateCatalog(q) => UNCHANGED <<pc, mine, todo, item>>
    BY DEF LateArtifact, LateCatalog
  <2>3. \A r : OperatorRemoves(r) \/ (\E b : GitHubPublishes(r, b)) => UNCHANGED <<pc, mine, todo, item>>
    BY DEF OperatorRemoves, GitHubPublishes
  <2>4. \A p \in Publisher : \/ NextPhase(p) \/ PutArtifact(p) \/ VerifyArtifact(p) \/ PutMetadata(p) \/ PutCatalog(p)
                             \/ \E r \in Release : CheckHistory(p, r) \/ Head(p, r) \/ CheckPublic(p, r)
                             => pc[p] \in Running
    BY DEF NextPhase, PutArtifact, VerifyArtifact, PutMetadata, PutCatalog, CheckHistory, Head, CheckPublic,
           Running, Phase, Ended
  <2>5. UNCHANGED vars => UNCHANGED <<pc, mine, todo, item>> BY DEF vars
  <2>6. QED BY <1>1, <1>2, <1>3, <1>4, <2>1, <2>2, <2>3, <2>4, <2>5 DEF Next

LEMMA PublisherTypesHold ==
  ASSUME PublishInv
  PROVE  PublisherTypes
BY DEF PublishInv, TypeOK, PublisherTypes, History

\* What a publisher gives up on is a request it was about to make.
LEMMA LateTypes ==
  ASSUME PublishInv, [Next]_vars
  PROVE  /\ late' \subseteq ArtifactPut \cup CatalogPut
         /\ runs' \in 0..MaxRuns
<1>1. late \subseteq ArtifactPut \cup CatalogPut /\ runs \in 0..MaxRuns
  BY DEF PublishInv, TypeOK
<1>2. CASE \E p \in Publisher : GivesUp(p)
  <2>1. PICK p \in Publisher : GivesUp(p) BY <1>2
  <2>2. pc[p] \in {"put", "activate"} BY <2>1 DEF GivesUp
  <2>3. next[p] \in Catalog
    BY <2>2 DEF PublishInv, PlansHold, PlanOf, PlanHolds, Running, Phase, Ended
  <2>4. pc[p] = "put" => Upload(p) \in ArtifactPut BY <2>3, UploadIsArtifact DEF PublishInv
  <2>5. Activation(p) \in CatalogPut BY <2>3 DEF Activation, CatalogPut, PublishInv, TypeOK
  <2>6. late' \subseteq ArtifactPut \cup CatalogPut BY <1>1, <2>1, <2>4, <2>5 DEF GivesUp
  <2>7. QED BY <1>1, <2>1, <2>6 DEF GivesUp
<1>3. CASE \E p \in Publisher, c \in Catalog : \E copies \in SUBSET Offered(c) : ReadActive(p, c, copies)
  BY <1>1, <1>3, BoundAssumption DEF ReadActive
<1>4. CASE \E p \in Publisher : PutCatalog(p) BY <1>1, <1>4 DEF PutCatalog
<1>5. CASE \E q \in late : LateArtifact(q) \/ LateCatalog(q) BY <1>1, <1>5 DEF LateArtifact, LateCatalog
<1>6. CASE UNCHANGED <<late, runs>> BY <1>1, <1>6
<1>7. QED
  <2>1. \A p \in Publisher : \/ NextPhase(p) \/ PutArtifact(p) \/ VerifyArtifact(p) \/ PutMetadata(p)
                             \/ Confirm(p) \/ Fails(p) \/ Killed(p)
                             => UNCHANGED <<late, runs>>
    BY DEF NextPhase, PutArtifact, VerifyArtifact, PutMetadata, Confirm, Fails, Killed, bucket
  <2>2. \A p \in Publisher, r \in Release : CheckHistory(p, r) \/ Head(p, r) \/ CheckPublic(p, r)
                                           => UNCHANGED <<late, runs>>
    BY DEF CheckHistory, Head, CheckPublic
  <2>3. \A r : OperatorRemoves(r) \/ (\E b : GitHubPublishes(r, b)) => UNCHANGED <<late, runs>>
    BY DEF OperatorRemoves, GitHubPublishes
  <2>4. UNCHANGED vars => UNCHANGED <<late, runs>> BY DEF vars
  <2>5. QED BY <1>2, <1>3, <1>4, <1>5, <1>6, <2>1, <2>2, <2>3, <2>4 DEF Next

LEMMA TypesKept ==
  ASSUME PublishInv, [Next]_vars
  PROVE  TypeOK' /\ Tables'
<1>1. BucketStep BY BucketChanges
<1>2. PublisherTypes' BY StepTypes, PublisherTypesHold
<1>3. QED BY <1>1, <1>2, ActiveGoesOn, LateTypes DEF PublishInv, TypeOK, PublisherTypes, Tables, History

-----------------------------------------------------------------------------
(* Plans *)

\* A publisher that keeps its catalogs keeps what it found out about them.
LEMMA PlanPersists ==
  ASSUME PublishInv, BucketStep, NEW p \in Publisher, pc[p] \in Running,
         prior'[p] = prior[p], next'[p] = next[p]
  PROVE  /\ PlanHolds(prior[p], next[p])'
         /\ \A rs \in SUBSET Offered(next[p]) :
              Checked(prior[p], next[p], rs) =>
                (active' = prior'[p] => \A r \in rs : stored'[r] = next'[p][r].build)
         /\ archive \subseteq archive'
<1>1. PlanHolds(prior[p], next[p]) /\ prior[p] \in History
  BY DEF PublishInv, PlansHold, PlanOf, TypeOK, History
<1>2. archive \subseteq archive' BY ActiveGoesOn DEF PublishInv
<1>3. /\ next[p] \in Catalog /\ MayFollow(prior[p], next[p]) /\ Follows(prior[p], active')
      /\ \A rs \in SUBSET Offered(next[p]) :
              Checked(prior[p], next[p], rs) =>
                (active' = prior[p] => \A r \in rs : stored'[r] = next[p][r].build)
  BY <1>1, PlansPersist DEF PublishInv
<1>4. QED BY <1>2, <1>3 DEF PlanHolds

LEMMA WaitingPlan ==
  ASSUME PublishInv, BucketStep, NEW p \in Publisher,
         pc'[p] = pc[p], prior'[p] = prior[p], next'[p] = next[p], todo'[p] = todo[p]
  PROVE  PlanOf(p)'
<1> SUFFICES ASSUME pc[p] \in Running PROVE PlanOf(p)' BY DEF PlanOf
<1>1. PlanOf(p) BY DEF PublishInv, PlansHold
<1>2. QED BY <1>1, PlanPersists DEF PlanOf, Checked

LEMMA EndedPlan ==
  ASSUME PublishInv, NEW p \in Publisher, NEW how \in Ended, Ends(p, how)
  PROVE  PlanOf(p)'
<1>1. pc'[p] = how BY DEF Ends, Goes, PublishInv, TypeOK
<1>2. QED BY <1>1 DEF PlanOf, Running

LEMMA FreshPlan ==
  ASSUME PublishInv, NEW p \in Publisher, NEW c \in Catalog, NEW copies \in SUBSET Offered(c),
         ReadActive(p, c, copies)
  PROVE  PlanOf(p)'
<1>1. CASE Ends(p, "failed") BY <1>1, EndedPlan DEF Ended
<1>2. CASE ~Ends(p, "failed")
  <2>1. /\ pc'[p] = "history" /\ next'[p] = c /\ prior'[p] = active /\ active' = active
        /\ MayFollow(active, c)
    BY <1>2 DEF ReadActive, Goes, bucket, PublishInv, TypeOK
  <2>2. PlanHolds(prior[p], next[p])' BY <2>1 DEF PlanHolds, Follows
  <2>3. QED BY <2>1, <2>2 DEF PlanOf
<1>3. QED BY <1>1, <1>2

\* The steps of a running publisher that do not end its run.
LEMMA OwnPlan ==
  ASSUME PublishInv, BucketStep, NEW p \in Publisher, ~ \E how \in Ended : Ends(p, how),
         \/ NextPhase(p) \/ PutArtifact(p) \/ VerifyArtifact(p) \/ PutMetadata(p) \/ PutCatalog(p)
         \/ \E r \in Release : CheckHistory(p, r) \/ Head(p, r) \/ CheckPublic(p, r)
  PROVE  PlanOf(p)'
<1>1. pc[p] \in Running
  BY DEF NextPhase, PutArtifact, VerifyArtifact, PutMetadata, PutCatalog, CheckHistory, Head, CheckPublic,
         Running, Phase, Ended
<1>2. UNCHANGED mine
  BY DEF NextPhase, PutArtifact, VerifyArtifact, PutMetadata, PutCatalog, CheckHistory, Head, CheckPublic, Ended
<1>3. prior'[p] = prior[p] /\ next'[p] = next[p] BY <1>2 DEF mine
<1>4. /\ PlanHolds(prior[p], next[p])'
      /\ \A rs \in SUBSET Offered(next[p]) :
           Checked(prior[p], next[p], rs) =>
             (active' = prior'[p] => \A r \in rs : stored'[r] = next'[p][r].build)
      /\ archive \subseteq archive'
  BY <1>1, <1>3, PlanPersists
<1>5. PlanOf(p) /\ pc \in [Publisher -> Phase] /\ todo \in [Publisher -> SUBSET Release]
  BY DEF PublishInv, PlansHold, TypeOK, Tables
<1>6. CASE NextPhase(p)
  <2>1. CASE pc'[p] = "head" BY <1>4, <2>1 DEF PlanOf
  <2>2. CASE pc'[p] = "public" /\ todo'[p] = Offered(next[p]) BY <1>3, <1>4, <2>2 DEF PlanOf, Checked
  <2>3. CASE pc'[p] = "metadata" /\ pc[p] = "public" /\ todo[p] = {}
    <3>1. Checked(prior[p], next[p], Offered(next[p])) BY <1>1, <1>5, <2>3 DEF PlanOf
    <3>2. QED BY <1>3, <1>4, <2>3, <3>1 DEF PlanOf, Checked
  <2>4. QED BY <1>5, <1>6, <2>1, <2>2, <2>3 DEF NextPhase, Goes, Deals, Downloads
<1>7. CASE \E r \in Release : CheckPublic(p, r)
  <2>1. PICK r \in Release : CheckPublic(p, r) BY <1>7
  <2>2. /\ pc[p] = "public" /\ pc'[p] = "public" /\ todo'[p] = todo[p] \ {r}
        /\ stored[r] = next[p][r].build
    BY <1>5, <2>1 DEF CheckPublic, Ended, Handled, Deals
  <2>3. Checked(prior[p], next[p], (Offered(next[p]) \ todo[p]) \cup ({r} \cap Offered(next[p])))
    BY <1>1, <1>5, <2>2 DEF PlanOf, Checked
  <2>4. (Offered(next[p]) \ todo'[p]) \subseteq (Offered(next[p]) \ todo[p]) \cup ({r} \cap Offered(next[p]))
    BY <2>2
  <2>5. QED BY <1>3, <1>4, <2>2, <2>3, <2>4 DEF PlanOf, Checked
<1>8. CASE PutMetadata(p)
  <2>1. pc[p] = "metadata" /\ pc'[p] = "activate" /\ next[p] \in archive'
    BY <1>5, <1>8 DEF PutMetadata, Goes
  <2>2. Checked(prior[p], next[p], Offered(next[p])) BY <1>1, <1>5, <2>1 DEF PlanOf
  <2>3. QED BY <1>3, <1>4, <2>1, <2>2 DEF PlanOf, Checked
<1>9. CASE PutCatalog(p)
  BY <1>5, <1>9 DEF PutCatalog, Goes, PlanOf, Running, Ended
<1>10. CASE PutArtifact(p) \/ VerifyArtifact(p) \/ \E r \in Release : CheckHistory(p, r) \/ Head(p, r)
  <2>1. pc'[p] \in {"history", "head", "put", "verify"}
    BY <1>5, <1>10 DEF PutArtifact, VerifyArtifact, CheckHistory, Head, Goes, Ended
  <2>2. QED BY <1>4, <2>1 DEF PlanOf
<1>11. QED BY <1>6, <1>7, <1>8, <1>9, <1>10

LEMMA PlansKept ==
  ASSUME PublishInv, [Next]_vars
  PROVE  PlansHold'
<1> SUFFICES ASSUME NEW q \in Publisher PROVE PlanOf(q)' BY DEF PlansHold
<1>1. BucketStep BY BucketChanges
<1>2. TypeOK /\ Tables BY DEF PublishInv
<1>3. CASE pc'[q] = pc[q] /\ prior'[q] = prior[q] /\ next'[q] = next[q] /\ todo'[q] = todo[q]
  BY <1>1, <1>3, WaitingPlan
<1>4. CASE \E how \in Ended : Ends(q, how) BY <1>4, EndedPlan
<1>5. ASSUME NEW p \in Publisher, p # q, NEW how \in Ended, Ends(p, how)
      PROVE  pc'[q] = pc[q] /\ prior'[q] = prior[q] /\ next'[q] = next[q] /\ todo'[q] = todo[q]
  BY <1>2, <1>5 DEF Ends, Goes, Deals, TypeOK, Tables
<1>6. CASE \E p \in Publisher, c \in Catalog : \E copies \in SUBSET Offered(c) : ReadActive(p, c, copies)
  <2>1. PICK p \in Publisher, c \in Catalog : \E copies \in SUBSET Offered(c) : ReadActive(p, c, copies)
    BY <1>6
  <2>2. CASE p = q BY <2>1, <2>2, FreshPlan
  <2>3. CASE p # q
    BY <1>2, <1>3, <1>5, <2>1, <2>3 DEF ReadActive, Goes, Deals, TypeOK, Tables, Ended
  <2>4. QED BY <2>2, <2>3
<1>7. ASSUME NEW p \in Publisher,
             \/ NextPhase(p) \/ PutArtifact(p) \/ VerifyArtifact(p) \/ PutMetadata(p) \/ PutCatalog(p)
             \/ \E r \in Release : CheckHistory(p, r) \/ Head(p, r) \/ CheckPublic(p, r)
      PROVE  PlanOf(q)'
  <2>1. CASE p = q BY <1>1, <1>4, <1>7, <2>1, OwnPlan
  <2>2. CASE p # q /\ \E how \in Ended : Ends(p, how) BY <1>3, <1>5, <2>2
  <2>3. CASE p # q /\ ~ \E how \in Ended : Ends(p, how)
    <3>1. UNCHANGED mine
      BY <1>7, <2>3 DEF NextPhase, PutArtifact, VerifyArtifact, PutMetadata, PutCatalog, CheckHistory, Head,
                        CheckPublic, Ended
    <3>2. pc'[q] = pc[q] /\ todo'[q] = todo[q]
      BY <1>2, <1>7, <2>3 DEF NextPhase, PutArtifact, VerifyArtifact, PutMetadata, PutCatalog, CheckHistory,
                              Head, CheckPublic, Goes, Deals, Handled, TypeOK, Tables, Ended
    <3>3. QED BY <1>3, <3>1, <3>2 DEF mine
  <2>4. QED BY <2>1, <2>2, <2>3
<1>8. ASSUME NEW p \in Publisher, Confirm(p) \/ Fails(p) \/ GivesUp(p) \/ Killed(p)
      PROVE  PlanOf(q)'
  <2>1. \E how \in Ended : Ends(p, how) BY <1>8 DEF Confirm, Fails, GivesUp, Killed, Ended
  <2>2. QED BY <1>3, <1>4, <1>5, <2>1
<1>9. CASE UNCHANGED <<pc, mine, todo>> BY <1>3, <1>9 DEF mine
<1>10. QED
  <2>1. \A r \in late : LateArtifact(r) \/ LateCatalog(r) => UNCHANGED <<pc, mine, todo>>
    BY DEF LateArtifact, LateCatalog
  <2>2. \A r : OperatorRemoves(r) \/ (\E b : GitHubPublishes(r, b)) => UNCHANGED <<pc, mine, todo>>
    BY DEF OperatorRemoves, GitHubPublishes
  <2>3. UNCHANGED vars => UNCHANGED <<pc, mine, todo>> BY DEF vars
  <2>4. QED BY <1>6, <1>7, <1>8, <1>9, <2>1, <2>2, <2>3 DEF Next

-----------------------------------------------------------------------------
(* Plans of publishers that are gone *)

\* A request that R2 may still carry out was one already, or its publisher gives up on it now.
LEMMA LateRequests ==
  ASSUME [Next]_vars, NEW q \in late', q \notin late
  PROVE  \E p \in Publisher :
           /\ GivesUp(p)
           /\ \/ pc[p] = "put" /\ q = Upload(p)
              \/ pc[p] = "activate" /\ q = Activation(p)
<1>1. \A p \in Publisher : \/ NextPhase(p) \/ PutArtifact(p) \/ VerifyArtifact(p) \/ PutMetadata(p)
                           \/ PutCatalog(p) \/ Confirm(p) \/ Fails(p) \/ Killed(p)
                           => UNCHANGED late
  BY DEF NextPhase, PutArtifact, VerifyArtifact, PutMetadata, PutCatalog, Confirm, Fails, Killed
<1>2. \A p \in Publisher, r \in Release : CheckHistory(p, r) \/ Head(p, r) \/ CheckPublic(p, r) => UNCHANGED late
  BY DEF CheckHistory, Head, CheckPublic
<1>3. \A p \in Publisher, c \in Catalog : \A copies : ReadActive(p, c, copies) => UNCHANGED late
  BY DEF ReadActive
<1>4. \A r \in late : LateArtifact(r) \/ LateCatalog(r) => late' \subseteq late
  BY DEF LateArtifact, LateCatalog
<1>5. \A r : OperatorRemoves(r) \/ (\E b : GitHubPublishes(r, b)) => UNCHANGED late
  BY DEF OperatorRemoves, GitHubPublishes
<1>6. UNCHANGED vars => UNCHANGED late BY DEF vars
<1>7. \E p \in Publisher : GivesUp(p) BY <1>1, <1>2, <1>3, <1>4, <1>5, <1>6 DEF Next
<1>8. QED BY <1>7 DEF GivesUp

LEMMA LatePlansKept ==
  ASSUME PublishInv, [Next]_vars
  PROVE  LatePlansHold'
<1> SUFFICES ASSUME NEW q \in late', q \in CatalogPut
             PROVE  /\ q.catalog \in Catalog /\ MayFollow(q.ifMatch, q.catalog)
                    /\ Follows(q.ifMatch, active')
                    /\ active' = q.ifMatch => \A r \in Offered(q.catalog) : stored'[r] = q.catalog[r].build
                    /\ q.catalog \in archive'
  BY DEF LatePlansHold, PlanHolds, Checked
<1>1. /\ PlanHolds(q.ifMatch, q.catalog) /\ q.catalog \in archive
      /\ Checked(q.ifMatch, q.catalog, Offered(q.catalog))
  <2>1. CASE q \in late BY <2>1 DEF PublishInv, LatePlansHold
  <2>2. CASE q \notin late
    <3>1. PICK p \in Publisher : \/ pc[p] = "put" /\ q = Upload(p)
                                 \/ pc[p] = "activate" /\ q = Activation(p)
      BY <2>2, LateRequests
    <3>2. CASE q = Upload(p) BY <3>2 DEF Upload, CatalogPut
    <3>3. CASE pc[p] = "activate" /\ q = Activation(p)
      <4>1. q.ifMatch = prior[p] /\ q.catalog = next[p] BY <3>3 DEF Activation
      <4>2. QED BY <3>3, <4>1 DEF PublishInv, PlansHold, PlanOf, Running, Phase, Ended
    <3>4. QED BY <3>1, <3>2, <3>3
  <2>3. QED BY <2>1, <2>2
<1>2. q.ifMatch \in History BY DEF CatalogPut, History
<1>3. BucketStep BY BucketChanges
<1>4. QED BY <1>1, <1>2, <1>3, PlansPersist, ActiveGoesOn DEF PublishInv

LEMMA NextKeepsInv == PublishInv /\ [Next]_vars => PublishInv'
BY BucketChanges, TypesKept, PlansKept, LatePlansKept, ServedStays DEF PublishInv

-----------------------------------------------------------------------------
(* The theorems *)

LEMMA Invariance == Spec => []PublishInv
BY InitInv, NextKeepsInv, PTL DEF Spec

\* Every field keeps its type, for any number of publishers, and a publisher deals only with
\* releases that its catalog offers.
THEOREM TypeCorrect == Spec => []TypeOK
<1>1. PublishInv => TypeOK BY DEF PublishInv
<1>2. QED BY <1>1, Invariance, PTL

\* Everything the active catalog offers is in place, however many publishers and operators
\* there are and however late an abandoned PUT lands.
THEOREM OffersAreServed == Spec => []DownloadsAreServed
<1>1. PublishInv => DownloadsAreServed BY DEF PublishInv
<1>2. QED BY <1>1, Invariance, PTL

\* Whatever publishers do together, readers see one catalog that only grows out of its history.
THEOREM PublishersShareOneCatalog == Spec => ImplementsReleaseCatalog
<1>1. Init => Promise!Init BY DEF Init, Promise!Init
<1>2. PublishInv /\ [Next]_vars => [Promise!Next]_(Promise!vars)
  BY BucketChanges, BucketStepsArePromised
<1>3. QED BY <1>1, <1>2, Invariance, PTL DEF Spec, ImplementsReleaseCatalog, Promise!Spec
=============================================================================
