-------------------------- MODULE InfrastructureProofs --------------------------
(***************************************************************************)
(* The registry of facilities, the lookups over it and the models trained  *)
(* on it, for any facilities, buckets, mirrors and gates and any number of *)
(* overlapping imports, lookups and trainings.                             *)
(*                                                                         *)
(* Imports.  A facility once verified stays so, so a bucket an import has  *)
(* committed stays covered, and what it has not committed is still on one  *)
(* of its lists until the last round has moved it to the failed ones.      *)
(*                                                                         *)
(* Lookups.  What is verified of a category only grows, so what a lookup   *)
(* counted, and what was in range when it was asked, holds when it         *)
(* resolves a category; and a live answer, cached or not, is cut from what *)
(* some mirror knows, and empty only if the mirror knows of nothing.       *)
(*                                                                         *)
(* Models.  A request that has taken the version after the newest has,     *)
(* from its UPDATE to its insert, every active row in hand; a request      *)
(* whose version was taken raises.  The file of a version is written by    *)
(* one request, or the version is contested.                               *)
(***************************************************************************)
EXTENDS NearbyPlaces, ForecastModels, FiniteSetTheorems, TLAPS

(* Imports. *)

Covered(b) == \A k \in Within[b] : Verified(k)

\* Buckets the import has not committed.
Outstanding(run) ==
  run.todo \cup run.retry \cup run.failed \cup (IF run.pc = "upsert" THEN {run.at} ELSE {})

Accounted ==
  \A i \in Imports : imports[i].pc \in {"fetch", "upsert", "done"} =>
    \A b \in Buckets \ Outstanding(imports[i]) : Covered(b)

\* In the last round nothing is put off, and who reports has nothing left.
Rounds ==
  \A i \in Imports :
    /\ imports[i].round = Backfills => imports[i].retry = {}
    /\ imports[i].pc = "done" => imports[i].todo = {} /\ imports[i].retry = {}

Upserts ==
  \A i \in Imports : imports[i].pc = "upsert" =>
    imports[i].at \in Buckets /\ imports[i].seen \subseteq Within[imports[i].at] \cap Registered

RegistryInv == RegistryTypeOK /\ Accounted /\ Rounds /\ Upserts

-----------------------------------------------------------------------------
LEMMA NoneIsNoFacility == None \notin Facility
BY FacilityAssumption DEF Facility

LEMMA OsmIsNoFile ==
  ASSUME NEW b \in Buckets, NEW k \in Within[b]
  PROVE  k \in Facilities /\ k \notin FileRows
BY FacilityAssumption DEF Facilities

LEMMA RegistryStart == RegistryInit => RegistryInv
<1> SUFFICES ASSUME RegistryInit PROVE RegistryInv
  OBVIOUS
<1>1. Requested \in Import
  BY FacilityAssumption DEF Requested, Import
<1>2. RegistryTypeOK
  BY <1>1 DEF RegistryInit, RegistryTypeOK
<1>3. \A i \in Imports : imports[i].pc = "none" /\ imports[i].retry = {}
  BY DEF RegistryInit, Requested
<1>4. Accounted /\ Rounds /\ Upserts
  BY <1>3 DEF Accounted, Rounds, Upserts
<1> QED
  BY <1>2, <1>4 DEF RegistryInv

\* What the registry knows is not taken back from facilities of OpenStreetMap.
Kept == \A b \in Buckets : \A k \in Within[b] :
          /\ k \in Registered => k \in Registered'
          /\ Verified(k) => Verified(k)'

LEMMA UnchangedKept == UNCHANGED registry => Kept
BY DEF Kept, Registered, Verified

\* An import that a step leaves alone keeps its part of the invariant.
Fits(i) ==
  /\ imports[i] \in Import
  /\ imports[i].pc \in {"fetch", "upsert", "done"} =>
       \A b \in Buckets \ Outstanding(imports[i]) : Covered(b)
  /\ imports[i].round = Backfills => imports[i].retry = {}
  /\ imports[i].pc = "done" => imports[i].todo = {} /\ imports[i].retry = {}
  /\ imports[i].pc = "upsert" =>
       imports[i].at \in Buckets /\ imports[i].seen \subseteq Within[imports[i].at] \cap Registered

LEMMA OthersKeep ==
  ASSUME Kept, NEW i \in Imports, Fits(i), imports'[i] = imports[i]
  PROVE  Fits(i)'
<1>1. imports'[i] \in Import
  BY DEF Fits
<1>2. \A b \in Buckets : Covered(b) => Covered(b)'
  BY DEF Covered, Kept
<1>3. imports[i].pc = "upsert" => imports[i].seen \subseteq Registered'
  <2> SUFFICES ASSUME imports[i].pc = "upsert", NEW k \in imports[i].seen
               PROVE  k \in Registered'
    OBVIOUS
  <2>1. imports[i].at \in Buckets /\ k \in Within[imports[i].at] /\ k \in Registered
    BY DEF Fits
  <2> QED
    BY <2>1 DEF Kept
<1> QED
  BY <1>1, <1>2, <1>3 DEF Fits, Outstanding

LEMMA Assembled == RegistryInv <=> /\ registry \in [Facilities -> Facility \cup {None}]
                            /\ imports \in [Imports -> Import]
                            /\ assets \subseteq Facilities \cup Manual
                            /\ \A i \in Imports : Fits(i)
BY DEF RegistryInv, RegistryTypeOK, Accounted, Rounds, Upserts, Fits

-----------------------------------------------------------------------------
(* One lemma for the steps of an import that leave the registry alone, one *)
(* for the commit of a bucket, one for the steps that leave imports alone. *)

LEMMA ImportSteps ==
  ASSUME RegistryInv, NEW i \in Imports,
         \/ StartImport(i) \/ EndRound(i) \/ KillImport(i)
         \/ \E b \in Buckets : FetchFails(i, b) \/ FetchAnswers(i, b)
  PROVE  RegistryInv'
<1>1. /\ registry \in [Facilities -> Facility \cup {None}] /\ imports \in [Imports -> Import]
      /\ assets \subseteq Facilities \cup Manual /\ \A j \in Imports : Fits(j)
  BY Assembled
<1>2. UNCHANGED <<registry, assets>>
  BY DEF StartImport, EndRound, KillImport, FetchFails, FetchAnswers
<1>3. Kept
  BY <1>2, UnchangedKept
<1>4. \A b \in Buckets : Covered(b) => Covered(b)'
  BY <1>3 DEF Kept, Covered
<1>5. imports' \in [Imports -> Import] /\ Fits(i)' /\ \A j \in Imports \ {i} : imports'[j] = imports[j]
  <2>0. imports[i] \in Import /\ Fits(i) /\ Registered' = Registered
    BY <1>1, <1>2 DEF Registered
  <2>1. CASE StartImport(i)
    <3>0. Requested \in Import /\ Buckets \in SUBSET Buckets
      BY FacilityAssumption DEF Requested, Import
    <3>1. [Requested EXCEPT !.pc = "fetch", !.todo = Buckets] \in Import
      BY <3>0 DEF Import
    <3>2. imports' \in [Imports -> Import] /\ \A j \in Imports \ {i} : imports'[j] = imports[j]
      BY <1>1, <2>1, <3>1 DEF StartImport
    <3>3. imports'[i] = [Requested EXCEPT !.pc = "fetch", !.todo = Buckets]
      BY <1>1, <2>1 DEF StartImport
    <3>4. /\ imports'[i].pc = "fetch" /\ imports'[i].todo = Buckets /\ imports'[i].retry = {}
      BY <3>3 DEF Requested
    <3>5. Buckets \subseteq Outstanding(imports'[i])
      BY <3>4 DEF Outstanding
    <3> QED
      BY <3>1, <3>2, <3>3, <3>4, <3>5 DEF Fits
  <2>2. CASE EndRound(i)
    <3>1. CASE imports[i].retry = {} \/ imports[i].round = Backfills
      <4>1. imports' = [imports EXCEPT ![i] = [imports[i] EXCEPT !.pc = "done"]]
        BY <2>2, <3>1 DEF EndRound
      <4>2. [imports[i] EXCEPT !.pc = "done"] \in Import
        BY <2>0 DEF Import
      <4>3. imports[i].pc = "fetch" /\ imports[i].todo = {} /\ imports[i].retry = {}
        BY <2>0, <2>2, <3>1 DEF EndRound, Fits
      <4>4. imports'[i] = [imports[i] EXCEPT !.pc = "done"]
        BY <1>1, <4>1
      <4>5. Outstanding(imports'[i]) = Outstanding(imports[i])
        BY <2>0, <4>3, <4>4 DEF Outstanding, Import
      <4> QED
        BY <1>1, <1>4, <2>0, <4>1, <4>2, <4>3, <4>4, <4>5 DEF Fits, Import
    <3>2. CASE imports[i].retry # {} /\ imports[i].round # Backfills
      <4> DEFINE after == [imports[i] EXCEPT !.round = @ + 1, !.todo = imports[i].retry, !.retry = {}]
      <4>1. imports' = [imports EXCEPT ![i] = after]
        BY <2>2, <3>2 DEF EndRound
      <4>0. imports[i].round + 1 \in 0..Backfills
        BY <2>0, <3>2, FacilityAssumption DEF Import
      <4>2. after \in Import
        BY <2>0, <4>0 DEF Import
      <4>3. imports[i].pc = "fetch" /\ imports[i].todo = {}
        BY <2>2 DEF EndRound
      <4>4. imports'[i] = after
        BY <1>1, <4>1
      <4>5. Outstanding(after) = Outstanding(imports[i]) /\ after.pc = "fetch" /\ after.retry = {}
        BY <2>0, <4>3 DEF Outstanding, Import
      <4> QED
        BY <1>1, <1>4, <2>0, <4>1, <4>2, <4>3, <4>4, <4>5 DEF Fits
    <3> QED
      BY <3>1, <3>2
  <2>3. CASE KillImport(i)
    <3> DEFINE after == [imports[i] EXCEPT !.pc = "raised", !.at = None, !.seen = {}]
    <3>1. imports' = [imports EXCEPT ![i] = after]
      BY <1>1, <2>3 DEF KillImport
    <3>2. after \in Import
      BY <2>0 DEF Import
    <3>3. imports'[i] = after /\ after.pc = "raised" /\ after.round = imports[i].round
          /\ after.retry = imports[i].retry
      BY <1>1, <2>0, <3>1 DEF Import
    <3> QED
      BY <1>1, <2>0, <3>1, <3>2, <3>3 DEF Fits
  <2>4. ASSUME NEW b \in Buckets, FetchFails(i, b)
        PROVE  imports' \in [Imports -> Import] /\ Fits(i)' /\ \A j \in Imports \ {i} : imports'[j] = imports[j]
    <3>1. CASE imports[i].round = Backfills
      <4> DEFINE after == [imports[i] EXCEPT !.todo = @ \ {b}, !.failed = @ \cup {b}]
      <4>1. imports' = [imports EXCEPT ![i] = after]
        BY <1>1, <2>4, <3>1 DEF FetchFails
      <4>2. after \in Import
        BY <2>0 DEF Import
      <4>3. imports'[i] = after /\ after.pc = "fetch" /\ after.retry = imports[i].retry
            /\ after.round = imports[i].round /\ imports[i].pc = "fetch"
        BY <1>1, <2>0, <2>4, <4>1 DEF FetchFails, Import
      <4>4. Outstanding(imports[i]) \subseteq Outstanding(after)
        BY <2>0, <4>3 DEF Outstanding, Import
      <4> QED
        BY <1>1, <1>4, <2>0, <4>1, <4>2, <4>3, <4>4 DEF Fits
    <3>2. CASE imports[i].round # Backfills
      <4> DEFINE after == [imports[i] EXCEPT !.todo = @ \ {b}, !.retry = @ \cup {b}]
      <4>1. imports' = [imports EXCEPT ![i] = after]
        BY <1>1, <2>4, <3>2 DEF FetchFails
      <4>2. after \in Import
        BY <2>0 DEF Import
      <4>3. imports'[i] = after /\ after.pc = "fetch" /\ after.round = imports[i].round /\ imports[i].pc = "fetch"
        BY <1>1, <2>0, <2>4, <4>1 DEF FetchFails, Import
      <4>4. Outstanding(imports[i]) \subseteq Outstanding(after)
        BY <2>0, <4>3 DEF Outstanding, Import
      <4> QED
        BY <1>1, <1>4, <2>0, <3>2, <4>1, <4>2, <4>3, <4>4 DEF Fits
    <3> QED
      BY <3>1, <3>2
  <2>5. ASSUME NEW b \in Buckets, FetchAnswers(i, b)
        PROVE  imports' \in [Imports -> Import] /\ Fits(i)' /\ \A j \in Imports \ {i} : imports'[j] = imports[j]
    <3> DEFINE after == [imports[i] EXCEPT !.pc = "upsert", !.todo = @ \ {b}, !.at = b,
                                           !.seen = Within[b] \cap Registered]
    <3>1. imports' = [imports EXCEPT ![i] = after]
      BY <1>1, <2>5 DEF FetchAnswers
    <3>2. Within[b] \subseteq Osm
      BY FacilityAssumption
    <3>3. after \in Import
      BY <2>0, <3>2 DEF Import
    <3>4. imports'[i] = after /\ after.pc = "upsert" /\ after.at = b /\ after.round = imports[i].round
          /\ after.retry = imports[i].retry /\ after.seen = Within[b] \cap Registered /\ imports[i].pc = "fetch"
      BY <1>1, <2>0, <2>5, <3>1 DEF FetchAnswers, Import
    <3>5. Outstanding(imports[i]) \subseteq Outstanding(after)
      BY <2>0, <3>4 DEF Outstanding, Import
    <3> QED
      BY <1>1, <1>4, <2>0, <3>1, <3>3, <3>4, <3>5 DEF Fits
  <2> QED
    BY <2>1, <2>2, <2>3, <2>4, <2>5
<1>6. \A j \in Imports \ {i} : Fits(j)'
  BY <1>1, <1>3, <1>5, OthersKeep
<1>7. \A j \in Imports : Fits(j)'
  BY <1>5, <1>6
<1>8. registry' \in [Facilities -> Facility \cup {None}] /\ assets' \subseteq Facilities \cup Manual
  BY <1>1, <1>2
<1> QED
  BY <1>5, <1>7, <1>8 DEF RegistryInv, RegistryTypeOK, Accounted, Rounds, Upserts, Fits

LEMMA CommitSteps ==
  ASSUME RegistryInv, NEW i \in Imports, CommitBucket(i)
  PROVE  RegistryInv'
<1> DEFINE b == imports[i].at
           new == Within[b] \ imports[i].seen
           after == [imports[i] EXCEPT !.at = None, !.seen = {},
                       !.pc = IF new \cap Registered = {} THEN "fetch" ELSE "raised"]
<1>1. /\ registry \in [Facilities -> Facility \cup {None}] /\ imports \in [Imports -> Import]
      /\ assets \subseteq Facilities \cup Manual /\ \A j \in Imports : Fits(j)
  BY Assembled
<1>2. imports[i] \in Import /\ Fits(i) /\ imports[i].pc = "upsert"
      /\ b \in Buckets /\ imports[i].seen \subseteq Within[b] \cap Registered
  BY <1>1 DEF CommitBucket, Fits
<1>3. imports' = [imports EXCEPT ![i] = after] /\ UNCHANGED assets
  BY DEF CommitBucket
<1>4. after \in Import
  BY <1>2 DEF Import
<1>5. /\ imports'[i] = after /\ after.round = imports[i].round /\ after.retry = imports[i].retry
      /\ after.todo = imports[i].todo /\ after.failed = imports[i].failed
      /\ after.pc = IF new \cap Registered = {} THEN "fetch" ELSE "raised"
  BY <1>1, <1>2, <1>3 DEF Import
<1> HIDE DEF after
<1>6. CASE after.pc = "raised"
  <2>1. UNCHANGED registry
    BY <1>6 DEF CommitBucket, after
  <2>2. \A j \in Imports \ {i} : Fits(j)'
    BY <1>1, <1>3, <2>1, UnchangedKept, OthersKeep
  <2>3. Fits(i)'
    BY <1>2, <1>4, <1>5, <1>6 DEF Fits
  <2> QED
    BY <1>1, <1>3, <1>4, <2>1, <2>2, <2>3 DEF RegistryInv, RegistryTypeOK, Accounted, Rounds, Upserts, Fits
<1>7. CASE after.pc # "raised"
  <2>0. after.pc = "fetch" /\ new \cap Registered = {}
    BY <1>5, <1>7
  <2>1. registry' = [k \in Facilities |->
                      IF k \notin Within[b] THEN registry[k]
                      ELSE IF k \in new THEN [category |-> CategoryOf[b], status |-> "FOUND"]
                      ELSE [registry[k] EXCEPT !.status = "FOUND"]]
    BY <1>7 DEF CommitBucket, after
  <2>2. \A k \in Within[b] \ new : registry[k] \in Facility
    BY <1>1, <1>2 DEF Registered
  <2>3. ASSUME NEW k \in Within[b]
        PROVE  registry'[k] \in Facility /\ registry'[k].status = "FOUND"
    <3>1. k \in Facilities
      BY <1>2, OsmIsNoFile
    <3>2. CASE k \in new
      BY <1>2, <2>1, <3>1, <3>2 DEF Facility
    <3>3. CASE k \notin new
      <4>1. registry'[k] = [registry[k] EXCEPT !.status = "FOUND"] /\ registry[k] \in Facility
        BY <2>1, <2>2, <3>1, <3>3
      <4> QED
        BY <4>1 DEF Facility
    <3> QED
      BY <3>2, <3>3
  <2>4. \A k \in Facilities : k \notin Within[b] => registry'[k] = registry[k]
    BY <2>1
  <2>5. registry' \in [Facilities -> Facility \cup {None}]
    BY <1>1, <2>1, <2>3, <2>4
  <2>6. \A c \in Buckets : c = b => Covered(c)'
    BY <2>3, NoneIsNoFacility DEF Covered, Verified
  <2>7. Kept
    <3> SUFFICES ASSUME NEW c \in Buckets, NEW k \in Within[c]
                 PROVE  (k \in Registered => k \in Registered') /\ (Verified(k) => Verified(k)')
      BY DEF Kept
    <3>1. k \in Facilities
      BY OsmIsNoFile
    <3>2. CASE k \in Within[b]
      BY <2>3, <3>1, <3>2, NoneIsNoFacility DEF Registered, Verified
    <3>3. CASE k \notin Within[b]
      BY <2>4, <3>1, <3>3 DEF Registered, Verified
    <3> QED
      BY <3>2, <3>3
  <2>8. \A j \in Imports \ {i} : Fits(j)'
    BY <1>1, <1>3, <2>7, OthersKeep
  <2>9. Fits(i)'
    <3>1. \A c \in Buckets : Covered(c) => Covered(c)'
      BY <2>7 DEF Covered, Kept
    <3>2. Outstanding(imports[i]) \subseteq Outstanding(after) \cup {b}
      BY <1>2, <1>5 DEF Outstanding
    <3>3. \A c \in Buckets : c \notin Outstanding(imports[i]) => Covered(c)
      BY <1>2 DEF Fits
    <3>4. \A c \in Buckets : c \notin Outstanding(after) => Covered(c)'
      BY <2>6, <3>1, <3>2, <3>3
    <3> QED
      BY <1>2, <1>4, <1>5, <2>0, <3>4 DEF Fits
  <2> QED
    BY <1>1, <1>3, <1>4, <2>5, <2>8, <2>9 DEF RegistryInv, RegistryTypeOK, Accounted, Rounds, Upserts, Fits
<1> QED
  BY <1>6, <1>7

LEMMA OtherSteps ==
  ASSUME RegistryInv,
         \/ \E located \in SUBSET FileRows : ImportFile(located)
         \/ SyncAssets
         \/ \E a \in Manual : RegisterAsset(a)
         \/ UNCHANGED registryVars
  PROVE  RegistryInv'
<1>1. /\ registry \in [Facilities -> Facility \cup {None}] /\ imports \in [Imports -> Import]
      /\ assets \subseteq Facilities \cup Manual /\ \A j \in Imports : Fits(j)
  BY Assembled
<1>2. UNCHANGED imports
  BY DEF ImportFile, SyncAssets, RegisterAsset, registryVars
<1>3. /\ registry' \in [Facilities -> Facility \cup {None}]
      /\ \A k \in Facilities \ FileRows : registry'[k] = registry[k]
  <2>1. CASE \E located \in SUBSET FileRows : ImportFile(located)
    <3>1. PICK located \in SUBSET FileRows : ImportFile(located)
      BY <2>1
    <3>2. \A status \in {"FOUND", "PENDING"} : [category |-> Road, status |-> status] \in Facility
      BY DEF Facility
    <3> QED
      BY <1>1, <3>1, <3>2 DEF ImportFile
  <2>2. CASE UNCHANGED registry
    BY <1>1, <2>2
  <2> QED
    BY <2>1, <2>2 DEF SyncAssets, RegisterAsset, registryVars
<1>4. Kept
  <2> SUFFICES ASSUME NEW b \in Buckets, NEW k \in Within[b]
               PROVE  (k \in Registered => k \in Registered') /\ (Verified(k) => Verified(k)')
    BY DEF Kept
  <2>1. registry'[k] = registry[k] /\ k \in Facilities
    BY <1>3, OsmIsNoFile
  <2> QED
    BY <2>1 DEF Registered, Verified
<1>5. \A j \in Imports : Fits(j)'
  BY <1>1, <1>2, <1>4, OthersKeep
<1>6. assets' \subseteq Facilities \cup Manual
  BY <1>1 DEF ImportFile, SyncAssets, RegisterAsset, registryVars, Registered
<1> QED
  BY <1>1, <1>2, <1>3, <1>5, <1>6 DEF RegistryInv, RegistryTypeOK, Accounted, Rounds, Upserts, Fits

\* The inductive invariant: types, and what is not on a list is in the registry.
THEOREM BooksAreKept == RegistrySpec => []RegistryInv
<1>1. ASSUME RegistryInv, [RegistryNext]_registryVars PROVE RegistryInv'
  BY <1>1, ImportSteps, CommitSteps, OtherSteps DEF RegistryNext
<1> QED
  BY <1>1, RegistryStart, PTL DEF RegistrySpec

\* Every table and every import in flight has its shape.
THEOREM RegistryTypesHold == RegistrySpec => []RegistryTypeOK
<1>1. RegistryInv => RegistryTypeOK
  BY DEF RegistryInv
<1> QED
  BY <1>1, BooksAreKept, PTL

\* "A bucket that still fails every round is counted as failed": what a report
\* does not count is in the registry, verified.
THEOREM CoverageReported == RegistrySpec => []CoverageIsReported
<1>1. RegistryInv => CoverageIsReported
  <2> SUFFICES ASSUME RegistryInv, NEW i \in Imports, imports[i].pc = "done",
                      NEW b \in Buckets \ imports[i].failed
               PROVE  Covered(b)
    BY DEF CoverageIsReported, Covered
  <2>1. imports[i].todo = {} /\ imports[i].retry = {}
    BY DEF RegistryInv, Rounds
  <2>2. b \notin Outstanding(imports[i])
    BY <2>1 DEF Outstanding
  <2> QED
    BY <2>2 DEF RegistryInv, Accounted
<1> QED
  BY <1>1, BooksAreKept, PTL

-----------------------------------------------------------------------------
(* Lookups.                                                                *)

Finding == [status : {"TODO", "FOUND", "NO_VERIFIED_RECORDS", "PENDING", "RACE", "DATA_UNAVAILABLE"},
            places : SUBSET Near]
Lookup == [pc : {"none", "count", "resolve", "weather", "done", "cached", "raised"},
           kind : {"geo", "find", "context"}, known : SUBSET Categories,
           of : [Categories -> Finding], reply : [Categories -> UNION {[M -> BOOLEAN] : M \in SUBSET Mirrors}],
           says : {None, "available", "unavailable", "empty", "resolved", "partial", "degraded"},
           tries : Nat, weather : {None, "cached", "live", "unavailable"},
           limit : [Categories -> Nat], there : SUBSET Near]

\* A file holds roads.
FilesAreRoads == \A k \in FileRows \cap Registered : registry[k].category = Road

\* An answer some mirror would give, however it is cut.
Answerable(places, c) ==
  \E m \in Mirrors : places \subseteq Reported(m, c) /\ (places = {} => Reported(m, c) = {})

\* What a category was found to have.
Sound(lookup, c) ==
  LET found == lookup.of[c] IN
  /\ found.status \notin {"TODO", "FOUND"} => lookup.there \cap InRange(c) = {}
  /\ found.status = "FOUND" =>
       /\ found.places # {}
       /\ \A k \in lookup.there \cap InRange(c) : k \in found.places \/ CrowdedOut(lookup, c, k)
  /\ found.status = "NO_VERIFIED_RECORDS" => VerifiedOf(c) # {}
  /\ found.status = "PENDING" => Answerable(found.places, c)

\* What was counted and in range still is, a lookup has room for a place of each
\* category unless it has found nothing, and only who is through with every category, or with none, has said
\* something.
Holds(lookup) ==
  /\ \A c \in lookup.known : VerifiedOf(c) # {}
  /\ lookup.there \subseteq UNION {InRange(c) : c \in Categories}
  /\ \A c \in Categories : Sound(lookup, c)
  /\ \/ \A c \in Categories : lookup.limit[c] > 0
     \/ lookup.of = NoLookup.of /\ lookup.pc \notin {"count", "resolve"}
  /\ lookup.pc \in {"none", "count", "resolve"} => lookup.says = None
  /\ lookup.says # None =>
       lookup.of = NoLookup.of \/ \A c \in Categories : lookup.of[c].status \notin {"TODO", "RACE"}
  /\ lookup.says = "empty" =>
       \A c \in Poi : lookup.of[c].status \in {"FOUND", "NO_VERIFIED_RECORDS", "PENDING"}

LookupsHold == \A l \in Lookups : lookups[l] \in Lookup /\ Holds(lookups[l])
CachesHold ==
  /\ answer # None => answer \in Lookup /\ Holds(answer)
  /\ live \in [Categories -> (SUBSET Near) \cup {None}]
  /\ \A c \in Categories : live[c] # None => Answerable(live[c], c)

CityInv ==
  /\ RegistryInv /\ FilesAreRoads
  /\ DOMAIN lookups = Lookups /\ LookupsHold /\ CachesHold /\ sky \in BOOLEAN

LEMMA Surroundings ==
  /\ Near \subseteq Osm /\ \A c : InRange(c) \subseteq Near
  /\ \A m, c : Reported(m, c) \subseteq Near
  /\ Todo \in Finding /\ NoLookup \in Lookup
  /\ \A limit \in Limits : limit \in [Categories -> Nat] /\ \A c \in Categories : limit[c] > 0
<1>1. Near \subseteq Osm /\ \A c : InRange(c) \subseteq Near
  BY LookupAssumption DEF InRange
<1>2. \A m, c : Reported(m, c) \subseteq Near
  BY DEF Reported
<1>3. Todo \in Finding
  BY DEF Todo, Finding
<1>4. << >> \in [{} -> BOOLEAN]
  OBVIOUS
<1>5. [c \in Categories |-> << >>] \in [Categories -> UNION {[M -> BOOLEAN] : M \in SUBSET Mirrors}]
  BY <1>4
<1>6. NoLookup \in Lookup
  BY <1>3, <1>5 DEF NoLookup, Lookup
<1>7. \A limit \in Limits : limit \in [Categories -> Nat \ {0}]
  BY LookupAssumption DEF Categories
<1>8. \A limit \in Limits : limit \in [Categories -> Nat] /\ \A c \in Categories : limit[c] > 0
  BY <1>7
<1>9. QED
  BY <1>1, <1>2, <1>3, <1>6, <1>8

\* The registry's answer: nothing is left out but what is crowded out.
LEMMA NearestIsFound ==
  ASSUME NEW c \in Categories, InRange(c) # {}, NEW n \in Nat, n > 0, NEW S \in Nearest(c, n)
  PROVE  /\ S # {} /\ S \subseteq InRange(c)
         /\ \A k \in InRange(c) \ S :
              Cardinality(S) = n /\ \A near \in S : Distance[near] <= Distance[k]
<1>1. Cardinality({}) = 0
  BY FS_EmptySet
<1>2. CASE Cardinality(InRange(c)) <= n
  BY <1>2 DEF Nearest
<1>3. CASE ~(Cardinality(InRange(c)) <= n)
  BY <1>1, <1>3 DEF Nearest
<1>4. QED
  BY <1>2, <1>3

\* A mirror's cut answer is empty only if the mirror knows of nothing.
LEMMA FewAreAnswerable ==
  ASSUME NEW c \in Categories, NEW n \in Nat, n > 0, NEW m \in Mirrors,
         NEW S \in FirstFew(Reported(m, c), n)
  PROVE  S \in SUBSET Near /\ Answerable(S, c)
<1>1. Cardinality({}) = 0
  BY FS_EmptySet
<1>2. S \subseteq Reported(m, c) /\ (S = {} => Reported(m, c) = {})
  BY <1>1 DEF FirstFew
<1>3. QED
  BY <1>2, Surroundings DEF Answerable

\* A lookup that has not been asked knows nothing and says nothing.
LEMMA NothingFound == Holds(NoLookup)
BY LookupAssumption DEF Holds, Sound, NoLookup, Todo

LEMMA CityStart == CityInit => CityInv
<1> SUFFICES ASSUME CityInit PROVE CityInv
  OBVIOUS
<1>1. RegistryInv
  BY RegistryStart DEF CityInit
<1>2. FilesAreRoads
  BY DEF CityInit, RegistryInit, FilesAreRoads, Registered
<1>3. DOMAIN lookups = Lookups /\ LookupsHold
  BY Surroundings, NothingFound DEF CityInit, LookupInit, LookupsHold
<1>4. CachesHold /\ sky \in BOOLEAN
  <2>1. live = [c \in Categories |-> None] /\ answer = None /\ sky = FALSE
    BY DEF CityInit, LookupInit
  <2>2. \A c \in Categories : live[c] = None
    BY <2>1
  <2>3. live \in [Categories -> (SUBSET Near) \cup {None}]
    BY <2>1
  <2>4. QED
    BY <2>1, <2>2, <2>3 DEF CachesHold
<1>5. QED
  BY <1>1, <1>2, <1>3, <1>4 DEF CityInv

-----------------------------------------------------------------------------
(* A step of the registry.                                                 *)

\* What the registry has keeps its category, and its verification.
Grows == \A k \in Registered : /\ k \in Registered' /\ registry'[k].category = registry[k].category
                               /\ Verified(k) => Verified(k)'

LEMMA RegistryGrows ==
  ASSUME RegistryInv, FilesAreRoads, [RegistryNext]_registryVars
  PROVE  FilesAreRoads' /\ Grows
<1>1. CASE UNCHANGED registry
  BY <1>1 DEF FilesAreRoads, Grows, Registered, Verified
<1>2. ASSUME NEW i \in Imports, CommitBucket(i), registry' # registry
      PROVE  FilesAreRoads' /\ Grows
  <2>1. PICK b : b = imports[i].at
    OBVIOUS
  <2>2. PICK new : new = Within[b] \ imports[i].seen
    OBVIOUS
  <2>3. imports[i] \in Import /\ imports[i].pc = "upsert" /\ b \in Buckets
    BY <1>2, <2>1 DEF CommitBucket, RegistryInv, RegistryTypeOK, Upserts
  <2>4. new \cap Registered = {}
    BY <1>2, <2>1, <2>2, <2>3 DEF CommitBucket, Import
  <2>5. registry' = [k \in Facilities |->
                       IF k \notin Within[b] THEN registry[k]
                       ELSE IF k \in new THEN [category |-> CategoryOf[b], status |-> "FOUND"]
                       ELSE [registry[k] EXCEPT !.status = "FOUND"]]
    BY <1>2, <2>1, <2>2 DEF CommitBucket
  <2>6. ASSUME NEW k \in Registered
        PROVE  /\ k \in Registered' /\ registry'[k].category = registry[k].category
               /\ Verified(k) => Verified(k)'
    <3>1. k \in Facilities /\ registry[k] \in Facility
      BY <2>6 DEF Registered, RegistryInv, RegistryTypeOK
    <3>2. CASE k \in Within[b]
      <4>1. registry'[k] = [registry[k] EXCEPT !.status = "FOUND"]
        BY <2>4, <2>5, <3>1, <3>2, <2>6
      <4>2. registry'[k] \in Facility /\ registry'[k].status = "FOUND"
            /\ registry'[k].category = registry[k].category
        BY <3>1, <4>1 DEF Facility
      <4>3. QED
        BY <3>1, <4>2, NoneIsNoFacility DEF Registered, Verified
    <3>3. CASE k \notin Within[b]
      <4>1. registry'[k] = registry[k]
        BY <2>5, <3>1, <3>3
      <4>2. QED
        BY <2>6, <3>1, <4>1 DEF Registered, Verified
    <3>4. QED
      BY <3>2, <3>3
  <2>7. ASSUME NEW k \in FileRows PROVE registry'[k] = registry[k]
    <3>1. k \in Facilities /\ k \notin Within[b]
      BY <2>3, <2>7, FacilityAssumption DEF Facilities
    <3>2. QED
      BY <2>5, <3>1
  <2>8. FilesAreRoads'
    BY <2>7 DEF FilesAreRoads, Registered
  <2>9. QED
    BY <2>6, <2>8 DEF Grows
<1>3. ASSUME NEW located \in SUBSET FileRows, ImportFile(located)
      PROVE  FilesAreRoads' /\ Grows
  <2>1. registry' = [k \in Facilities |->
          IF k \notin FileRows THEN registry[k]
          ELSE [category |-> Road, status |-> IF k \in located THEN "FOUND" ELSE "PENDING"]]
    BY <1>3 DEF ImportFile
  <2>2. \A k \in FileRows : /\ k \in Facilities
                            /\ registry'[k] = [category |-> Road, status |-> IF k \in located THEN "FOUND" ELSE "PENDING"]
    BY <2>1 DEF Facilities
  <2>3. FilesAreRoads'
    <3>1. ASSUME NEW k \in FileRows PROVE registry'[k].category = Road
      <4>1. PICK status : registry'[k] = [category |-> Road, status |-> status]
        BY <2>2
      <4>2. QED
        BY <4>1
    <3>2. QED
      BY <3>1 DEF FilesAreRoads
  <2>4. ASSUME NEW k \in Registered
        PROVE  /\ k \in Registered' /\ registry'[k].category = registry[k].category
               /\ Verified(k) => Verified(k)'
    <3>1. k \in Facilities
      BY <2>4 DEF Registered
    <3>2. CASE k \in FileRows
      <4>1. k \in located /\ registry[k].category = Road
        BY <1>3, <2>4, <3>2 DEF ImportFile, FilesAreRoads
      <4>2. registry'[k] = [category |-> Road, status |-> "FOUND"]
        BY <2>2, <3>2, <4>1
      <4>3. registry'[k] \in Facility
        BY <4>2 DEF Facility
      <4>4. QED
        BY <3>1, <4>1, <4>2, <4>3, NoneIsNoFacility DEF Registered, Verified
    <3>3. CASE k \notin FileRows
      <4>1. registry'[k] = registry[k]
        BY <2>1, <3>1, <3>3
      <4>2. QED
        BY <2>4, <3>1, <4>1 DEF Registered, Verified
    <3>4. QED
      BY <3>2, <3>3
  <2>5. QED
    BY <2>3, <2>4 DEF Grows
<1>4. QED
  BY <1>1, <1>2, <1>3 DEF RegistryNext, registryVars, StartImport, EndRound, KillImport,
     FetchFails, FetchAnswers, SyncAssets, RegisterAsset

\* What a lookup holds on to survives the growth of the registry.
LEMMA HoldsGrows ==
  ASSUME Grows, NEW x \in Lookup, Holds(x)
  PROVE  Holds(x)'
<1>1. \A c : VerifiedOf(c) \subseteq VerifiedOf(c)'
  BY DEF Grows, VerifiedOf
<1>2. \A c \in x.known : VerifiedOf(c)' # {}
  BY <1>1 DEF Holds
<1>3. \A c : InRange(c) \subseteq InRange(c)'
  BY <1>1 DEF InRange
<1>4. x.there \subseteq UNION {InRange(c)' : c \in Categories}
  BY <1>3 DEF Holds
<1>5. ASSUME NEW c \in Categories PROVE Sound(x, c)'
  <2>1. Sound(x, c)
    BY DEF Holds
  <2>2. ASSUME NEW k \in x.there, k \in InRange(c)' PROVE k \in InRange(c)
    <3>1. PICK d \in Categories : k \in InRange(d)
      BY DEF Holds
    <3>2. k \in Registered /\ Verified(k) /\ registry[k].category = d /\ k \in Near
      BY <3>1 DEF InRange, VerifiedOf
    <3>3. registry'[k].category = d
      BY <3>2 DEF Grows
    <3>4. d = c
      BY <2>2, <3>3 DEF InRange, VerifiedOf
    <3>5. QED
      BY <3>1, <3>4
  <2>3. x.there \cap InRange(c)' \subseteq x.there \cap InRange(c)
    BY <2>2
  <2>4. x.of[c].status = "NO_VERIFIED_RECORDS" => VerifiedOf(c)' # {}
    BY <1>1, <2>1 DEF Sound
  <2>5. x.of[c].status = "PENDING" => Answerable(x.of[c].places, c)
    BY <2>1 DEF Sound
  <2>6. QED
    BY <2>1, <2>3, <2>4, <2>5 DEF Sound, Answerable, Reported, CrowdedOut
<1>6. QED
  BY <1>2, <1>4, <1>5 DEF Holds

LEMMA RegistryStep ==
  ASSUME CityInv, [RegistryNext]_registryVars, UNCHANGED lookupVars
  PROVE  CityInv'
<1>1. RegistryInv'
  <2>1. RegistryNext => RegistryInv'
    BY ImportSteps, CommitSteps, OtherSteps DEF RegistryNext, CityInv
  <2>2. UNCHANGED registryVars => RegistryInv'
    BY OtherSteps DEF CityInv
  <2>3. QED
    BY <2>1, <2>2
<1>2. FilesAreRoads' /\ Grows
  BY RegistryGrows DEF CityInv
<1>3. ASSUME NEW l \in Lookups PROVE lookups'[l] \in Lookup /\ Holds(lookups[l])'
  <2>1. PICK x : x = lookups[l]
    OBVIOUS
  <2>2. x \in Lookup /\ Holds(x)
    BY <2>1 DEF CityInv, LookupsHold
  <2>3. Holds(x)'
    BY <1>2, <2>2, HoldsGrows
  <2>4. x = lookups'[l]
    BY <2>1 DEF lookupVars
  <2>5. QED
    BY <2>2, <2>3, <2>4 DEF Holds, Sound, CrowdedOut
<1>4. answer' # None => answer' \in Lookup /\ Holds(answer)'
  <2> SUFFICES ASSUME answer' # None PROVE answer' \in Lookup /\ Holds(answer)'
    OBVIOUS
  <2>1. PICK x : x = answer
    OBVIOUS
  <2>2. x \in Lookup /\ Holds(x) /\ x = answer'
    BY <2>1 DEF CityInv, CachesHold, lookupVars
  <2>3. Holds(x)'
    BY <1>2, <2>2, HoldsGrows
  <2>4. QED
    BY <2>2, <2>3 DEF Holds, Sound, CrowdedOut
<1>5. CachesHold'
  BY <1>4 DEF CityInv, CachesHold, lookupVars, Answerable, Reported
<1>6. QED
  BY <1>1, <1>2, <1>3, <1>5 DEF CityInv, LookupsHold, lookupVars

-----------------------------------------------------------------------------
(* A step of a lookup.                                                     *)

\* The registry as a step leaves it.
LEMMA RegistryStays ==
  ASSUME UNCHANGED registryVars
  PROVE  /\ \A c : VerifiedOf(c)' = VerifiedOf(c) /\ InRange(c)' = InRange(c)
         /\ RegistryInv => RegistryInv'
         /\ FilesAreRoads => FilesAreRoads'
<1>1. \A c : VerifiedOf(c)' = VerifiedOf(c) /\ InRange(c)' = InRange(c)
  BY DEF registryVars, InRange, VerifiedOf, Registered, Verified
<1>2. RegistryInv => RegistryInv'
  BY OtherSteps
<1>3. FilesAreRoads => FilesAreRoads'
  BY DEF registryVars, FilesAreRoads, Registered
<1>4. QED
  BY <1>1, <1>2, <1>3

LEMMA HoldsStays ==
  ASSUME UNCHANGED registryVars, NEW x, Holds(x)
  PROVE  Holds(x)'
BY RegistryStays DEF Holds, Sound, CrowdedOut, Answerable, Reported

\* One lookup goes on to a record that holds.
LEMMA LookupMoves ==
  ASSUME CityInv, UNCHANGED registryVars, NEW l \in Lookups,
         NEW new \in Lookup, Holds(new), lookups' = [lookups EXCEPT ![l] = new]
  PROVE  DOMAIN lookups' = Lookups /\ LookupsHold'
<1>1. DOMAIN lookups = Lookups
  BY DEF CityInv
<1>2. ASSUME NEW m \in Lookups PROVE lookups'[m] \in Lookup /\ Holds(lookups[m])'
  <2>1. PICK x : x = lookups'[m]
    OBVIOUS
  <2>2. x \in Lookup /\ Holds(x)
    BY <1>1, <2>1 DEF CityInv, LookupsHold
  <2>3. Holds(x)'
    BY <2>2, HoldsStays
  <2>4. QED
    BY <2>1, <2>2, <2>3 DEF Holds, Sound, CrowdedOut
<1>3. QED
  BY <1>1, <1>2 DEF LookupsHold

LEMMA CachesStay ==
  ASSUME CachesHold, UNCHANGED registryVars, UNCHANGED <<live, answer>>
  PROVE  CachesHold'
<1>1. answer' # None => answer' \in Lookup /\ Holds(answer)'
  <2>1. PICK x : x = answer
    OBVIOUS
  <2>2. Holds(x) => Holds(x)'
    BY HoldsStays
  <2>3. QED
    BY <2>1, <2>2 DEF CachesHold, Holds, Sound, CrowdedOut
<1>2. QED
  BY <1>1 DEF CachesHold, Answerable, Reported

LEMMA LookupGoesOn ==
  ASSUME CityInv, UNCHANGED registryVars, NEW l \in Lookups,
         NEW new \in Lookup, Holds(new), lookups' = [lookups EXCEPT ![l] = new],
         UNCHANGED <<live, answer>>, sky' \in BOOLEAN
  PROVE  CityInv'
BY LookupMoves, CachesStay, RegistryStays DEF CityInv

\* Asking anew, or from find_nearby's cache.
LEMMA AskStep ==
  ASSUME CityInv, UNCHANGED registryVars, NEW l \in Lookups, NEW kind \in {"geo", "find", "context"},
         NEW limit \in Limits, Ask(l, kind, limit)
  PROVE  CityInv'
<1>1. CASE kind = "find" /\ answer # None
  <2>1. PICK k : k = answer
    OBVIOUS
  <2>2. k \in Lookup /\ Holds(k)
    BY <1>1, <2>1 DEF CityInv, CachesHold
  <2>3. PICK new : new = [k EXCEPT !.pc = "cached"]
    OBVIOUS
  <2>4. new \in Lookup /\ Holds(new)
    BY <2>2, <2>3 DEF Lookup, Holds, Sound, CrowdedOut
  <2>5. lookups' = [lookups EXCEPT ![l] = new]
    BY <1>1, <2>1, <2>3 DEF Ask
  <2>6. QED
    BY <2>4, <2>5, LookupGoesOn DEF Ask, CityInv
<1>2. CASE ~(kind = "find" /\ answer # None)
  <2>1. PICK new : new = [NoLookup EXCEPT !.pc = "count", !.kind = kind, !.limit = limit,
                                         !.there = UNION {InRange(c) : c \in Categories}]
    OBVIOUS
  <2>2. new \in Lookup
    <3>1. UNION {InRange(c) : c \in Categories} \in SUBSET Near
      BY Surroundings
    <3>2. QED
      BY <2>1, <3>1, Surroundings DEF Lookup
  <2>3. Holds(new)
    BY <2>1, LookupAssumption, Surroundings DEF Holds, Sound, NoLookup, Todo
  <2>4. lookups' = [lookups EXCEPT ![l] = new]
    BY <1>2, <2>1 DEF Ask
  <2>5. QED
    BY <2>2, <2>3, <2>4, LookupGoesOn DEF Ask, CityInv
<1>3. QED
  BY <1>1, <1>2

LEMMA CountStep ==
  ASSUME CityInv, UNCHANGED registryVars, NEW l \in Lookups, CountRegistry(l)
  PROVE  CityInv'
<1>1. PICK k : k = lookups[l]
  OBVIOUS
<1>2. k \in Lookup /\ Holds(k) /\ k.pc = "count"
  BY <1>1 DEF CityInv, LookupsHold, CountRegistry
<1>3. PICK new : new = [k EXCEPT !.pc = "resolve", !.known = {c \in Categories : VerifiedOf(c) # {}}]
  OBVIOUS
<1>4. new \in Lookup /\ Holds(new)
  BY <1>2, <1>3 DEF Lookup, Holds, Sound, CrowdedOut
<1>5. lookups' = [lookups EXCEPT ![l] = new]
  BY <1>1, <1>3 DEF CountRegistry, CityInv
<1>6. QED
  BY <1>4, <1>5, LookupGoesOn DEF CountRegistry, CityInv

\* A category is found to have something.
LEMMA FindingHolds ==
  ASSUME NEW k \in Lookup, Holds(k), k.says = None, NEW c \in Categories, NEW found \in Finding,
         \A d \in Categories : k.limit[d] > 0, NEW new, new = [k EXCEPT !.of[c] = found], Sound(new, c)
  PROVE  new \in Lookup /\ Holds(new)
<1>1. new.of = [k.of EXCEPT ![c] = found] /\ new.of \in [Categories -> Finding]
  BY DEF Lookup
<1>2. new \in Lookup
  BY <1>1 DEF Lookup
<1>3. /\ new.known = k.known /\ new.there = k.there /\ new.says = None /\ new.limit = k.limit
  BY DEF Lookup
<1>4. ASSUME NEW d \in Categories PROVE Sound(new, d)
  <2>1. CASE d = c
    BY <2>1
  <2>2. CASE d # c
    <3>1. new.of[d] = k.of[d]
      BY <1>1, <2>2 DEF Lookup
    <3>2. QED
      BY <1>3, <3>1 DEF Holds, Sound, CrowdedOut
  <2>3. QED
    BY <2>1, <2>2
<1>5. QED
  BY <1>2, <1>3, <1>4, LookupAssumption DEF Holds

LEMMA ResolveStep ==
  ASSUME CityInv, UNCHANGED registryVars, NEW l \in Lookups, NEW c \in Categories, Resolve(l, c)
  PROVE  CityInv'
<1>1. PICK k : k = lookups[l]
  OBVIOUS
<1>2. k \in Lookup /\ Holds(k) /\ k.pc = "resolve" /\ k.says = None
  BY <1>1 DEF CityInv, LookupsHold, Resolve, Holds
<1>3. PICK found \in Resolution(l, c) : lookups' = [lookups EXCEPT ![l].of[c] = found]
  BY DEF Resolve
<1>4. PICK new : new = [k EXCEPT !.of[c] = found]
  OBVIOUS
<1>5. lookups' = [lookups EXCEPT ![l] = new]
  BY <1>1, <1>3, <1>4 DEF CityInv
<1>6. k.limit \in [Categories -> Nat] /\ \A d \in Categories : k.limit[d] > 0
  BY <1>2 DEF Holds, Lookup
<1>7. found \in Finding /\ Sound(new, c)
  <2>1. new.of[c] = found /\ new.there = k.there /\ new.limit = k.limit
    BY <1>2, <1>4 DEF Lookup
  <2>2. CASE InRange(c) # {}
    <3>1. PICK S \in Nearest(c, k.limit[c]) : found = [status |-> "FOUND", places |-> S]
      BY <1>1, <1>3, <2>2 DEF Resolution, Found
    <3>2. /\ S # {} /\ S \subseteq InRange(c)
          /\ \A j \in InRange(c) \ S :
               Cardinality(S) = k.limit[c] /\ \A near \in S : Distance[near] <= Distance[j]
      BY <1>6, <2>2, NearestIsFound
    <3>3. found \in Finding
      BY <3>1, <3>2, Surroundings DEF Finding
    <3>4. \A j \in new.there \cap InRange(c) : j \in found.places \/ CrowdedOut(new, c, j)
      BY <2>1, <3>1, <3>2 DEF CrowdedOut
    <3>5. QED
      BY <2>1, <3>1, <3>2, <3>3, <3>4 DEF Sound
  <2>3. CASE InRange(c) = {} /\ c \in k.known
    <3>1. found = [status |-> "NO_VERIFIED_RECORDS", places |-> {}]
      BY <1>1, <1>3, <2>3 DEF Resolution, Found
    <3>2. VerifiedOf(c) # {}
      BY <1>2, <2>3 DEF Holds
    <3>3. QED
      BY <2>1, <2>3, <3>1, <3>2 DEF Sound, Finding
  <2>4. CASE InRange(c) = {} /\ c \notin k.known /\ live[c] # None
    <3>1. found = [status |-> "PENDING", places |-> live[c]]
      BY <1>1, <1>3, <2>4 DEF Resolution, Found
    <3>2. live[c] \in SUBSET Near /\ Answerable(live[c], c)
      BY <2>4 DEF CityInv, CachesHold
    <3>3. QED
      BY <2>1, <2>4, <3>1, <3>2 DEF Sound, Finding
  <2>5. CASE InRange(c) = {} /\ c \notin k.known /\ live[c] = None
    <3>1. found = [status |-> "RACE", places |-> {}]
      BY <1>1, <1>3, <2>5 DEF Resolution, Found
    <3>2. QED
      BY <2>1, <2>5, <3>1 DEF Sound, Finding
  <2>6. QED
    BY <2>2, <2>3, <2>4, <2>5
<1>9. new \in Lookup /\ Holds(new)
  BY <1>2, <1>4, <1>6, <1>7, FindingHolds
<1>10. QED
  BY <1>5, <1>9, LookupGoesOn DEF Resolve, CityInv

\* Nobody who has said something waits for a race.
LEMMA RacersAreSilent ==
  ASSUME NEW k \in Lookup, Holds(k), NEW c \in Categories, k.of[c].status = "RACE"
  PROVE  k.says = None /\ \A d \in Categories : k.limit[d] > 0
BY DEF Holds, NoLookup, Todo

LEMMA ReplyStep ==
  ASSUME CityInv, UNCHANGED registryVars, NEW l \in Lookups, NEW c \in Categories,
         NEW m \in Mirrors, NEW ok \in BOOLEAN, Reply(l, c, m, ok)
  PROVE  CityInv'
<1>1. PICK k : k = lookups[l]
  OBVIOUS
<1>2. k \in Lookup /\ Holds(k)
  BY <1>1 DEF CityInv, LookupsHold
<1>3. PICK M \in SUBSET Mirrors : k.reply[c] \in [M -> BOOLEAN]
  <2>1. k.reply[c] \in UNION {[N -> BOOLEAN] : N \in SUBSET Mirrors}
    BY <1>2 DEF Lookup
  <2>2. QED
    BY <2>1
<1>4. PICK reply : reply = [n \in DOMAIN k.reply[c] \cup {m} |-> IF n = m THEN ok ELSE k.reply[c][n]]
  OBVIOUS
<1>5. reply \in [M \cup {m} -> BOOLEAN] /\ M \cup {m} \in SUBSET Mirrors
  BY <1>3, <1>4
<1>6. PICK new : new = [k EXCEPT !.reply[c] = reply]
  OBVIOUS
<1>7. lookups' = [lookups EXCEPT ![l] = new]
  BY <1>1, <1>4, <1>6 DEF Reply, CityInv
<1>8. new \in Lookup
  <2>1. new.reply = [k.reply EXCEPT ![c] = reply]
    BY <1>2, <1>6 DEF Lookup
  <2>2. reply \in UNION {[N -> BOOLEAN] : N \in SUBSET Mirrors}
    BY <1>5
  <2>3. new.reply \in [Categories -> UNION {[N -> BOOLEAN] : N \in SUBSET Mirrors}]
    BY <1>2, <2>1, <2>2 DEF Lookup
  <2>4. QED
    BY <1>2, <1>6, <2>3 DEF Lookup
<1>9. Holds(new)
  <2>1. /\ new.known = k.known /\ new.there = k.there /\ new.says = k.says /\ new.pc = k.pc /\ new.of = k.of
        /\ new.limit = k.limit
    BY <1>2, <1>6 DEF Lookup
  <2>2. QED
    BY <1>2, <2>1 DEF Holds, Sound, CrowdedOut
<1>10. QED
  BY <1>7, <1>8, <1>9, LookupGoesOn DEF Reply, CityInv

\* An answer of the race is what a mirror knows.
LEMMA SettleStep ==
  ASSUME CityInv, UNCHANGED registryVars, NEW l \in Lookups, NEW c \in Categories, Settle(l, c)
  PROVE  CityInv'
<1>1. PICK k : k = lookups[l]
  OBVIOUS
<1>2. k \in Lookup /\ Holds(k) /\ k.of[c].status = "RACE"
  BY <1>1 DEF CityInv, LookupsHold, Settle
<1>3. k.says = None /\ k.limit \in [Categories -> Nat] /\ \A d \in Categories : k.limit[d] > 0
  BY <1>2, RacersAreSilent DEF Lookup
<1>4. PICK found \in Settled(l, c) :
        /\ lookups' = [lookups EXCEPT ![l].of[c] = found, ![l].reply[c] = <<>>]
        /\ live' \in {live} \cup (IF found.status = "PENDING" THEN {[live EXCEPT ![c] = found.places]} ELSE {})
  BY DEF Settle
<1>5. PICK M \in SUBSET Mirrors : k.reply[c] \in [M -> BOOLEAN]
  <2>1. k.reply[c] \in UNION {[N -> BOOLEAN] : N \in SUBSET Mirrors}
    BY <1>2 DEF Lookup
  <2>2. QED
    BY <2>1
<1>6. \/ found = [status |-> "DATA_UNAVAILABLE", places |-> {}]
      \/ \E m \in Mirrors, S \in SUBSET Near :
           found = [status |-> "PENDING", places |-> S] /\ Answerable(S, c)
  <2>1. CASE Lost(l, c)
    BY <1>4, <2>1 DEF Settled, Found
  <2>2. CASE ~Lost(l, c)
    <3>1. PICK m \in Winner(l, c) : found \in Found("PENDING", FirstFew(Reported(m, c), k.limit[c]))
      BY <1>1, <1>4, <2>2 DEF Settled
    <3>2. m \in Mirrors
      BY <1>1, <1>5, <3>1 DEF Winner
    <3>3. PICK S \in FirstFew(Reported(m, c), k.limit[c]) : found = [status |-> "PENDING", places |-> S]
      BY <3>1 DEF Found
    <3>4. S \in SUBSET Near /\ Answerable(S, c)
      BY <1>3, <3>2, <3>3, FewAreAnswerable
    <3>5. QED
      BY <3>2, <3>3, <3>4
  <2>3. QED
    BY <2>1, <2>2
<1>7. /\ found \in Finding /\ found.status \in {"PENDING", "DATA_UNAVAILABLE"}
      /\ found.status = "PENDING" => Answerable(found.places, c)
  BY <1>6 DEF Finding
<1>8. PICK mid : mid = [k EXCEPT !.of[c] = found]
  OBVIOUS
<1>9. Sound(mid, c)
  <2>1. mid.of[c] = found /\ mid.there = k.there
    BY <1>2, <1>8 DEF Lookup
  <2>2. k.there \cap InRange(c) = {}
    BY <1>2 DEF Holds, Sound, CrowdedOut
  <2>3. QED
    BY <1>7, <2>1, <2>2 DEF Sound
<1>10. mid \in Lookup /\ Holds(mid)
  BY <1>2, <1>3, <1>7, <1>8, <1>9, FindingHolds
<1>11. PICK new : new = [mid EXCEPT !.reply[c] = <<>>]
  OBVIOUS
<1>12. new \in Lookup
  <2>1. << >> \in [{} -> BOOLEAN]
    OBVIOUS
  <2>2. << >> \in UNION {[N -> BOOLEAN] : N \in SUBSET Mirrors}
    BY <2>1
  <2>3. new.reply = [mid.reply EXCEPT ![c] = <<>>]
    BY <1>10, <1>11 DEF Lookup
  <2>4. new.reply \in [Categories -> UNION {[N -> BOOLEAN] : N \in SUBSET Mirrors}]
    BY <1>10, <2>2, <2>3 DEF Lookup
  <2>5. QED
    BY <1>10, <1>11, <2>4 DEF Lookup
<1>13. Holds(new)
  <2>1. /\ new.known = mid.known /\ new.there = mid.there /\ new.says = mid.says /\ new.pc = mid.pc
        /\ new.of = mid.of /\ new.limit = mid.limit
    BY <1>10, <1>11 DEF Lookup
  <2>2. QED
    BY <1>10, <2>1 DEF Holds, Sound, CrowdedOut
<1>14. lookups' = [lookups EXCEPT ![l] = new]
  <2>2. DOMAIN lookups = Lookups
    BY DEF CityInv
  <2>3. [lookups EXCEPT ![l].of[c] = found] = [lookups EXCEPT ![l] = mid]
    BY <1>1, <1>8, <2>2
  <2>4. lookups' = [[lookups EXCEPT ![l] = mid] EXCEPT ![l].reply[c] = <<>>]
    BY <1>4, <2>3
  <2>5. QED
    BY <1>11, <2>2, <2>4
<1>15. DOMAIN lookups' = Lookups /\ LookupsHold'
  BY <1>12, <1>13, <1>14, LookupMoves
<1>16. CachesHold'
  <2>1. CASE UNCHANGED live
    BY <2>1, CachesStay DEF CityInv, Settle
  <2>2. CASE found.status = "PENDING" /\ live' = [live EXCEPT ![c] = found.places]
    <3>1. answer' # None => answer' \in Lookup /\ Holds(answer)'
      <4>1. PICK x : x = answer
        OBVIOUS
      <4>2. Holds(x) => Holds(x)'
        BY HoldsStays
      <4>3. QED
        BY <4>1, <4>2 DEF CityInv, CachesHold, Holds, Sound, CrowdedOut, Settle
    <3>2. live \in [Categories -> (SUBSET Near) \cup {None}]
      BY DEF CityInv, CachesHold
    <3>3. found.places \in SUBSET Near
      BY <1>7 DEF Finding
    <3>4. live' \in [Categories -> (SUBSET Near) \cup {None}]
      BY <2>2, <3>2, <3>3
    <3>5. ASSUME NEW d \in Categories, live'[d] # None PROVE Answerable(live'[d], d)
      <4>1. CASE d = c
        BY <1>7, <2>2, <3>2, <4>1
      <4>2. CASE d # c
        <5>1. live'[d] = live[d]
          BY <2>2, <3>2, <4>2
        <5>2. QED
          BY <3>5, <5>1 DEF CityInv, CachesHold
      <4>3. QED
        BY <4>1, <4>2
    <3>6. QED
      BY <3>1, <3>4, <3>5 DEF CachesHold, Answerable, Reported
  <2>3. QED
    BY <1>4, <2>1, <2>2
<1>17. QED
  BY <1>15, <1>16, RegistryStays DEF CityInv, Settle

\* Who is through with every category says so.
LEMMA ConcludeStep ==
  ASSUME CityInv, UNCHANGED registryVars, NEW l \in Lookups, Conclude(l)
  PROVE  CityInv'
<1>1. PICK k : k = lookups[l]
  OBVIOUS
<1>2. k \in Lookup /\ Holds(k) /\ \A c \in Categories : k.of[c].status \notin {"TODO", "RACE"}
  BY <1>1 DEF CityInv, LookupsHold, Conclude
<1>3. PICK new : new = [k EXCEPT !.pc = IF k.kind = "context" THEN "weather" ELSE "done", !.says = Says(l)]
  OBVIOUS
<1>4. Says(l) \in {"available", "unavailable", "empty", "resolved", "partial", "degraded"}
  BY DEF Says
<1>5. Says(l) = "empty" => \A c \in Poi : k.of[c].status \in {"FOUND", "NO_VERIFIED_RECORDS", "PENDING"}
  <2> SUFFICES ASSUME Says(l) = "empty", NEW c \in Poi
               PROVE  k.of[c].status \in {"FOUND", "NO_VERIFIED_RECORDS", "PENDING"}
    OBVIOUS
  <2>1. "DATA_UNAVAILABLE" \notin {lookups[l].of[d].status : d \in Poi}
    BY DEF Says
  <2>2. k.of[c].status # "DATA_UNAVAILABLE"
    BY <1>1, <2>1
  <2>3. c \in Categories /\ k.of[c] \in Finding
    BY <1>2 DEF Lookup, Poi
  <2>4. QED
    BY <1>2, <2>2, <2>3 DEF Finding
<1>6. new \in Lookup
  BY <1>2, <1>3, <1>4 DEF Lookup
<1>7. Holds(new)
  <2>1. /\ new.known = k.known /\ new.there = k.there /\ new.of = k.of /\ new.says = Says(l) /\ new.limit = k.limit
        /\ new.pc \in {"weather", "done"}
    BY <1>2, <1>3 DEF Lookup
  <2>2. QED
    BY <1>2, <1>4, <1>5, <2>1 DEF Holds, Sound, CrowdedOut
<1>8. lookups' = [lookups EXCEPT ![l] = new]
  BY <1>1, <1>3 DEF Conclude
<1>9. DOMAIN lookups' = Lookups /\ LookupsHold'
  BY <1>6, <1>7, <1>8, LookupMoves
<1>10. CachesHold'
  <2>1. CASE UNCHANGED answer
    BY <2>1, CachesStay DEF CityInv, Conclude
  <2>2. CASE answer' = new
    <3>1. Holds(new)'
      BY <1>7, HoldsStays
    <3>2. answer' \in Lookup /\ Holds(answer)'
      BY <1>6, <2>2, <3>1 DEF Holds, Sound, CrowdedOut
    <3>3. QED
      BY <3>2 DEF CityInv, CachesHold, Conclude, Answerable, Reported
  <2>3. QED
    BY <1>1, <1>3, <2>1, <2>2 DEF Conclude
<1>11. QED
  BY <1>9, <1>10, RegistryStays DEF CityInv, Conclude

\* A context goes on without places, an endpoint raises.
LEMMA FailStep ==
  ASSUME CityInv, UNCHANGED registryVars, NEW l \in Lookups, Fail(l)
  PROVE  CityInv'
<1>1. PICK new \in {[NoLookup EXCEPT !.pc = "weather", !.kind = "context", !.says = "available"],
                    [NoLookup EXCEPT !.pc = "raised"]} : lookups' = [lookups EXCEPT ![l] = new]
  BY DEF Fail
<1>2. new \in Lookup
  BY <1>1, Surroundings DEF Lookup
<1>3. Holds(new)
  <2>1. /\ new.known = {} /\ new.there = {} /\ new.of = NoLookup.of /\ new.says \in {None, "available"}
        /\ new.pc \in {"weather", "raised"}
    BY <1>1 DEF NoLookup
  <2>2. \A c \in Categories : new.of[c].status = "TODO"
    BY <2>1 DEF NoLookup, Todo
  <2>3. QED
    BY <2>1, <2>2, LookupAssumption DEF Holds, Sound, CrowdedOut
<1>4. QED
  BY <1>1, <1>2, <1>3, LookupGoesOn DEF Fail, CityInv

\* The weather changes nothing of what was found.
LEMMA WeatherSteps ==
  ASSUME CityInv, UNCHANGED registryVars, NEW l \in Lookups,
         \/ ReadCachedWeather(l) \/ MissWeather(l) \/ WeatherFails(l)
         \/ \E usable \in BOOLEAN : WeatherAnswers(l, usable)
  PROVE  CityInv'
<1>1. PICK k : k = lookups[l]
  OBVIOUS
<1>2. k \in Lookup /\ Holds(k) /\ k.pc = "weather"
  BY <1>1 DEF CityInv, LookupsHold, ReadCachedWeather, MissWeather, WeatherFails, WeatherAnswers
<1>3. k.tries \in Nat /\ k.tries + 1 \in Nat
  BY <1>2 DEF Lookup
<1>4. PICK pc \in {"weather", "done"}, tries \in Nat, weather \in {None, "cached", "live", "unavailable"} :
        lookups' = [lookups EXCEPT ![l] = [k EXCEPT !.pc = pc, !.tries = tries, !.weather = weather]]
  <2>1. CASE ReadCachedWeather(l)
    <3>1. lookups' = [lookups EXCEPT ![l] = [k EXCEPT !.pc = "done", !.tries = k.tries, !.weather = "cached"]]
      BY <1>1, <1>2, <2>1 DEF ReadCachedWeather, CityInv, Lookup
    <3>2. QED
      BY <1>3, <3>1
  <2>2. CASE MissWeather(l)
    <3>1. lookups' = [lookups EXCEPT ![l] = [k EXCEPT !.pc = "weather", !.tries = 1, !.weather = k.weather]]
      BY <1>1, <1>2, <2>2 DEF MissWeather, CityInv, Lookup
    <3>2. k.weather \in {None, "cached", "live", "unavailable"}
      BY <1>2 DEF Lookup
    <3>3. QED
      BY <3>1, <3>2
  <2>3. CASE WeatherFails(l) /\ lookups[l].tries <= Retries
    <3>1. lookups' = [lookups EXCEPT ![l] = [k EXCEPT !.pc = "weather", !.tries = k.tries + 1, !.weather = k.weather]]
      BY <1>1, <1>2, <2>3 DEF WeatherFails, CityInv, Lookup
    <3>2. k.weather \in {None, "cached", "live", "unavailable"}
      BY <1>2 DEF Lookup
    <3>3. QED
      BY <1>3, <3>1, <3>2
  <2>4. CASE WeatherFails(l) /\ ~(lookups[l].tries <= Retries)
    <3>1. lookups' = [lookups EXCEPT ![l] = [k EXCEPT !.pc = "done", !.tries = k.tries, !.weather = "unavailable"]]
      BY <1>1, <1>2, <2>4 DEF WeatherFails, CityInv, Lookup
    <3>2. QED
      BY <1>3, <3>1
  <2>5. ASSUME NEW usable \in BOOLEAN, WeatherAnswers(l, usable)
        PROVE  \E weather \in {"live", "unavailable"} :
                 lookups' = [lookups EXCEPT ![l] = [k EXCEPT !.pc = "done", !.tries = k.tries, !.weather = weather]]
    <3>1. PICK weather \in {"live", "unavailable"} : weather = IF usable THEN "live" ELSE "unavailable"
      OBVIOUS
    <3>2. lookups' = [lookups EXCEPT ![l] = [k EXCEPT !.pc = "done", !.tries = k.tries, !.weather = weather]]
      BY <1>1, <1>2, <2>5, <3>1 DEF WeatherAnswers, CityInv, Lookup
    <3>3. QED
      BY <3>2
  <2>6. QED
    BY <1>3, <2>1, <2>2, <2>3, <2>4, <2>5
<1>5. PICK new : new = [k EXCEPT !.pc = pc, !.tries = tries, !.weather = weather]
  OBVIOUS
<1>6. new \in Lookup
  BY <1>2, <1>5 DEF Lookup
<1>7. Holds(new)
  <2>1. /\ new.known = k.known /\ new.there = k.there /\ new.of = k.of /\ new.says = k.says
        /\ new.limit = k.limit /\ new.pc \in {"weather", "done"}
    BY <1>2, <1>5 DEF Lookup
  <2>2. QED
    BY <1>2, <2>1 DEF Holds, Sound, CrowdedOut
<1>8. UNCHANGED <<live, answer>> /\ sky' \in BOOLEAN
  BY DEF ReadCachedWeather, MissWeather, WeatherFails, WeatherAnswers, CityInv
<1>9. QED
  BY <1>4, <1>5, <1>6, <1>7, <1>8, LookupGoesOn

LEMMA ExpireStep ==
  ASSUME CityInv, UNCHANGED registryVars, Expire
  PROVE  CityInv'
<1>1. CASE UNCHANGED <<lookups, live, answer>> /\ sky' = FALSE
  <2>1. CachesHold'
    BY <1>1, CachesStay DEF CityInv
  <2>2. LookupsHold'
    BY <1>1, RegistryStays DEF CityInv, LookupsHold, Holds, Sound, CrowdedOut, Answerable, Reported
  <2>3. QED
    BY <1>1, <2>1, <2>2, RegistryStays DEF CityInv
<1>2. CASE answer' = None /\ UNCHANGED <<lookups, live, sky>>
  <2>1. CachesHold'
    BY <1>2 DEF CityInv, CachesHold, Answerable, Reported
  <2>2. LookupsHold'
    BY <1>2, RegistryStays DEF CityInv, LookupsHold, Holds, Sound, CrowdedOut, Answerable, Reported
  <2>3. QED
    BY <1>2, <2>1, <2>2, RegistryStays DEF CityInv
<1>3. ASSUME NEW c \in Categories, live' = [live EXCEPT ![c] = None], UNCHANGED <<lookups, answer, sky>>
      PROVE  CityInv'
  <2>1. live \in [Categories -> (SUBSET Near) \cup {None}]
    BY DEF CityInv, CachesHold
  <2>2. /\ live' \in [Categories -> (SUBSET Near) \cup {None}]
        /\ \A d \in Categories : live'[d] # None => live'[d] = live[d]
    <3>1. live' \in [Categories -> (SUBSET Near) \cup {None}]
      BY <1>3, <2>1
    <3>2. ASSUME NEW d \in Categories, live'[d] # None PROVE live'[d] = live[d]
      <4>1. CASE d = c
        BY <1>3, <2>1, <3>2, <4>1
      <4>2. CASE d # c
        BY <1>3, <2>1, <4>2
      <4>3. QED
        BY <4>1, <4>2
    <3>3. QED
      BY <3>1, <3>2
  <2>3. answer' # None => answer' \in Lookup /\ Holds(answer)'
    BY <1>3, RegistryStays DEF CityInv, CachesHold, Holds, Sound, CrowdedOut, Answerable, Reported
  <2>4. CachesHold'
    BY <2>2, <2>3 DEF CityInv, CachesHold, Answerable, Reported
  <2>5. LookupsHold'
    BY <1>3, RegistryStays DEF CityInv, LookupsHold, Holds, Sound, CrowdedOut, Answerable, Reported
  <2>6. QED
    BY <1>3, <2>4, <2>5, RegistryStays DEF CityInv
<1>4. QED
  BY <1>1, <1>2, <1>3 DEF Expire

LEMMA CityStep == CityInv /\ [CityNext]_<<registryVars, lookupVars>> => CityInv'
<1> SUFFICES ASSUME CityInv, [CityNext]_<<registryVars, lookupVars>> PROVE CityInv'
  OBVIOUS
<1>1. CASE UNCHANGED lookupVars /\ [RegistryNext]_registryVars
  BY <1>1, RegistryStep
<1>2. CASE LookupNext /\ UNCHANGED registryVars
  BY <1>2, AskStep, CountStep, ResolveStep, ReplyStep, SettleStep, ConcludeStep, FailStep, WeatherSteps,
     ExpireStep DEF LookupNext
<1>3. QED
  BY <1>1, <1>2 DEF CityNext

\* The types of the lookups and their caches, and what their inductive invariant
\* adds: what a lookup counted or had in range still is, and every live answer is cut
\* from what a mirror knows.
THEOREM LookupsAreSound == CitySpec => []CityInv
BY CityStart, CityStep, PTL DEF CitySpec

\* However lookups, races, caches and imports overlap, nobody is told that there is
\* nothing unless the registry covers the category or a mirror knows of nothing.
THEOREM AbsencesAreChecked == CitySpec => []AbsenceIsChecked
<1>1. CityInv => AbsenceIsChecked
  <2> SUFFICES ASSUME CityInv, NEW l \in Lookups, NEW c \in Categories,
                      \/ lookups[l].of[c].status \in {"NO_VERIFIED_RECORDS", "PENDING"}
                      \/ lookups[l].says = "empty" /\ c \in Poi,
                      lookups[l].of[c].places = {}
               PROVE  VerifiedOf(c) # {} \/ \E m \in Mirrors : Reported(m, c) = {}
    BY DEF AbsenceIsChecked
  <2>1. Holds(lookups[l])
    BY DEF CityInv, LookupsHold
  <2>2. Sound(lookups[l], c)
    BY <2>1 DEF Holds
  <2>3. lookups[l].of[c].status \in {"FOUND", "NO_VERIFIED_RECORDS", "PENDING"}
    BY <2>1 DEF Holds
  <2>4. QED
    BY <2>2, <2>3 DEF Sound, Answerable
<1>2. QED
  BY <1>1, LookupsAreSound, PTL

\* Whatever the caches hold and however imports overlap, a lookup names every
\* verified facility that was in range when it was asked, unless places as near fill
\* the list of its category.
THEOREM VerifiedPlacesAreNamed == CitySpec => []VerifiedIsNamed
<1>1. CityInv => VerifiedIsNamed
  <2> SUFFICES ASSUME CityInv, NEW l \in Lookups, NEW c \in Categories,
                      lookups[l].says # None, lookups[l].of # NoLookup.of,
                      NEW k \in lookups[l].there \cap VerifiedOf(c)
               PROVE  k \in lookups[l].of[c].places \/ CrowdedOut(lookups[l], c, k)
    BY DEF VerifiedIsNamed
  <2>1. lookups[l] \in Lookup /\ Holds(lookups[l])
    BY DEF CityInv, LookupsHold
  <2>2. k \in lookups[l].there \cap InRange(c)
    BY <2>1 DEF Lookup, InRange
  <2>3. lookups[l].of[c].status # "TODO" /\ Sound(lookups[l], c)
    BY <2>1 DEF Holds
  <2>4. QED
    BY <2>2, <2>3 DEF Sound
<1>2. QED
  BY <1>1, LookupsAreSound, PTL

-----------------------------------------------------------------------------
(* Models. *)

Newest(kind) == Len(models[kind])

\* A file of this version that does not hold this bundle is contested.
Matches(kind, version, bundle) ==
  \/ <<kind, version>> \in contested
  \/ \A f \in artifacts : f.kind = kind /\ f.version = version => f.bundle = bundle

Serving(kind) == Active(kind) = IF models[kind] = << >> THEN {} ELSE {Newest(kind)}

Described(kind) == \A v \in DOMAIN models[kind] : Matches(kind, v, models[kind][v].bundle)

Training == {"save", "update", "wait", "insert"}

\* A request that may still insert holds what is active, and its own file.
Numbered(j) ==
  LET job == jobs[j] IN
  /\ job.pc \in Training => job.version \in 1..(Newest(job.kind) + 1)
  /\ job.pc = "wait" /\ job.version = Newest(job.kind) + 1 => Active(job.kind) \subseteq job.snap
  /\ job.pc = "insert" /\ job.version = Newest(job.kind) + 1 => Active(job.kind) \subseteq job.off
  /\ job.pc \in {"update", "wait", "insert"} => Matches(job.kind, job.version, job.bundle)

Looked(j) ==
  LET job == jobs[j] IN
  /\ job.pc = "load" => job.version \in DOMAIN models[job.kind]
  /\ job.pc = "store" =>
       \/ <<job.kind, job.version>> \in contested
       \/ /\ job.version \in DOMAIN models[job.kind]
          /\ models[job.kind][job.version].bundle = job.bundle

ModelsInv ==
  /\ TypeOK
  /\ \A kind \in Kinds : Serving(kind) /\ Described(kind)
  /\ \A j \in Jobs : Numbered(j) /\ Looked(j)

-----------------------------------------------------------------------------
LEMMA IdleIsJob == Idle \in Job /\ Idle.pc = "idle"
BY ForecastAssumption DEF Idle, Job, Kinds, Bundles

LEMMA ModelsStart == Init => ModelsInv
<1> SUFFICES ASSUME Init PROVE ModelsInv
  OBVIOUS
<1>1. TypeOK
  BY IdleIsJob, ForecastAssumption DEF Init, TypeOK, Bundles
<1>2. \A kind \in Kinds : models[kind] = << >> /\ DOMAIN models[kind] = {}
  BY DEF Init
<1>3. \A kind \in Kinds : Serving(kind) /\ Described(kind)
  BY <1>2 DEF Serving, Described, Active
<1>4. \A j \in Jobs : jobs[j].pc = "idle"
  BY IdleIsJob DEF Init
<1>5. \A j \in Jobs : Numbered(j) /\ Looked(j)
  BY <1>4 DEF Numbered, Looked, Training
<1> QED
  BY <1>1, <1>3, <1>5 DEF ModelsInv

-----------------------------------------------------------------------------
(* Steps of one request that leave the tables and the files alone. *)

LEMMA OneJobSteps ==
  ASSUME ModelsInv, NEW j \in Jobs, NEW job \in Job,
         jobs' = [jobs EXCEPT ![j] = job],
         UNCHANGED <<evidence, models, artifacts, contested>>,
         Numbered(j)', Looked(j)'
  PROVE  ModelsInv'
<1>1. jobs' \in [Jobs -> Job] /\ \A l \in Jobs \ {j} : jobs'[l] = jobs[l]
  BY DEF ModelsInv, TypeOK
<1>2. TypeOK'
  BY <1>1 DEF ModelsInv, TypeOK, evidence
<1>3. \A kind \in Kinds : Serving(kind)' /\ Described(kind)'
  BY DEF ModelsInv, Serving, Described, Matches, Active, Newest
<1>4. \A l \in Jobs \ {j} : Numbered(l)' /\ Looked(l)'
  BY <1>1 DEF ModelsInv, Numbered, Looked, Matches, Active, Newest
<1> QED
  BY <1>2, <1>3, <1>4 DEF ModelsInv

LEMMA QuietSteps ==
  ASSUME ModelsInv, NEW j \in Jobs, NEW job \in Job,
         jobs' = [jobs EXCEPT ![j] = job],
         UNCHANGED <<evidence, models, artifacts, contested>>,
         job.pc \in {"idle", "train", "fit", "serve"}
  PROVE  ModelsInv'
<1>1. jobs'[j] = job
  BY DEF ModelsInv, TypeOK
<1>2. Numbered(j)' /\ Looked(j)'
  BY <1>1 DEF Numbered, Looked, Training
<1> QED
  BY <1>2, OneJobSteps

LEMMA RequestSteps ==
  ASSUME ModelsInv, NEW j \in Jobs,
         \/ \E kind \in Kinds : RequestTraining(j, kind)
         \/ PassGate(j) \/ RefuseTraining(j) \/ ViewHotspots(j) \/ ViewInfra(j)
         \/ StoreForecast(j) \/ KillJob(j)
  PROVE  ModelsInv'
<1>1. jobs[j] \in Job /\ Idle \in Job /\ Idle.pc = "idle" /\ history \in Bundles
  BY IdleIsJob DEF ModelsInv, TypeOK
<1>2. CASE \E kind \in Kinds : RequestTraining(j, kind)
  <2> PICK kind \in Kinds : RequestTraining(j, kind)
    BY <1>2
  <2>1. [Idle EXCEPT !.pc = "train", !.kind = kind] \in Job
    BY <1>1 DEF Job
  <2>2. [Idle EXCEPT !.pc = "train", !.kind = kind].pc = "train"
    BY DEF Idle
  <2> QED
    BY <2>1, <2>2, QuietSteps DEF RequestTraining
<1>3. CASE PassGate(j)
  <2>1. InfraFit \in Bundles /\ HotspotFit \in Bundles
    BY <1>1, ForecastAssumption DEF InfraFit, HotspotFit, Bundles
  <2>2. [jobs[j] EXCEPT !.pc = "fit", !.bundle = Fitted(jobs[j].kind)] \in Job
    BY <1>1, <2>1 DEF Job, Fitted
  <2>3. [jobs[j] EXCEPT !.pc = "fit", !.bundle = Fitted(jobs[j].kind)].pc = "fit"
    BY <1>1 DEF Job
  <2> QED
    BY <1>3, <2>2, <2>3, QuietSteps DEF PassGate
<1>4. CASE RefuseTraining(j)
  <2> DEFINE job == IF jobs[j].view THEN [jobs[j] EXCEPT !.pc = "serve"] ELSE Idle
  <2>1. job \in Job /\ job.pc \in {"serve", "idle"}
    BY <1>1 DEF Job
  <2>2. jobs' = [jobs EXCEPT ![j] = job] /\ UNCHANGED <<evidence, models, artifacts, contested>>
    BY <1>4 DEF RefuseTraining
  <2> HIDE DEF job
  <2> QED
    BY <2>1, <2>2, QuietSteps
<1>5. CASE ViewHotspots(j)
  <2>1. [Idle EXCEPT !.kind = "hotspot", !.pc = "serve"] \in Job
    BY <1>1 DEF Job, Kinds
  <2>2. [Idle EXCEPT !.kind = "hotspot", !.pc = "serve"].pc = "serve"
    BY DEF Idle
  <2> QED
    BY <1>5, <2>1, <2>2, QuietSteps DEF ViewHotspots
<1>6. CASE ViewInfra(j)
  <2> DEFINE untrained == Active("infra") = {}
             job == [Idle EXCEPT !.view = untrained, !.pc = IF untrained THEN "train" ELSE "serve"]
  <2>1. untrained \in BOOLEAN
    OBVIOUS
  <2>2. jobs' = [jobs EXCEPT ![j] = job] /\ UNCHANGED <<evidence, models, artifacts, contested>>
    BY <1>6 DEF ViewInfra
  <2> HIDE DEF untrained
  <2>3. job \in Job
    BY <1>1, <2>1 DEF Job
  <2>4. job.pc \in {"train", "serve"}
    BY DEF Idle
  <2> HIDE DEF job
  <2> QED
    BY <2>2, <2>3, <2>4, QuietSteps
<1>7. CASE StoreForecast(j) \/ KillJob(j)
  BY <1>1, <1>7, QuietSteps DEF StoreForecast, KillJob
<1> QED
  BY <1>2, <1>3, <1>4, <1>5, <1>6, <1>7

LEMMA VersionSteps ==
  ASSUME ModelsInv, NEW j \in Jobs, NextVersion(j) \/ UpdateBegins(j) \/ UpdateEnds(j)
  PROVE  ModelsInv'
<1> DEFINE kind == jobs[j].kind
<1>1. /\ jobs[j] \in Job /\ Numbered(j) /\ models[kind] \in Seq(Model) /\ kind \in Kinds
      /\ Newest(kind) \in Nat /\ Active(kind) \subseteq Nat
  BY DEF ModelsInv, TypeOK, Job, Newest, Active
<1>2. CASE NextVersion(j)
  <2> DEFINE job == [jobs[j] EXCEPT !.pc = "save", !.version = Newest(kind) + 1]
  <2>0. Newest(kind) + 1 \in Nat /\ Newest(kind) + 1 \in 1..(Newest(kind) + 1)
    BY <1>1
  <2>1. job \in Job
    BY <1>1, <2>0 DEF Job
  <2>2. jobs' = [jobs EXCEPT ![j] = job] /\ UNCHANGED <<evidence, models, artifacts, contested>>
    BY <1>1, <1>2 DEF NextVersion, Newest, ModelsInv, TypeOK, Job
  <2>3. jobs'[j] = job /\ job.pc = "save" /\ job.version = Newest(kind) + 1 /\ job.kind = kind
    BY <1>1, <2>2 DEF ModelsInv, TypeOK, Job
  <2> HIDE DEF job
  <2>4. Numbered(j)' /\ Looked(j)'
    <3>1. jobs'[j].pc = "save" /\ jobs'[j].kind = kind /\ jobs'[j].version = Newest(kind) + 1
      BY <2>3
    <3>2. Len(models'[jobs'[j].kind]) = Newest(kind)
      BY <2>2, <3>1 DEF Newest
    <3>3. jobs'[j].version \in 1..(Len(models'[jobs'[j].kind]) + 1)
      BY <2>0, <3>1, <3>2
    <3> QED
      BY <3>1, <3>3 DEF Numbered, Looked, Newest
  <2> QED
    BY <2>1, <2>2, <2>4, OneJobSteps
<1>3. CASE UpdateBegins(j)
  <2> DEFINE job == [jobs[j] EXCEPT !.pc = "wait", !.snap = Active(kind)]
  <2>1. job \in Job
    BY <1>1 DEF Job
  <2>2. jobs' = [jobs EXCEPT ![j] = job] /\ UNCHANGED <<evidence, models, artifacts, contested>>
    BY <1>1, <1>3 DEF UpdateBegins, ModelsInv, TypeOK, Job
  <2>3. /\ job.pc = "wait" /\ job.snap = Active(kind) /\ job.kind = kind
        /\ job.version = jobs[j].version /\ job.bundle = jobs[j].bundle
    BY <1>1 DEF Job
  <2>5. jobs'[j] = job
    BY <2>2 DEF ModelsInv, TypeOK
  <2>6. jobs[j].pc = "update"
    BY <1>3 DEF UpdateBegins
  <2> HIDE DEF job
  <2>4. Numbered(j)' /\ Looked(j)'
    BY <1>1, <2>2, <2>3, <2>5, <2>6 DEF Numbered, Looked, Training, Newest, Matches, Active
  <2> QED
    BY <2>1, <2>2, <2>4, OneJobSteps
<1>4. CASE UpdateEnds(j)
  <2> DEFINE job == [jobs[j] EXCEPT !.pc = "insert", !.snap = {}, !.off = jobs[j].snap \cap Active(kind)]
  <2>1. job \in Job
    BY <1>1 DEF Job
  <2>2. jobs' = [jobs EXCEPT ![j] = job] /\ UNCHANGED <<evidence, models, artifacts, contested>>
    BY <1>1, <1>4 DEF UpdateEnds, ModelsInv, TypeOK, Job
  <2>3. /\ job.pc = "insert" /\ job.off = jobs[j].snap \cap Active(kind)
        /\ job.kind = kind /\ job.version = jobs[j].version /\ job.bundle = jobs[j].bundle
    BY <1>1 DEF Job
  <2>5. jobs'[j] = job
    BY <2>2 DEF ModelsInv, TypeOK
  <2>6. jobs[j].pc = "wait"
    BY <1>4 DEF UpdateEnds
  <2> HIDE DEF job
  <2>7. Active(kind) \subseteq jobs[j].snap => Active(kind) \subseteq job.off
    BY <2>3
  <2>8. \A k \in Kinds : Active(k)' = Active(k) /\ Newest(k)' = Newest(k)
    BY <2>2 DEF Active, Newest
  <2>9. \A k \in Kinds : \A v, b : Matches(k, v, b)' = Matches(k, v, b)
    BY <2>2 DEF Matches
  <2>4. Numbered(j)' /\ Looked(j)'
    <3> HIDE DEF kind
    <3>1. Looked(j)'
      BY <2>3, <2>5 DEF Looked
    <3>2. Matches(kind, job.version, job.bundle)
      BY <1>1, <2>3, <2>6 DEF Numbered, kind
    <3>3. /\ job.version \in 1..(Newest(kind) + 1)
          /\ job.version = Newest(kind) + 1 => Active(kind) \subseteq job.off
      BY <1>1, <2>3, <2>6, <2>7 DEF Numbered, Training, kind
    <3>5. jobs'[j].kind = kind /\ kind \in Kinds
      BY <1>1, <2>3, <2>5 DEF kind
    <3>6. jobs'[j].pc = "insert" /\ jobs'[j].version = job.version
          /\ jobs'[j].bundle = job.bundle /\ jobs'[j].off = job.off
      BY <2>3, <2>5
    <3>7. Numbered(j)'
      BY <2>8, <2>9, <3>2, <3>3, <3>5, <3>6 DEF Numbered
    <3>8. QED
      BY <3>1, <3>7
  <2> QED
    BY <2>1, <2>2, <2>4, OneJobSteps
<1> QED
  BY <1>2, <1>3, <1>4

LEMMA LookUpSteps ==
  ASSUME ModelsInv, NEW j \in Jobs, FindModel(j) \/ LoadBundle(j)
  PROVE  ModelsInv'
<1>1. jobs[j] \in Job /\ Looked(j) /\ Idle \in Job /\ jobs[j].kind \in Kinds
  BY IdleIsJob DEF ModelsInv, TypeOK, Job
<1>2. CASE FindModel(j)
  <2> DEFINE kind == jobs[j].kind
  <2>1. CASE Active(kind) = {} /\ jobs' = [jobs EXCEPT ![j] = Idle]
    BY <1>1, <1>2, <2>1, IdleIsJob, QuietSteps DEF FindModel
  <2>2. ASSUME NEW v \in Active(kind),
               jobs' = [jobs EXCEPT ![j] = [Idle EXCEPT !.pc = "load", !.kind = kind, !.version = v]]
        PROVE  ModelsInv'
    <3> DEFINE job == [Idle EXCEPT !.pc = "load", !.kind = kind, !.version = v]
    <3>1. v \in DOMAIN models[kind] /\ v \in Nat
      BY <1>1 DEF Active, ModelsInv, TypeOK
    <3>2. job \in Job
      BY <1>1, <3>1 DEF Job
    <3>3. UNCHANGED <<evidence, models, artifacts, contested>>
      BY <1>2 DEF FindModel
    <3>4. jobs'[j] = job /\ job.pc = "load" /\ job.kind = kind /\ job.version = v
      BY <2>2 DEF ModelsInv, TypeOK, Idle
    <3>5. Numbered(j)' /\ Looked(j)'
      BY <3>1, <3>3, <3>4 DEF Numbered, Looked, Training
    <3>6. jobs' = [jobs EXCEPT ![j] = job]
      BY <2>2
    <3> HIDE DEF job
    <3> QED
      BY <3>2, <3>3, <3>5, <3>6, OneJobSteps
  <2> QED
    BY <1>2, <2>1, <2>2 DEF FindModel
<1>3. CASE LoadBundle(j)
  <2> PICK f \in artifacts :
        /\ f.kind = jobs[j].kind /\ f.version = jobs[j].version
        /\ jobs' = [jobs EXCEPT ![j].pc = "store", ![j].bundle = f.bundle]
    BY <1>3 DEF LoadBundle
  <2> DEFINE job == [jobs[j] EXCEPT !.pc = "store", !.bundle = f.bundle]
  <2>1. job \in Job
    BY <1>1 DEF ModelsInv, TypeOK, File, Job
  <2>2. jobs' = [jobs EXCEPT ![j] = job] /\ UNCHANGED <<evidence, models, artifacts, contested>>
    BY <1>1, <1>3 DEF LoadBundle, ModelsInv, TypeOK, Job
  <2>3. /\ jobs'[j] = job /\ job.pc = "store" /\ job.bundle = f.bundle
        /\ job.kind = jobs[j].kind /\ job.version = jobs[j].version
    BY <1>1, <2>2 DEF ModelsInv, TypeOK, Job
  <2>4. jobs[j].version \in DOMAIN models[jobs[j].kind]
    BY <1>1, <1>3 DEF LoadBundle, Looked
  <2>5. Matches(jobs[j].kind, jobs[j].version, models[jobs[j].kind][jobs[j].version].bundle)
    BY <1>1, <2>4 DEF ModelsInv, Described
  <2>6. Numbered(j)' /\ Looked(j)'
    BY <2>2, <2>3, <2>4, <2>5 DEF Numbered, Looked, Training, Matches
  <2> HIDE DEF job
  <2> QED
    BY <2>1, <2>2, <2>6, OneJobSteps
<1> QED
  BY <1>2, <1>3

-----------------------------------------------------------------------------
(* The two steps that write: the file, and the row. *)

LEMMA SaveSteps ==
  ASSUME ModelsInv, NEW j \in Jobs, SaveBundle(j)
  PROVE  ModelsInv'
<1> DEFINE job == jobs[j]
           file == [kind |-> job.kind, version |-> job.version, bundle |-> job.bundle]
<1>1. /\ job \in Job /\ job.pc = "save" /\ UNCHANGED <<evidence, models>>
      /\ artifacts' = {f \in artifacts : f.kind # job.kind \/ f.version # job.version} \cup {file}
      /\ contested' = IF Rivalled(j) THEN contested \cup {<<job.kind, job.version>>} ELSE contested
      /\ jobs' = [jobs EXCEPT ![j] = [job EXCEPT !.pc = "update"]]
  BY DEF ModelsInv, TypeOK, SaveBundle
<1>2. [job EXCEPT !.pc = "update"] \in Job /\ file \in File
  BY <1>1 DEF Job, File
<1>3. TypeOK'
  <2>1. jobs' \in [Jobs -> Job] /\ artifacts' \subseteq File
    BY <1>1, <1>2 DEF ModelsInv, TypeOK
  <2>2. <<job.kind, job.version>> \in Kinds \X Nat
    BY <1>1 DEF Job
  <2>3. contested' \subseteq Kinds \X Nat
    BY <1>1, <2>2 DEF ModelsInv, TypeOK
  <2> QED
    BY <1>1, <2>1, <2>3 DEF ModelsInv, TypeOK, evidence
<1>4. /\ jobs'[j] = [job EXCEPT !.pc = "update"] /\ \A l \in Jobs \ {j} : jobs'[l] = jobs[l]
      /\ jobs'[j].pc = "update" /\ jobs'[j].kind = job.kind
      /\ jobs'[j].version = job.version /\ jobs'[j].bundle = job.bundle
  BY <1>1 DEF ModelsInv, TypeOK, Job
<1>5. \A kind, version, bundle :
        /\ kind # job.kind \/ version # job.version \/ Rivalled(j)
        /\ Matches(kind, version, bundle)
        => Matches(kind, version, bundle)'
  <2> SUFFICES ASSUME NEW kind, NEW version, NEW bundle,
                      kind # job.kind \/ version # job.version \/ Rivalled(j),
                      Matches(kind, version, bundle)
               PROVE  Matches(kind, version, bundle)'
    OBVIOUS
  <2>1. CASE kind = job.kind /\ version = job.version
    BY <1>1, <2>1 DEF Matches
  <2>2. CASE kind # job.kind \/ version # job.version
    BY <1>1, <2>2 DEF Matches
  <2> QED
    BY <2>1, <2>2
<1>6. \A kind, version, bundle :
        kind = job.kind /\ version = job.version /\ bundle = job.bundle
        => Matches(kind, version, bundle)'
  BY <1>1 DEF Matches
<1>7. \A kind \in Kinds : Serving(kind)' /\ Described(kind)'
  <2> SUFFICES ASSUME NEW kind \in Kinds PROVE Serving(kind)' /\ Described(kind)'
    OBVIOUS
  <2>1. Serving(kind)'
    BY <1>1 DEF ModelsInv, Serving, Active, Newest
  <2>2. \A v \in DOMAIN models[kind] : v = job.version /\ kind = job.kind => Rivalled(j)
    BY DEF Rivalled
  <2>3. \A v \in DOMAIN models[kind] : Matches(kind, v, models[kind][v].bundle)
    BY DEF ModelsInv, Described
  <2>4. \A v \in DOMAIN models[kind] : Matches(kind, v, models[kind][v].bundle)'
    BY <1>1, <1>5, <2>2, <2>3
  <2> QED
    BY <1>1, <2>1, <2>4 DEF Described
<1>8. ASSUME NEW l \in Jobs \ {j} PROVE Numbered(l)' /\ Looked(l)'
  <2>1. Numbered(l) /\ Looked(l) /\ jobs'[l] = jobs[l]
    BY <1>4 DEF ModelsInv
  <2>2. jobs[l].pc \in {"update", "wait", "insert"} /\ jobs[l].kind = job.kind
          /\ jobs[l].version = job.version => Rivalled(j)
    BY DEF Rivalled
  <2>3. jobs[l].pc \in {"update", "wait", "insert"} =>
          Matches(jobs[l].kind, jobs[l].version, jobs[l].bundle)'
    BY <1>5, <2>1, <2>2 DEF Numbered
  <2> QED
    BY <1>1, <2>1, <2>3 DEF Numbered, Looked, Active, Newest, Matches
<1>9. Numbered(j)' /\ Looked(j)'
  <2>1. job.version \in 1..(Newest(job.kind) + 1)
    BY <1>1 DEF ModelsInv, Numbered, Training
  <2> QED
    BY <1>1, <1>4, <1>6, <2>1 DEF Numbered, Looked, Newest, Matches, Training
<1> QED
  BY <1>3, <1>7, <1>8, <1>9 DEF ModelsInv

LEMMA CommittedRows ==
  ASSUME models \in [Kinds -> Seq(Model)], NEW job \in Job
  PROVE  /\ Committed(job) \in Seq(Model)
         /\ Len(Committed(job)) = Newest(job.kind) + 1
         /\ \A v \in 1..Newest(job.kind) :
              /\ Committed(job)[v].bundle = models[job.kind][v].bundle
              /\ Committed(job)[v].active <=> models[job.kind][v].active /\ v \notin job.off
         /\ Committed(job)[Newest(job.kind) + 1] = [bundle |-> job.bundle, active |-> TRUE]
<1> DEFINE rows == models[job.kind]
           off(v) == [rows[v] EXCEPT !.active = @ /\ v \notin job.off]
           kept == [v \in DOMAIN rows |-> off(v)]
           new == [bundle |-> job.bundle, active |-> TRUE]
<1>0. job.kind \in Kinds /\ job.bundle \in Bundles
  BY DEF Job
<1>1. /\ rows \in Seq(Model) /\ Len(rows) \in Nat /\ DOMAIN rows = 1..Len(rows)
      /\ Newest(job.kind) = Len(rows) /\ new \in Model
  <2>1. rows \in Seq(Model)
    BY <1>0
  <2>2. Newest(job.kind) = Len(rows)
    BY DEF Newest
  <2>3. new \in Model
    BY <1>0 DEF Model
  <2> QED
    BY <2>1, <2>2, <2>3
<1>2. \A v \in DOMAIN rows : rows[v] \in Model
  BY <1>1
<1>3. \A v \in DOMAIN rows :
        /\ off(v) \in Model /\ off(v).bundle = rows[v].bundle
        /\ off(v).active <=> rows[v].active /\ v \notin job.off
  BY <1>2 DEF Model
<1>4. kept \in Seq(Model) /\ Len(kept) = Len(rows)
  BY <1>1, <1>3
<1>5. \A v \in DOMAIN rows : kept[v].bundle = rows[v].bundle
                             /\ (kept[v].active <=> rows[v].active /\ v \notin job.off)
  <2>1. \A v \in DOMAIN rows : kept[v] = off(v)
    OBVIOUS
  <2> HIDE DEF kept, off
  <2> QED
    BY <1>3, <2>1
<1>6. Committed(job) = Append(kept, new)
  BY DEF Committed
<1> HIDE DEF kept, new, off
<1>7. /\ Append(kept, new) \in Seq(Model) /\ Len(Append(kept, new)) = Len(rows) + 1
      /\ \A v \in 1..Len(rows) : Append(kept, new)[v] = kept[v]
      /\ Append(kept, new)[Len(rows) + 1] = new
  BY <1>1, <1>4
<1>8. \A v \in 1..Len(rows) :
        /\ Append(kept, new)[v].bundle = rows[v].bundle
        /\ Append(kept, new)[v].active <=> rows[v].active /\ v \notin job.off
  BY <1>1, <1>5, <1>7
<1> HIDE DEF rows
<1>9. /\ Committed(job) \in Seq(Model) /\ Len(Committed(job)) = Newest(job.kind) + 1
      /\ \A v \in 1..Newest(job.kind) :
           /\ Committed(job)[v].bundle = rows[v].bundle
           /\ Committed(job)[v].active <=> rows[v].active /\ v \notin job.off
      /\ Committed(job)[Newest(job.kind) + 1] = new
  BY <1>1, <1>6, <1>7, <1>8
<1> QED
  BY <1>9, Zenon DEF rows, new

LEMMA InsertSteps ==
  ASSUME ModelsInv, NEW j \in Jobs, InsertModel(j)
  PROVE  ModelsInv'
<1> DEFINE job == jobs[j]
           n == Newest(job.kind)
<1>1. /\ job \in Job /\ job.pc = "insert" /\ Numbered(j) /\ Idle \in Job /\ Idle.pc = "idle"
      /\ models \in [Kinds -> Seq(Model)] /\ n \in Nat /\ job.kind \in Kinds
      /\ DOMAIN models[job.kind] = 1..n /\ UNCHANGED <<evidence, artifacts, contested>>
  BY IdleIsJob DEF ModelsInv, TypeOK, InsertModel, Newest, Job
<1>2. CASE job.version \in DOMAIN models[job.kind]
  BY <1>1, <1>2, QuietSteps DEF InsertModel
<1>3. CASE job.version \notin DOMAIN models[job.kind]
  <2> DEFINE left == IF job.view THEN [Idle EXCEPT !.pc = "serve", !.kind = job.kind] ELSE Idle
  <2>1. models' = [models EXCEPT ![job.kind] = Committed(job)] /\ jobs' = [jobs EXCEPT ![j] = left]
    BY <1>3 DEF InsertModel
  <2>2. job.version = n + 1 /\ Active(job.kind) \subseteq job.off
        /\ Matches(job.kind, job.version, job.bundle)
    BY <1>1, <1>3 DEF Numbered, Training
  <2>3. left \in Job /\ left.pc \in {"serve", "idle"}
    BY <1>1 DEF Job, Idle
  <2> HIDE DEF left
  <2>4. /\ jobs' \in [Jobs -> Job] /\ jobs'[j].pc \in {"serve", "idle"}
        /\ \A l \in Jobs \ {j} : jobs'[l] = jobs[l]
    BY <2>1, <2>3 DEF ModelsInv, TypeOK
  <2>5. /\ Committed(job) \in Seq(Model) /\ Len(Committed(job)) = n + 1
        /\ DOMAIN Committed(job) = 1..(n + 1)
        /\ \A v \in 1..n : /\ Committed(job)[v].bundle = models[job.kind][v].bundle
                           /\ Committed(job)[v].active <=> models[job.kind][v].active /\ v \notin job.off
        /\ Committed(job)[n + 1].bundle = job.bundle /\ Committed(job)[n + 1].active
    <3>1. /\ Committed(job) \in Seq(Model) /\ Len(Committed(job)) = n + 1
          /\ Committed(job)[n + 1] = [bundle |-> job.bundle, active |-> TRUE]
      BY <1>1, CommittedRows
    <3>2. \A v \in 1..n : /\ Committed(job)[v].bundle = models[job.kind][v].bundle
                          /\ Committed(job)[v].active <=> models[job.kind][v].active /\ v \notin job.off
      BY <1>1, CommittedRows, Zenon
    <3> QED
      BY <3>1, <3>2
  <2>6. /\ models'[job.kind] = Committed(job)
        /\ \A kind \in Kinds \ {job.kind} : models'[kind] = models[kind]
        /\ models' \in [Kinds -> Seq(Model)]
    BY <1>1, <2>1, <2>5
  <2>7. TypeOK'
    BY <1>1, <2>4, <2>6 DEF ModelsInv, TypeOK, evidence
  <2>8. \A v \in 1..n : ~Committed(job)[v].active
    BY <1>1, <2>2, <2>5 DEF Active
  <2>9. {v \in 1..(n + 1) : Committed(job)[v].active} = {n + 1}
    <3>1. \A v \in 1..(n + 1) : v \in 1..n \/ v = n + 1
      BY <1>1
    <3>2. n + 1 \in 1..(n + 1)
      BY <1>1
    <3> QED
      BY <2>5, <2>8, <3>1, <3>2
  <2>10. \A kind \in Kinds : Serving(kind)' /\ Described(kind)'
    <3> SUFFICES ASSUME NEW kind \in Kinds PROVE Serving(kind)' /\ Described(kind)'
      OBVIOUS
    <3>1. CASE kind # job.kind
      BY <1>1, <2>6, <3>1 DEF ModelsInv, Serving, Described, Active, Newest, Matches
    <3>2. CASE kind = job.kind
      <4>1. models'[kind] = Committed(job) /\ models'[kind] # << >>
        BY <1>1, <2>5, <2>6, <3>2
      <4>2. Serving(kind)'
        BY <2>5, <2>9, <4>1 DEF Serving, Active, Newest
      <4>3. \A v \in 1..n : Matches(kind, v, Committed(job)[v].bundle)
        BY <1>1, <2>5, <3>2 DEF ModelsInv, Described
      <4>4. Matches(kind, n + 1, Committed(job)[n + 1].bundle)
        BY <2>2, <2>5, <3>2
      <4>5. \A v \in 1..(n + 1) : Matches(kind, v, Committed(job)[v].bundle)
        <5>1. \A v \in 1..(n + 1) : v \in 1..n \/ v = n + 1
          BY <1>1
        <5> QED
          BY <4>3, <4>4, <5>1
      <4>6. Described(kind)'
        BY <1>1, <2>5, <4>1, <4>5 DEF Described, Matches
      <4> QED
        BY <4>2, <4>6
    <3> QED
      BY <3>1, <3>2
  <2>11. Numbered(j)' /\ Looked(j)'
    BY <2>4 DEF Numbered, Looked, Training
  <2>12. ASSUME NEW l \in Jobs \ {j} PROVE Numbered(l)' /\ Looked(l)'
    <3>1. jobs'[l] = jobs[l] /\ jobs[l] \in Job /\ Numbered(l) /\ Looked(l)
      BY <2>4 DEF ModelsInv, TypeOK
    <3>2. CASE jobs[l].kind # job.kind
      <4>1. jobs[l].kind \in Kinds /\ models'[jobs[l].kind] = models[jobs[l].kind]
        BY <2>6, <3>1, <3>2 DEF Job
      <4> QED
        BY <1>1, <3>1, <4>1 DEF Numbered, Looked, Active, Newest, Matches
    <3>3. CASE jobs[l].kind = job.kind
      <4>1. /\ Len(models'[jobs[l].kind]) = n + 1 /\ Newest(jobs[l].kind) = n
            /\ DOMAIN models'[jobs[l].kind] = 1..(n + 1)
        BY <2>5, <2>6, <3>3
      <4>2. jobs[l].pc \in Training => jobs[l].version \in 1..(n + 1) /\ jobs[l].version # n + 2
        BY <1>1, <3>1, <4>1 DEF Numbered
      <4>3. n + 1 + 1 = n + 2 /\ 1..(n + 1) \subseteq 1..(n + 1 + 1) /\ 1..n \subseteq 1..(n + 1)
        BY <1>1
      <4>4. Numbered(l)'
        BY <1>1, <3>1, <4>1, <4>2, <4>3 DEF Numbered, Newest, Matches, Training
      <4>5. \A v \in 1..n : models'[jobs[l].kind][v].bundle = models[jobs[l].kind][v].bundle
        BY <2>5, <2>6, <3>3
      <4>6. Looked(l)'
        BY <1>1, <3>1, <3>3, <4>1, <4>3, <4>5 DEF Looked
      <4> QED
        BY <4>4, <4>6
    <3> QED
      BY <3>2, <3>3
  <2> QED
    BY <2>7, <2>10, <2>11, <2>12 DEF ModelsInv
<1> QED
  BY <1>2, <1>3

LEMMA EvidenceSteps == ModelsInv /\ (Evidence \/ UNCHANGED vars) => ModelsInv'
<1> SUFFICES ASSUME ModelsInv, Evidence \/ UNCHANGED vars PROVE ModelsInv'
  OBVIOUS
<1>1. UNCHANGED <<models, artifacts, jobs, contested>>
  BY DEF Evidence, vars
<1>2. fleet' \in 0..MinAssets /\ history' \in Bundles
  BY ForecastAssumption DEF ModelsInv, TypeOK, Evidence, vars, evidence, Bundles
<1>3. TypeOK'
  BY <1>1, <1>2 DEF ModelsInv, TypeOK
<1> QED
  BY <1>1, <1>3 DEF ModelsInv, Serving, Described, Numbered, Looked, Matches, Active, Newest

-----------------------------------------------------------------------------
\* The inductive invariant: who may still insert holds what is active, and the
\* file of a version matches its row or is contested.
THEOREM ModelsAreOrdered == Spec => []ModelsInv
<1>1. ASSUME ModelsInv, [Next]_vars PROVE ModelsInv'
  BY <1>1, RequestSteps, VersionSteps, LookUpSteps, SaveSteps, InsertSteps, EvidenceSteps DEF Next
<1> QED
  BY <1>1, ModelsStart, PTL DEF Spec

\* "Exactly one row is is_active at a time": the newest, whatever overlaps.
THEOREM NewestServes == Spec => []OneModelServes
<1>1. ModelsInv => OneModelServes
  BY DEF ModelsInv, Serving, Newest, OneModelServes
<1> QED
  BY <1>1, ModelsAreOrdered, PTL

\* A stored forecast comes from the bundle its version's row describes, or two
\* trainings wrote the file of that version.
THEOREM ForecastsTraced == Spec => []ForecastsAreTraceable
<1>1. ModelsInv => ForecastsAreTraceable
  BY DEF ModelsInv, Looked, ForecastsAreTraceable
<1> QED
  BY <1>1, ModelsAreOrdered, PTL
=============================================================================
