--------------------------- MODULE FacilityRegistry ---------------------------
(***************************************************************************)
(* The registry of public facilities and the fleet of assets drawn from    *)
(* it.  An import asks Overpass bucket by bucket, a bucket being a ward's  *)
(* bounding box and a category: it upserts what a bucket answers and       *)
(* commits at once, and asks again for the buckets that failed, in         *)
(* backfill rounds.  Boxes of wards overlap, a facility may answer to two  *)
(* categories, and two officers may import at the same time.  A dataset    *)
(* file is imported in one transaction.  The asset sync copies verified    *)
(* roads into infrastructure_assets.                                       *)
(***************************************************************************)
EXTENDS Naturals, FiniteSets

CONSTANTS
  None,
  Osm,          \* source ids Overpass may answer
  FileRows,     \* source ids of a dataset file, of one category, ROAD
  Manual,       \* bound: assets officers enter by hand
  Buckets,
  CategoryOf,   \* the category a bucket asks for
  Within,       \* what OpenStreetMap has in the bucket
  Backfills,    \* INFRASTRUCTURE_IMPORT_BACKFILL_ROUNDS
  Imports       \* bound: the imports requested

Road == "ROAD"
Facilities == Osm \cup FileRows

ASSUME FacilityAssumption ==
  /\ Within \in [Buckets -> SUBSET Osm] /\ Backfills \in Nat
  /\ Osm \cap FileRows = {} /\ Manual \cap Facilities = {}
  /\ None \notin [category : {CategoryOf[b] : b \in Buckets} \cup {Road}, status : {"FOUND", "PENDING"}]

VARIABLES
  registry,  \* critical_locations, one row per (source, source_id)
  imports,   \* the handler of each import
  assets     \* active rows of infrastructure_assets

registryVars == <<registry, imports, assets>>

Facility == [category : {CategoryOf[b] : b \in Buckets} \cup {Road}, status : {"FOUND", "PENDING"}]
\* seen: the rows the select before an upsert found.
Import == [pc : {"none", "fetch", "upsert", "done", "raised"}, round : 0..Backfills,
           todo : SUBSET Buckets, retry : SUBSET Buckets, failed : SUBSET Buckets,
           at : Buckets \cup {None}, seen : SUBSET Osm]

Requested == [pc |-> "none", round |-> 0, todo |-> {}, retry |-> {}, failed |-> {},
              at |-> None, seen |-> {}]

Registered == {k \in Facilities : registry[k] # None}
Verified(k) == registry[k] # None /\ registry[k].status = "FOUND"

RegistryInit ==
  /\ registry = [k \in Facilities |-> None]
  /\ imports = [i \in Imports |-> Requested]
  /\ assets = {}

-----------------------------------------------------------------------------
(* ingest_from_overpass. *)

StartImport(i) ==
  /\ imports[i].pc = "none"
  /\ imports' = [imports EXCEPT ![i] = [Requested EXCEPT !.pc = "fetch", !.todo = Buckets]]
  /\ UNCHANGED <<registry, assets>>

\* Mutant: one round too many is expected, so what fails in the last is not counted.
FetchFailsUncounted(i, b) ==
  /\ imports[i].pc = "fetch" /\ b \in imports[i].todo
  /\ imports' = [imports EXCEPT ![i].todo = @ \ {b}, ![i].retry = @ \cup {b}]
  /\ UNCHANGED <<registry, assets>>

\* Every endpoint and attempt failed: counted in the last round, else retried.
FetchFails(i, b) ==
  /\ imports[i].pc = "fetch" /\ b \in imports[i].todo
  /\ imports' = IF imports[i].round = Backfills
                THEN [imports EXCEPT ![i].todo = @ \ {b}, ![i].failed = @ \cup {b}]
                ELSE [imports EXCEPT ![i].todo = @ \ {b}, ![i].retry = @ \cup {b}]
  /\ UNCHANGED <<registry, assets>>

FetchAnswers(i, b) ==
  /\ imports[i].pc = "fetch" /\ b \in imports[i].todo
  /\ imports' = [imports EXCEPT ![i].pc = "upsert", ![i].todo = @ \ {b}, ![i].at = b,
                                ![i].seen = Within[b] \cap Registered]
  /\ UNCHANGED <<registry, assets>>

\* A known row keeps the category it came with; a new one is inserted, and one
\* that another import inserted since the select ends this import.
CommitBucket(i) ==
  LET b == imports[i].at
      new == Within[b] \ imports[i].seen
      after == [imports[i] EXCEPT !.at = None, !.seen = {},
                                  !.pc = IF new \cap Registered = {} THEN "fetch" ELSE "raised"]
  IN /\ imports[i].pc = "upsert"
     /\ imports' = [imports EXCEPT ![i] = after]
     /\ registry' = IF after.pc = "raised" THEN registry
                    ELSE [k \in Facilities |->
                           IF k \notin Within[b] THEN registry[k]
                           ELSE IF k \in new THEN [category |-> CategoryOf[b], status |-> "FOUND"]
                           ELSE [registry[k] EXCEPT !.status = "FOUND"]]
     /\ UNCHANGED assets

EndRound(i) ==
  LET run == imports[i] IN
  /\ run.pc = "fetch" /\ run.todo = {}
  /\ imports' = [imports EXCEPT ![i] =
       IF run.retry = {} \/ run.round = Backfills THEN [run EXCEPT !.pc = "done"]
       ELSE [run EXCEPT !.round = @ + 1, !.todo = run.retry, !.retry = {}]]
  /\ UNCHANGED <<registry, assets>>

\* The worker process dies, or an upsert fails for another reason.
KillImport(i) ==
  /\ imports[i].pc \in {"fetch", "upsert"}
  /\ imports' = [imports EXCEPT ![i].pc = "raised", ![i].at = None, ![i].seen = {}]
  /\ UNCHANGED <<registry, assets>>

-----------------------------------------------------------------------------
(* Files and the fleet. *)

\* Rows without coordinates are inserted as they are, so a file whose unlocated
\* rows are known already is refused as a whole.
ImportFile(located) ==
  /\ (FileRows \ located) \cap Registered = {}
  /\ registry' = [k \in Facilities |->
       IF k \notin FileRows THEN registry[k]
       ELSE [category |-> Road, status |-> IF k \in located THEN "FOUND" ELSE "PENDING"]]
  /\ UNCHANGED <<imports, assets>>

SyncAssets ==
  /\ assets' = assets \cup {k \in Registered : Verified(k) /\ registry[k].category = Road}
  /\ UNCHANGED <<registry, imports>>

RegisterAsset(a) ==
  /\ a \notin assets
  /\ assets' = assets \cup {a}
  /\ UNCHANGED <<registry, imports>>

RegistryNext ==
  \/ \E i \in Imports :
       \/ StartImport(i) \/ CommitBucket(i) \/ EndRound(i) \/ KillImport(i)
       \/ \E b \in Buckets : FetchFails(i, b) \/ FetchAnswers(i, b)
  \/ \E located \in SUBSET FileRows : ImportFile(located)
  \/ SyncAssets
  \/ \E a \in Manual : RegisterAsset(a)

RegistrySpec == RegistryInit /\ [][RegistryNext]_registryVars

-----------------------------------------------------------------------------
RegistryTypeOK ==
  /\ registry \in [Facilities -> Facility \cup {None}]
  /\ imports \in [Imports -> Import]
  /\ assets \subseteq Facilities \cup Manual

\* "A bucket that still fails every round is counted as failed": when an import
\* reports, what it does not count as failed is in the registry, verified,
\* whatever other imports did to the same rows meanwhile.
CoverageIsReported ==
  \A i \in Imports : imports[i].pc = "done" =>
    \A b \in Buckets \ imports[i].failed : \A k \in Within[b] : Verified(k)
=============================================================================
