-------------------------- MODULE MCInfrastructure --------------------------
(* Two buckets that overlap: two roads that also answer to another category, and a bridge
   out of range.  Either two imports meet, or one import meets the lookups, or requests
   train and open the forecasts. *)
EXTENDS NearbyPlaces, ForecastModels, TLC

CONSTANTS road, lane, bridge, roads, stops

VARIABLE focus  \* which of the three a behaviour is about

Around == (roads :> {road, lane, bridge}) @@ (stops :> {road, lane})
Asked == (roads :> "ROAD") @@ (stops :> "BUS_STOP")
\* The second mirror does not know that buses stop there.
Knows == <<{<<road, "ROAD">>, <<lane, "ROAD">>, <<road, "BUS_STOP">>}, {<<road, "ROAD">>}>>
Afar == (road :> 2) @@ (lane :> 1)
\* Of the roads only one fits.
Taken == {("ROAD" :> 1) @@ ("BUS_STOP" :> 2)}
Symmetric == Permutations(Imports) \cup Permutations(Jobs)

AllVars == <<registryVars, lookupVars, vars, focus>>

\* Beside the lookups: no files, no fleet and one import, no bucket of which fails.
OneImport ==
  /\ UNCHANGED assets /\ \A k \in FileRows : registry'[k] = None
  /\ \A i \in Imports : imports'[i].retry = {} /\ imports'[i].pc # "raised"
  /\ \A i, j \in Imports : imports'[i].pc # "none" /\ imports'[j].pc # "none" => i = j

\* Lookups meet through the caches and Redis only: one after the other.
Over(l) == lookups[l].pc \in {"done", "cached", "raised"}
OneByOne == \A l \in Lookups : Over(l) \/ (\A k \in Lookups : k > l => lookups'[k] = lookups[k])

MCInit == CityInit /\ Init /\ focus \in {"imports", "lookups", "forecasts"}
MCNext ==
  /\ UNCHANGED focus
  /\ IF focus = "forecasts" THEN Next /\ UNCHANGED <<registryVars, lookupVars>>
     ELSE CityNext /\ UNCHANGED vars
  /\ focus = "imports" => UNCHANGED lookupVars
  /\ focus = "lookups" => OneImport /\ OneByOne
MCSpec == MCInit /\ [][MCNext]_AllVars
=============================================================================
