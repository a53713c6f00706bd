---------------------------- MODULE NearbyPlaces ----------------------------
(***************************************************************************)
(* What is near a spot: services/geo_service.py (geo_lookup) and           *)
(* find_nearby of services/infrastructure_registry.py answer category by   *)
(* category, from the registry where it covers the category and else from  *)
(* a race of Overpass mirrors, with a Redis cache of live answers and one  *)
(* of find_nearby's answers; agents/context_agent.py adds the weather of   *)
(* services/weather_service.py.  Lookups overlap the imports that fill the *)
(* registry.  One spot and one radius: a cache has one key per category,   *)
(* and none for the number of places a lookup is limited to.               *)
(***************************************************************************)
EXTENDS FacilityRegistry

CONSTANTS
  Near,      \* what OpenStreetMap and the registry have within the radius of the spot
  Distance,  \* from the spot
  Limits,    \* how many places of each category a lookup may take: 20 and 10 roads, or
             \* find_nearby's parameter
  Mirrors,   \* 1 (GIS_OVERPASS_URL) to the number of endpoints, in configured order
  Has,       \* what each mirror knows of the spot, with categories
  Retries,   \* WEATHER_MAX_RETRIES
  Lookups    \* bound: the lookups requested

ASSUME LookupAssumption ==
  /\ Near \subseteq Osm /\ IsFiniteSet(Near) /\ Distance \in [Near -> Nat] /\ Retries \in Nat
  /\ Limits \subseteq [{CategoryOf[b] : b \in Buckets} -> Nat \ {0}]
  /\ IsFiniteSet(Mirrors) /\ Mirrors = 1..Cardinality(Mirrors)
  /\ Has \in [Mirrors -> SUBSET (Near \X {CategoryOf[b] : b \in Buckets})]
  /\ None \notin {"available", "unavailable", "empty", "resolved", "partial", "degraded"}

VARIABLES
  lookups,   \* the handler of each lookup
  live,      \* per category: the cached live answer
  answer,    \* find_nearby's cached answer
  sky        \* the weather is cached

lookupVars == <<lookups, live, answer, sky>>

Categories == {CategoryOf[b] : b \in Buckets}
\* _POI_CATEGORIES: what nearby_status is about.
Poi == Categories \ {Road}
Todo == [status |-> "TODO", places |-> {}]
\* Per category: the state of its lookup, the race of the mirrors included.
NoLookup == [pc |-> "none", kind |-> "geo", known |-> {}, of |-> [c \in Categories |-> Todo],
             reply |-> [c \in Categories |-> <<>>], says |-> None, tries |-> 0, weather |-> None,
             limit |-> [c \in Categories |-> 0], there |-> {}]

\* _registry_counts.
VerifiedOf(c) == {k \in Registered : Verified(k) /\ registry[k].category = c}
InRange(c) == VerifiedOf(c) \cap Near
\* _nearby_from_registry: ORDER BY distance LIMIT n, where ties are cut either way.
Nearest(c, n) ==
  {S \in SUBSET InRange(c) :
     IF Cardinality(InRange(c)) <= n THEN S = InRange(c)
     ELSE Cardinality(S) = n /\ \A s \in S, k \in InRange(c) \ S : Distance[s] <= Distance[k]}
Reported(m, c) == {k \in Near : <<k, c>> \in Has[m]}
\* A mirror cuts what it reports in an order of its own.
FirstFew(places, n) ==
  {S \in SUBSET places : IF Cardinality(places) <= n THEN S = places ELSE Cardinality(S) = n}

LookupInit ==
  /\ lookups = [l \in Lookups |-> NoLookup]
  /\ live = [c \in Categories |-> None] /\ answer = None /\ sky = FALSE

-----------------------------------------------------------------------------
(* One lookup. *)

\* find_nearby answers from its cache if it can, whatever limit the answer was under.
Ask(l, kind, limit) ==
  /\ lookups[l].pc = "none"
  /\ lookups' = [lookups EXCEPT ![l] =
       IF kind = "find" /\ answer # None THEN [answer EXCEPT !.pc = "cached"]
       ELSE [NoLookup EXCEPT !.pc = "count", !.kind = kind, !.limit = limit,
                             !.there = UNION {InRange(c) : c \in Categories}]]
  /\ UNCHANGED <<live, answer, sky>>

CountRegistry(l) ==
  /\ lookups[l].pc = "count"
  /\ lookups' = [lookups EXCEPT ![l].pc = "resolve", ![l].known = {c \in Categories : VerifiedOf(c) # {}}]
  /\ UNCHANGED <<live, answer, sky>>

Found(status, answers) == {[status |-> status, places |-> places] : places \in answers}

\* A mutated form of Resolution: a cached live answer comes first.
ResolutionCachedFirst(l, c) ==
  IF live[c] # None THEN Found("PENDING", {live[c]})
  ELSE IF InRange(c) # {} THEN Found("FOUND", Nearest(c, lookups[l].limit[c]))
  ELSE IF c \in lookups[l].known THEN Found("NO_VERIFIED_RECORDS", {{}})
  ELSE Found("RACE", {{}})
\* resolve_category: the registry, then the cache, then every mirror at once.
Resolution(l, c) ==
  IF InRange(c) # {} THEN Found("FOUND", Nearest(c, lookups[l].limit[c]))
  ELSE IF c \in lookups[l].known THEN Found("NO_VERIFIED_RECORDS", {{}})
  ELSE IF live[c] # None THEN Found("PENDING", {live[c]})
  ELSE Found("RACE", {{}})

Resolve(l, c) ==
  /\ lookups[l].pc = "resolve" /\ lookups[l].of[c] = Todo
  /\ \E found \in Resolution(l, c) : lookups' = [lookups EXCEPT ![l].of[c] = found]
  /\ UNCHANGED <<live, answer, sky>>

\* A mirror answers, or has failed every attempt.
Reply(l, c, m, ok) ==
  /\ lookups[l].of[c].status = "RACE" /\ m \in Mirrors \ DOMAIN lookups[l].reply[c]
  /\ lookups' = [lookups EXCEPT ![l].reply[c] =
       [n \in DOMAIN @ \cup {m} |-> IF n = m THEN ok ELSE @[n]]]
  /\ UNCHANGED <<live, answer, sky>>

\* The answer of the first mirror that has one, once every mirror before it has failed.
Winner(l, c) ==
  LET reply == lookups[l].reply[c] IN
  {m \in DOMAIN reply : reply[m] /\ \A h \in 1..(m - 1) : h \in DOMAIN reply /\ ~reply[h]}
Lost(l, c) == \A m \in Mirrors : m \in DOMAIN lookups[l].reply[c] /\ ~lookups[l].reply[c][m]

\* A mutated form of Settled: a failed race is a live answer that found nothing.
SettledAsEmpty(l, c) ==
  IF Lost(l, c) THEN Found("PENDING", {{}})
  ELSE UNION {Found("PENDING", FirstFew(Reported(m, c), lookups[l].limit[c])) : m \in Winner(l, c)}
\* What the race has come to: nothing is known if every mirror failed.
Settled(l, c) ==
  IF Lost(l, c) THEN Found("DATA_UNAVAILABLE", {{}})
  ELSE UNION {Found("PENDING", FirstFew(Reported(m, c), lookups[l].limit[c])) : m \in Winner(l, c)}

\* The best answer ends the race; only answers are cached, if Redis is up.
Settle(l, c) ==
  /\ lookups[l].of[c].status = "RACE"
  /\ \E done \in Settled(l, c) :
       /\ lookups' = [lookups EXCEPT ![l].of[c] = done, ![l].reply[c] = <<>>]
       /\ live' \in {live} \cup (IF done.status = "PENDING" THEN {[live EXCEPT ![c] = done.places]} ELSE {})
  /\ UNCHANGED <<answer, sky>>

\* search_status of find_nearby, and nearby_status of geo_lookup, in which roads do not
\* count.
Says(l) ==
  LET States(cs) == {lookups[l].of[c].status : c \in cs} IN
  IF lookups[l].kind = "find"
  THEN IF "DATA_UNAVAILABLE" \in States(Categories) THEN "degraded"
       ELSE IF "PENDING" \in States(Categories) THEN "partial" ELSE "resolved"
  ELSE IF \E c \in Poi : lookups[l].of[c].places # {} THEN "available"
       ELSE IF "DATA_UNAVAILABLE" \in States(Poi) THEN "unavailable" ELSE "empty"

\* find_nearby caches whatever it answers; the context agent asks for the weather next.
Conclude(l) ==
  LET after == [lookups[l] EXCEPT !.pc = IF lookups[l].kind = "context" THEN "weather" ELSE "done", !.says = Says(l)] IN
  /\ lookups[l].pc = "resolve"
  /\ \A c \in Categories : lookups[l].of[c].status \notin {"TODO", "RACE"}
  /\ lookups' = [lookups EXCEPT ![l] = after]
  /\ answer' \in {answer} \cup (IF after.kind = "find" THEN {after} ELSE {})
  /\ UNCHANGED <<live, sky>>

\* The database fails: the context goes on with an empty InfrastructureContext, whose
\* status is "available" by default, and the endpoints raise.
Fail(l) ==
  /\ lookups[l].pc \in {"count", "resolve"}
  /\ lookups' = [lookups EXCEPT ![l] = IF @.kind = "context"
                   THEN [NoLookup EXCEPT !.pc = "weather", !.kind = "context", !.says = "available"]
                   ELSE [NoLookup EXCEPT !.pc = "raised"]]
  /\ UNCHANGED <<live, answer, sky>>

-----------------------------------------------------------------------------
(* The weather of a context run: fetch_weather. *)

ReadCachedWeather(l) ==
  /\ lookups[l].pc = "weather" /\ lookups[l].tries = 0 /\ sky
  /\ lookups' = [lookups EXCEPT ![l].pc = "done", ![l].weather = "cached"]
  /\ UNCHANGED <<live, answer, sky>>

MissWeather(l) ==
  /\ lookups[l].pc = "weather" /\ lookups[l].tries = 0 /\ ~sky
  /\ lookups' = [lookups EXCEPT ![l].tries = 1]
  /\ UNCHANGED <<live, answer, sky>>

\* Every attempt may fail; after the last the weather is unavailable.
WeatherFails(l) ==
  /\ lookups[l].pc = "weather" /\ lookups[l].tries > 0
  /\ lookups' = IF lookups[l].tries <= Retries THEN [lookups EXCEPT ![l].tries = @ + 1]
                ELSE [lookups EXCEPT ![l].pc = "done", ![l].weather = "unavailable"]
  /\ UNCHANGED <<live, answer, sky>>

\* An answer without a single reading is not stored and counts as unavailable.
WeatherAnswers(l, usable) ==
  /\ lookups[l].pc = "weather" /\ lookups[l].tries > 0
  /\ lookups' = [lookups EXCEPT ![l].pc = "done", ![l].weather = IF usable THEN "live" ELSE "unavailable"]
  /\ sky' \in {sky, sky \/ usable}
  /\ UNCHANGED <<live, answer>>

\* Redis forgets.
Expire ==
  \/ \E c \in Categories : live' = [live EXCEPT ![c] = None] /\ UNCHANGED <<lookups, answer, sky>>
  \/ answer' = None /\ UNCHANGED <<lookups, live, sky>>
  \/ sky' = FALSE /\ UNCHANGED <<lookups, live, answer>>

LookupNext ==
  \/ Expire
  \/ \E l \in Lookups :
       \/ \E kind \in {"geo", "find", "context"}, limit \in Limits : Ask(l, kind, limit)
       \/ CountRegistry(l) \/ Conclude(l) \/ Fail(l)
       \/ ReadCachedWeather(l) \/ MissWeather(l) \/ WeatherFails(l)
       \/ \E usable \in BOOLEAN : WeatherAnswers(l, usable)
       \/ \E c \in Categories : \/ Resolve(l, c) \/ Settle(l, c)
                                 \/ \E m \in Mirrors, ok \in BOOLEAN : Reply(l, c, m, ok)

\* Lookups over a registry that imports go on filling.
CityInit == RegistryInit /\ LookupInit
CityNext == (RegistryNext /\ UNCHANGED lookupVars) \/ (LookupNext /\ UNCHANGED registryVars)
CitySpec == CityInit /\ [][CityNext]_<<registryVars, lookupVars>>

-----------------------------------------------------------------------------
(* Properties. *)

\* Nobody is told that there is nothing of a category unless the registry covers the
\* category or a mirror was reached and knows of nothing: a failure, cached or not, is
\* never turned into an absence.  A nearby_status of "empty" is about every category
\* but roads.
AbsenceIsChecked ==
  \A l \in Lookups, c \in Categories :
    LET found == lookups[l].of[c] IN
    /\ found.places = {}
    /\ found.status \in {"NO_VERIFIED_RECORDS", "PENDING"} \/ (lookups[l].says = "empty" /\ c \in Poi)
    => \/ VerifiedOf(c) # {}
       \/ \E m \in Mirrors : Reported(m, c) = {}

\* The list is as long as the lookup is limited to, and k is no nearer than any on it.
CrowdedOut(lookup, c, k) ==
  /\ Cardinality(lookup.of[c].places) = lookup.limit[c]
  /\ \A near \in lookup.of[c].places : Distance[near] <= Distance[k]

\* A lookup that is not answered from find_nearby's cache names every verified facility
\* that was in range when it was asked, whatever the live cache holds, unless places as
\* near fill the list of its category to the limit.
VerifiedIsNamed ==
  \A l \in Lookups, c \in Categories :
    lookups[l].says # None /\ lookups[l].of # NoLookup.of /\ lookups[l].pc # "cached" =>
      \A k \in lookups[l].there \cap VerifiedOf(c) :
        k \in lookups[l].of[c].places \/ CrowdedOut(lookups[l], c, k)
=============================================================================
