---------------------------- MODULE Correlation ----------------------------
(***************************************************************************)
(* Duplicates: services/complaint_service.py files complaints,             *)
(* agents/correlation_agent.py embeds one, looks for complaints like it    *)
(* and proposes links, services/correlation_service.py lets officers       *)
(* confirm or reject them, and services/ward_rep_service.py shows a        *)
(* complaint's cluster.  A request is split where other transactions may   *)
(* commit in between; a row it has written and not committed stays locked. *)
(* Scores are in thousandths.  Both pools (25 rows) hold every complaint.  *)
(***************************************************************************)
EXTENDS Integers, FiniteSets

CONSTANTS
  None,
  Complaints,
  About,          \* per complaint: where (metres along a street, or None), text, category, hour
  Alike,          \* cosine similarity of two texts
  Radius,         \* CORRELATION_NEARBY_RADIUS_M
  Window,         \* CORRELATION_TIME_WINDOW_HOURS
  Threshold,      \* CORRELATION_COMBINED_THRESHOLD
  MaxCandidates,  \* CORRELATION_MAX_CANDIDATES
  Requests,       \* correlation requests (a bound)
  Decisions       \* officers' requests (a bound)

ASSUME SettingsAssumption ==
  /\ Window \in Nat \ {0} /\ Radius \in Nat /\ MaxCandidates \in Nat \ {0}
  /\ None # "CONFIRMED_DUPLICATE"
  /\ \A c \in Complaints : About[c].where \in Int \cup {None}

VARIABLES
  reported,  \* the complaints there are
  status,    \* complaints.correlation_status
  embedded,  \* complaints with a committed row in complaint_embeddings
  links,     \* complaint_correlations: [run, source, target, status]
  request,   \* correlation requests
  deciding   \* officers' requests

vars == <<reported, status, embedded, links, request, deciding>>

Fresh == [at |-> "IDLE"]

-----------------------------------------------------------------------------
(* The score. *)

Distance(c, d) ==
  LET gap == About[c].where - About[d].where IN IF gap < 0 THEN -gap ELSE gap
Near(c, d) ==
  /\ About[c].where # None /\ About[d].where # None
  /\ Distance(c, d) <= Radius

\* exp(-metres / 215), the series cut after its fifth power.
GeoComponent(metres) ==
  LET x == (1000 * metres) \div 215
      e == 1000 + (x * (1000 + (x * (1000 + (x * (1000 + (x * (1000 + x \div 5)) \div 4000)) \div 3000)) \div 2000)) \div 1000
  IN 1000000 \div e

TimeComponent(hours) == IF hours > Window THEN 0 ELSE (1000 * (Window - hours)) \div Window

\* combine_score as the agent calls it: there always is a similarity (0 for a complaint
\* without an embedding), a time and a category; the distance is known within the radius.
CombineScore(c, d) ==
  LET hours == IF About[c].hour < About[d].hour
               THEN About[d].hour - About[c].hour ELSE About[c].hour - About[d].hour
      rest == 50 * (IF d \in embedded THEN Alike[About[c].text, About[d].text] ELSE 0)
              + 15 * TimeComponent(hours)
              + 10 * (IF About[c].category = About[d].category THEN 1000 ELSE 0)
  IN IF Near(c, d) THEN (rest + 25 * GeoComponent(Distance(c, d))) \div 100 ELSE rest \div 75

\* A mutated form of Candidates: the place is asked only of complaints with an embedding.
CandidatesEmbedded(c) == embedded \ {c}
\* _search_node: the semantic pool and the places within the radius.
Candidates(c) == (embedded \cup {d \in reported : Near(c, d)}) \ {c}

\* The best MaxCandidates: which of two equals is cut depends on the order of a set.
Ranked(c) ==
  {best \in SUBSET Candidates(c) :
     /\ Cardinality(best) = IF Cardinality(Candidates(c)) < MaxCandidates
                            THEN Cardinality(Candidates(c)) ELSE MaxCandidates
     /\ \A d \in best, e \in Candidates(c) \ best : CombineScore(c, d) >= CombineScore(c, e)}

Verdict(c) ==
  IF \E d \in Candidates(c) : CombineScore(c, d) >= Threshold
  THEN "POSSIBLE_DUPLICATE" ELSE "NEW_INCIDENT"

-----------------------------------------------------------------------------
(* Complaints and correlation runs. *)

Init ==
  /\ reported = {} /\ embedded = {} /\ links = {}
  /\ status = [c \in Complaints |-> None]
  /\ request = [r \in Requests |-> Fresh]
  /\ deciding = [o \in Decisions |-> Fresh]

\* create_complaint commits the complaint with its location.
FileComplaint(c) ==
  /\ c \notin reported
  /\ reported' = reported \cup {c}
  /\ UNCHANGED <<status, embedded, links, request, deciding>>

\* The request loads the complaint; its session never loads it again.
Start(r, c) ==
  /\ request[r] = Fresh /\ c \in reported
  /\ request' = [request EXCEPT ![r] = [at |-> "LOADED", complaint |-> c, status |-> status[c]]]
  /\ UNCHANGED <<reported, status, embedded, links, deciding>>

\* _upsert_embedding computes the vector and looks for the complaint's row ...
LookUp(r) ==
  /\ request[r].at = "LOADED"
  /\ request' = [request EXCEPT ![r] =
       [at |-> "LOOKED_UP", complaint |-> @.complaint, status |-> @.status, new |-> @.complaint \notin embedded]]
  /\ UNCHANGED <<reported, status, embedded, links, deciding>>

Holds(r, c) == request[r].at \in {"EMBEDDED", "RANKED"} /\ request[r].complaint = c

\* ... and inserts or overwrites it, which waits for another run that has: a second
\* insert of one complaint then breaks the unique key and the run.
Embed(r) ==
  /\ request[r].at = "LOOKED_UP"
  /\ \A q \in Requests : ~Holds(q, request[r].complaint)
  /\ request' = [request EXCEPT ![r] =
       IF @.new /\ @.complaint \in embedded THEN [at |-> "LOST"]
       ELSE [at |-> "EMBEDDED", complaint |-> @.complaint, status |-> @.status]]
  /\ UNCHANGED <<reported, status, embedded, links, deciding>>

\* _search_node and _validate_node.
Search(r) ==
  /\ request[r].at = "EMBEDDED"
  /\ \E best \in Ranked(request[r].complaint) :
       request' = [request EXCEPT ![r] =
         [at |-> "RANKED", complaint |-> @.complaint, status |-> @.status,
          best |-> best, verdict |-> Verdict(@.complaint)]]
  /\ UNCHANGED <<reported, status, embedded, links, deciding>>

\* An exception (the embedder's, for one) or a crash before the commit.
Lose(r) ==
  /\ request[r].at \in {"LOADED", "LOOKED_UP", "EMBEDDED", "RANKED"}
  /\ request' = [request EXCEPT ![r] = [at |-> "LOST"]]
  /\ UNCHANGED <<reported, status, embedded, links, deciding>>

Locked(l) == \E o \in Decisions : deciding[o].at = "LOCKED" /\ deciding[o].run = l.run /\ deciding[o].target = l.target

\* A mutated form of Replaced: whatever was decided about the complaint goes too.
ReplacedAll(c) == {l \in links : l.source = c}
Replaced(c) == {l \in links : l.source = c /\ l.status = "PENDING"}

\* _persist_node: the pending links are replaced (waiting for officers who hold one), the
\* verdict is written if it differs from the status the request loaded, all is committed.
Persist(r) ==
  LET c == request[r].complaint IN
  /\ request[r].at = "RANKED"
  /\ \A l \in links : l.source = c /\ l.status = "PENDING" => ~Locked(l)
  /\ links' = (links \ Replaced(c))
              \cup {[run |-> r, source |-> c, target |-> d, status |-> "PENDING"] : d \in request[r].best}
  /\ status' = IF request[r].verdict = request[r].status THEN status
               ELSE [status EXCEPT ![c] = request[r].verdict]
  /\ embedded' = embedded \cup {c}
  /\ request' = [request EXCEPT ![r] = [at |-> "DONE", complaint |-> c]]
  /\ UNCHANGED <<reported, deciding>>

-----------------------------------------------------------------------------
(* Officers decide: decide_candidate. *)

ReadLink(o, l, verdict) ==
  /\ deciding[o] = Fresh /\ l.status = "PENDING"
  /\ deciding' = [deciding EXCEPT ![o] =
       [at |-> "READ", run |-> l.run, source |-> l.source, target |-> l.target, verdict |-> verdict]]
  /\ UNCHANGED <<reported, status, embedded, links, request>>

SameLink(o, l) == l.run = deciding[o].run /\ l.target = deciding[o].target

\* Loading the complaint flushes the link first: the row is updated, whatever its status
\* has become, or is gone and the request fails.  The complaint is read behind the lock.
LockLink(o) ==
  /\ deciding[o].at = "READ"
  /\ \A l \in links : SameLink(o, l) => ~Locked(l)
  /\ deciding' = [deciding EXCEPT ![o] =
       IF \E l \in links : SameLink(o, l)
       THEN [at |-> "LOCKED", run |-> @.run, source |-> @.source, target |-> @.target,
             verdict |-> @.verdict, status |-> status[@.source]]
       ELSE [at |-> "OVER"]]
  /\ UNCHANGED <<reported, status, embedded, links, request>>

FlagFor(verdict) == IF verdict = "CONFIRMED" THEN "CONFIRMED_DUPLICATE" ELSE "POSSIBLE_DUPLICATE"

\* A mutated form of FlagAfter: a rejection leaves the complaint's status alone.
FlagAfterKeeping(o) ==
  IF deciding[o].verdict = "REJECTED" \/ FlagFor(deciding[o].verdict) = deciding[o].status
  THEN status[deciding[o].source] ELSE FlagFor(deciding[o].verdict)
\* An attribute set to the value it was loaded with is not written.
FlagAfter(o) ==
  IF FlagFor(deciding[o].verdict) = deciding[o].status
  THEN status[deciding[o].source] ELSE FlagFor(deciding[o].verdict)

CommitDecision(o) ==
  /\ deciding[o].at = "LOCKED"
  /\ links' = {IF SameLink(o, l) THEN [l EXCEPT !.status = deciding[o].verdict] ELSE l : l \in links}
  /\ status' = [status EXCEPT ![deciding[o].source] = FlagAfter(o)]
  /\ deciding' = [deciding EXCEPT ![o] = [at |-> "OVER"]]
  /\ UNCHANGED <<reported, embedded, request>>

DropDecision(o) ==
  /\ deciding[o].at \in {"READ", "LOCKED"}
  /\ deciding' = [deciding EXCEPT ![o] = [at |-> "OVER"]]
  /\ UNCHANGED <<reported, status, embedded, links, request>>

Next ==
  \/ \E c \in Complaints : FileComplaint(c) \/ \E r \in Requests : Start(r, c)
  \/ \E r \in Requests : LookUp(r) \/ Embed(r) \/ Search(r) \/ Lose(r) \/ Persist(r)
  \/ \E o \in Decisions : LockLink(o) \/ CommitDecision(o) \/ DropDecision(o)
  \/ \E o \in Decisions, l \in links, verdict \in {"CONFIRMED", "REJECTED"} : ReadLink(o, l, verdict)

Spec == Init /\ [][Next]_vars

-----------------------------------------------------------------------------
(* Properties. *)

\* get_complaint_cluster: links of both directions that are not rejected.
Cluster(c) ==
  {l.target : l \in {k \in links : k.source = c /\ k.status # "REJECTED"}}
  \cup {l.source : l \in {k \in links : k.target = c /\ k.status # "REJECTED"}}

\* A complaint that reads CONFIRMED_DUPLICATE has a link an officer confirmed and nobody
\* turned down since, however decisions and new runs of the agent overlap.
ConfirmedIsBacked ==
  \A c \in Complaints : status[c] = "CONFIRMED_DUPLICATE" =>
    \E l \in links : l.source = c /\ l.status = "CONFIRMED"

\* What officers have decided about a link is never deleted or opened again by a run.
DecisionsStand ==
  [][\A l \in links : l.status # "PENDING" =>
       \E m \in links' : /\ [m EXCEPT !.status = l.status] = l
                         /\ m.status # "PENDING"]_vars

\* Two complaints of one place that have both been compared are in one cluster, unless an
\* officer turned down a link between them: whichever way two runs overlap, one of them
\* sees the other complaint.  (With room for every candidate.)
NeighboursMeet ==
  \A r, q \in Requests :
    request[r].at = "DONE" /\ request[q].at = "DONE"
    /\ request[r].complaint # request[q].complaint
    /\ Near(request[r].complaint, request[q].complaint) =>
      \/ request[q].complaint \in Cluster(request[r].complaint)
      \/ \E l \in links : /\ l.status = "REJECTED"
                          /\ {l.source, l.target} = {request[r].complaint, request[q].complaint}
=============================================================================
