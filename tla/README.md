# CivicAgent: a verification development

TLA+ models of CivicAgent, model-checked with TLC on small instances, with
theorems checked by TLAPS. CivicAgent takes citizens' complaints about a city,
analyses them with a set of agents (each a small graph around a language
model), turns them into work orders, dispatches field workers, and lets officers
certify the repair against the worker's photos. It is a FastAPI application on
async SQLAlchemy and Postgres, with Redis for pub/sub, caches and token revocation,
and a Next.js front end that keeps working offline for field workers.

`PROJECT.json` lists the components, the runs, the mutants that show each checked
property can be broken by a plausible bug, the source lines every definition
stands for, the hazards and the theorems.

## 1. Inventory

Paths are below `src/backend/app/` unless they start with `frontend/`
(`src/frontend/src/`).

| Part | State it keeps | Operations | What is hard about it | Correct when |
|---|---|---|---|---|
| Work orders, officer side (`services/work_order_service.py`) | `work_orders` row, `worker_assignments`, status history | dispatch, approve, assign, reassign, escalate, reject | any order of legal calls; two officers at once; the holder column and the assignment rows are written apart | holder and book agree, recorded origins are true, certified and refused orders stay put |
| Field worker (`services/field_worker_service.py`) | activities, photos, order and complaint status | accept, check in, start, finish, upload, submit, start rework, notes | gates look at history (check-ins, rework entries) and not at the round; replays under `client_ref` | nothing starts before approval, a returned job can be restarted, a replay changes nothing |
| Resolution verification (`services/verify_repair_service.py`) | `work_order_verifications`, order and complaint status | request, review (confirm, follow-up, rework) | a confirmation commits twice; analyses overlap and answer late; several orders of one complaint share its status | a certification rests on evidence and an accepted verdict; RESOLVED is backed by a certified order; what a review decided is final |
| Verification agent (`agents/verify_repair_agent.py`) | one run | load, call model, validate, retry, fall back, persist | malformed answers, provider failures, quality gates | no verdict that a gate should have stopped |
| The worker's page and the officer's cards (`frontend/lib/worker-workflow.ts`, `frontend/components/`) | what was last fetched | offer the next step | the page derives the step itself from activities and time stamps, and may be stale | whoever holds the order is offered a step the server takes |
| Complaint status (`models/complaint.py`) | one column, history | written by six services | writers do not look at each other | what the citizen reads is backed |
| Offline queue (`frontend/lib/offline-queue.ts`) | queue in localStorage | enqueue, sync, stop, clear | overlapping syncs, taps beside them, lost answers, reloads, quota | nothing lost, repeated or reordered; where the code does not keep that, only for the reasons section 7 names |
| SLA monitor (`agents/sla_agent.py`, `services/sla_service.py`) | agent runs with the previous scan | scan, escalate on transition, notify, backfill deadlines | previous run may be filtered, running or crashed; the graph is retried with what it queued | every breach is announced, none twice without a reason |
| SLA policies (`services/sla_policy_service.py`) | rules | create, update, pick the most specific | duplicate check without a unique key; edits between approval and scan | a deadline is the order's own hours after its anchor |
| Agent runs (`services/agent_run_service.py`) | run rows, events | create, finalize, reap | a reaped run may be alive | a run ends once |
| Intelligence pipeline (`services/complaint_intelligence_service.py`, `agents/`) | newest run of each agent, severity and status | view, rerun what is stale, triage, vision, score | freshness by end times, concurrent viewers, outcome and effect in separate commits | views settle; the score is never older than its inputs |
| Priority engine (`services/priority_engine.py`, `services/priority_data_service.py`) | none | scoring formula | tiers, caps, missing factors renormalised | worse never scores lower |
| Infrastructure registry (`services/infrastructure_registry.py`) | `critical_locations`, assets | import by bucket, backfill, dataset file, asset sync | overlapping boxes and imports, failing endpoints, a killed worker | a report counts as failed what is missing |
| Nearby places, weather, context (`services/geo_service.py`, `services/weather_service.py`, `agents/context_agent.py`) | caches | lookup, race of mirrors, cache, weather | a failure must not read as an absence; stale caches; lists cut at a limit | absence was checked; verified facilities are named, up to the limit |
| Hotspots and infrastructure forecasts (`services/hotspot_service.py`, `services/infra_service.py`) | model rows, artifact files, predictions | train, activate, predict | two trainings at once, files and rows written apart, training on a read | one model serves; a forecast is traceable |
| Routing (`agents/routing_agent.py`, `services/routing_service.py`, `routing_engine.py`) | decision and override rows | compute, override | recomputation against an override | an override binds what follows |
| Dispatch agent (`agents/dispatch_agent.py`, `services/dispatch_engine.py`) | draft order, load per worker | rank workers, write a draft | read and write apart; missing coordinates and ceilings | the best worker with room is recommended |
| Correlation (`agents/correlation_agent.py`, `services/correlation_service.py`) | candidates, `correlation_status`, embeddings | search, decide | runs and decisions share one column; overlapping runs of neighbours | a confirmed duplicate is backed; neighbours meet |
| Intake (`frontend/components/report/`, `services/complaint_service.py`) | the form, media, complaint | locate, detect the ward, upload, submit | every answer is late and the form lives on | what was reviewed is what is filed |
| Sessions (`services/auth_service.py`, `core/security.py`, `frontend/lib/auth-api.ts`) | refresh tokens; localStorage and memory of each tab | log in, rotate, log out, restore | concurrent rotation, logout against rotation, lost answers | expiry throws nobody out; logout ends the login |
| Notifications and WebSockets (`services/notification_service.py`, `core/realtime.py`, `api/ws/`, `frontend/`) | rows, channels, the badge | notify, publish, snapshot, poll, mark read | publish before commit, lost messages, reordered answers | the badge settles on the unread count |
| Conversations (`services/conversation_service.py`, `frontend/components/messages/`) | conversation, messages, attachments, read marks | open, upload, send, mark read | select then insert, a retry after a lost answer, a thread switched away | a message keeps exactly its attachments |
| Administration (`services/admin_service.py`, `admin_config_service.py`) | accounts, roles, wards, categories, settings | create, update, disable, reassign | the last administrator; disabled roles and their holders; requests read and commit apart | somebody can always administer |
| Ratings (`services/rating_service.py`) | rating | rate | select then insert | at most one per complaint |
| Ward representatives (`services/ward_rep_service.py`) | none of its own | request escalation | – | – |
| Preventive orders (`services/infra_service.py`) | reviews, orders | review, create order | creation repeated | one order per prediction |
| Provider client (`services/ai_service.py`) | none | call, retry | failure classes | – |
| Rate limit, storage (`middleware/rate_limit.py`, `storage/`) | windows, files | – | the window at its limit | – |
| Governance, audit, analytics, assistant, language | append-only rows or none | – | – | – |

How they interact: every HTTP handler runs in one database session; services call
each other directly and write each other's tables (the complaint's status column
is written by triage, vision, field worker, verification and ward services). Agents
are started by handlers and record an agent run. Notifications are rows written in
the caller's transaction and a Redis message sent beside it. The worker's app talks
to the API with at-least-once requests under a `client_ref`. Postgres runs at READ
COMMITTED; the code takes no row lock except the ones an UPDATE brings, and keeps no
version column. Every page shows what it last fetched.

`transition_complaint` has no caller, and the statuses CLOSED (order and complaint)
and CITIZEN_VERIFIED are written by nobody; the models keep those values in
the types and in the guards, and reach none of them.

## 2. Modules

| Module | Role |
|---|---|
| `WorkOrder` | the work order from draft to certification, with the complaint it serves: officer, worker, reviewer, analysis, citizen side |
| `Resolution`, `WorkOrderResolution` | what resolving complaints promises, in four variables and seven steps; the refinement mapping, `ImplementsResolution` |
| `WorkOrderProofs` | theorems: types and what exists before approval; the assignment book; certification and reviews; the refinement; the screens |
| `Screens` | extends `WorkOrder` with what the worker's page and the officer's cards show and offer |
| `VerifyRepairAgent`, `VerifyRepairAgentProofs` | one level down: how a verification run comes by its verdict |
| `Intelligence`, `IntelligenceProofs` | triage, vision, context and priority runs of one complaint and the view that reruns what is stale |
| `SlaMonitor`, `SlaMonitorProofs` | rules, deadlines, scans and their alerts |
| `PriorityRulebook`, `PriorityEngine` | the tables and the formula of the score |
| `FacilityRegistry` | imports into the registry, dataset files, the asset sync |
| `NearbyPlaces` | extends `FacilityRegistry` with lookups of a spot and their caches |
| `ForecastModels` | training, activation and inference of both forecasts |
| `InfrastructureProofs` | theorems about the registry, the lookups and the forecasts |
| `NotificationBadge` | rows, syncs, sockets, polls, and the badge |
| `RoutingEngine`, `Dispatch`, `DispatchProofs` | the department, overrides, the ranking and the draft |
| `Correlation` | duplicates: runs, links and officers' decisions |
| `Sessions` | tokens on the server and in the tabs |
| `Conversations` | threads, attachments and the pane |
| `ReportWizard` | the wizard, its uploads and lookups, and filing a complaint |
| `ReportProofs` | theorems about the wizard, the threads and the duplicates |
| `Administration` | accounts, roles and the entities that can be switched off |
| `OfflineQueue` | the worker's queue, its syncs, the network and the server's `client_ref` check |
| `AccountProofs` | theorems about the queue, the sessions and the administration |

An MC module holds the instance of a run. Four of them host several modules that
do not interact (`MCOfflineQueue`, `MCIntakeDesk`, `MCScreens`, `MCInfrastructure`): a
variable `focus` is chosen at the start and a behaviour is about one of them.
`MCInfrastructure` and `MCWorkOrder` use `focus` to give two parts of one module bounds of
their own, too: imports alone and beside lookups, the assignment book and the reviews.

Conventions. An action is one handler or, where the handler awaits something and
others may commit, the part between two such points. An early return or an HTTP
error changes nothing and is a stuttering step unless something waits for it.
Variables marked *history* exist for the properties only. Every module states its
type invariant; where it is proved it is a theorem, elsewhere it was checked while the
module was written and no run repeats it.

### WorkOrder

One action is one handler, or one transaction of a handler that commits more than
once. The replay of a `client_ref` that was already recorded is a stuttering step here
and `OfflineQueue`'s subject.

| Variable | Code |
|---|---|
| `complaint[c]` | `complaints.status` |
| `order[o]` | the `work_orders` row: complaint, status, `worker_id`, `recommended_worker_id`, and whether `accepted_at`, `completed_at`, `evidence_submitted_at` are set; `None` before the draft |
| `assignments[o]` | `worker_assignments` by `assigned_at` |
| `checkIns[o]` | EN_ROUTE and ARRIVED activities |
| `photo[o]` | newest photo per category |
| `round[o]`, `reworkAt[o]` | time: evidence rejections so far, and the round of the latest REWORK_REQUESTED entry |
| `runs`, `running`, `verdict` | verification runs, those under way, the row `_latest_verification` reads |
| `confirming[o]` | confirmations between `_confirm_resolution`'s commit and the review's: the officer and the ticket of the row |
| `onDuty` | workers whose profile is ACTIVE |

The code compares timestamps; the model keeps of time only what those comparisons
tell apart, which is the evidence round an activity or a photo falls in. A run's
ticket is its place in the order of `created_at`, which Postgres takes at the start
of the analysis transaction; a run that answers late therefore does not become
the latest (`IsLatest`). What a run answers is any member of `AiVerdicts`. Of a verdict the
row keeps its status, whether it was reviewed (`reviewed_at`) and by whom (`by`), which
`review_note` goes with; the second commit of a confirmation writes these two whatever the
row says by then (`RecordReview`), and not the status, which the first has flushed.
`Capacity` is one ceiling for all workers (`DISPATCH_MAX_ACTIVE_ORDERS`); the
per-worker column is `Dispatch`'s subject. One handler is one step: two handlers that
interleave between their reads and their commits are not in this module (section 6).

### Screens

`did`, `stamp` and `reviewedAt` are what `worker-workflow.ts` reads beside
`WorkOrder`'s state: START_WORK, START_REWORK and FINISH_WORK activities, the time
stamps by round, and `reviewed_at`. `page[w]` is the page worker `w` has open,
`card[o]` what the officer's cards last showed; both keep what they loaded until
they are refreshed, and a tap is the server's handler on the state of now. A refused
tap is a refresh. `Takes` and `Grants`, in which the properties are stated, are the guards of the
handlers a step and a decision are sent to; on the instance of the run they agree with ENABLED
of those handlers. `disturbed` (history) holds the orders reassigned in mid-work
or excused with a follow-up; section 7 says what happens to those. The detail and the
verification are fetched in one step. There is one order, so no newer draft.

### VerifyRepairAgent

`node[r]` is where the handler of run `r` is: the nodes of the LangGraph, `call` while it
awaits the model, `respond` and `alert` after the verdict's commit, `gone` when the
handler raised or the process died. `state[r]` is the `VerifyState`; `row[r]` the status of
the `agent_runs` row, where FAILED with the sweep's message is told apart as REAPED;
`verdict[r]` the `work_order_verifications` row; `answer[r]` records the model's last
well-formed output, so that properties can compare what was stored with what was
said. `shown[r]` is the row `run_verification` reads back, which may be another
run's, and `alerted` the rows staff were told to review.

Confidence is a level, since the gates only compare it with two thresholds. The
trace events, the texts and `issue_fixed` (which no gate reads) are left out. Which
fatal error it was only words the response. Runs are numbered by the start of the
analysis transaction, as in `WorkOrder`. The sweep is two steps, the select and the write;
it may pick a run that is alive, because the client under the graph repeats
requests (the SDK's retries inside those of `_run_with_retry`) and two attempts can
outlast its five minutes. `_persist_node` then writes over what the sweep wrote, because its
session still holds the row as RUNNING. Reviews are `WorkOrder`'s subject: here nobody
clears `human_review_required`.

### Intelligence

One complaint. `runs` are the `agent_runs` rows of its four agents in the order of
insertion, `history` the run of each `complaint_priority_history` entry, `req[r]` a
request with its program counter, the complaint as it loaded it and the runs a sweep
selected; `sweeping` the rows a poll's sweep selected. `started_at` is the start of the
inserting transaction (`begun`), `ended_at` the moment the outcome was written
(`ended`); starts are compared with starts and ends with ends only, so each has a
counter. `cutoff` is how far rows have aged past `stale_seconds`. The view starts context
and priority where they are missing or stale, triage and vision are asked for by hand
and write the complaint in a later commit than their row. `settled` is history. A
row that ages while its run is alive counts as a fault, since it takes a run of more
than five minutes.

### SlaMonitor

`orders` has of an order its status, hours, deadline and approval; `desk` is the open
approve or assign and what it read; `rules[s]` the hours of the active rule of a scope;
`scan[r]` what a scan has in hand, the deadlines it filled in and the rows its flush
locked; `runs[r]` its committed row with the report the next scan compares with;
`alerts` the committed alerts. A scan is: begin and read the orders; flush the
deadlines it filled in; escalate, comparing with the latest committed run and queueing
alerts; one commit. The graph may raise and is then run once more with what is queued.
At-risk is one percentage; a department stands for the three dimensions of a rule.

### PriorityRulebook and PriorityEngine

Pure operators over what `priority_data_service` collects: six components, the
amplifiers, readiness and the bucket, in thousandths, cut after each product;
exponentials are a series of four terms. `context` then changes as it does between two
priority runs, in one thing at a time, and `score` follows. The words by which a
description names a facility are a parameter (`Named`), the floors of category OTHER and
the explanations are left out. `WeightAssumption` says that the rounded maxima of severity's
five parts fit into its weight, as they do for the default 25 and not for 30
(section 7).

### FacilityRegistry and NearbyPlaces

`registry[k]` is the `critical_locations` row of a source id, `imports[i]` the handler of
an import (the buckets to do, to retry, failed, the one in hand and what the select
before its upsert saw), `assets` the active rows of the fleet. `lookups[l]` is a
lookup of one spot and radius: per category its limit and its answer or the race of the
mirrors in progress; `live` and `answer` are the two Redis caches, whose keys have no limit
in them, `sky` the cached weather. The registry's rows are cut at the limit by distance
(`Nearest`), a mirror's in an order of its own and before they are sorted (`FirstFew`).
`nearby_status` is about `Poi`, every category but ROAD; `search_status` about all of them.

### ForecastModels

`fleet` and `history` are what the gates count, `models[k]` the rows of a kind by
version, `artifacts` the files, `jobs[j]` a request. A training fits, computes the next
version, writes the file of that version, deactivates the rows that are active, which
locks them, and inserts its own; a serving request looks the active row up, then loads the
file. The fit is one step, and a bundle is named after the history it was fit on; the
infrastructure corpus is always the same. A stored forecast that is refused for its
compressed history is a nondeterministic choice.

### NotificationBadge

Counts instead of rows: `produced`, `pending` in open transactions, `unread`. `syncs`
are publish tasks, `channel` a sync waiting in the subscription, `frames` the snapshots
on the connection in order, `answers` HTTP counts under way in any order, `posts` the clicks
that have not reached the server, `badge` what is shown.

### RoutingEngine and Dispatch

`routed` is the newest routing decision, `overrides` the override rows and `overriding`
the override requests that have read and not committed; `roster`, `active` and `jobs`
the workers; `request[r]` a dispatch between its awaits; `drafts` the orders written.
Criteria are in thousandths, the score has four decimals. Confidence, arrival
estimates and notifications are left out. `DISPATCH_ENABLED=false` is a branch no
endpoint reaches.

### Correlation

`embedded` are the complaints with a committed embedding, `links` the
`complaint_correlations` rows, `status` the shared column, `request[r]` a run with what
it saw, `deciding[d]` an officer's request with the row it has written and so keeps
locked. Both pools of 25 hold every complaint. The exponential is a series of
five terms.

### Sessions

A pair of tokens is a number. `valid` are the refresh tokens not revoked, `fresh` the
pairs whose access token has not expired, `chain[p]` the login pair `p` descends from;
`stored` is localStorage, shared by the tabs, `access[t]` the memory of a tab,
`refresh[t]` the request behind `refreshPromise`, `orphan` a refresh whose tab is
gone, `fetches` calls of `authorizedFetch`, `leaving` the logout. A login is one step.

### Conversations and ReportWizard

`sends` and `uploads`, `transfers`, `lookups`, `fixes` and `submits` are requests in
flight, each with whether something still waits for it (`awaited`, `current`, `alive`):
what a late answer does to a form that has moved on is the point of both modules.
`pane[u]` is the message pane, `form` the wizard's state, `items` the uploader's tiles;
`files` and `media` the attachment rows. In `Conversations` the body is always there
and an abandoned mark-read is served before its pane leaves; in `ReportWizard`
category and description are reduced to "long enough", and filing is one commit. `WardAt`
gives each place one ward: the boundaries that `find_ward` and `_geographic_ward` pick
from do not overlap in the seeded city, and nothing is claimed of a city where they do.

### Administration

A request is authorized and reads (`jobs`), and commits the columns it changed
(`CommitEdit`). `account[u]` is the user with its profiles, `state[e]` whether a role, ward,
department, category, weight or setting exists and is active. `overlapped`, `duel` and
`revived` are history: that requests overlapped, that two which deprived somebody did,
and the accounts that were enabled again. Names, passwords, profile texts and the audit
rows (same commit) are left out.

### OfflineQueue

A run `r` is one call of `processQueue`; `rest[r]` is what is left of the snapshot it
read; `call[r]` the request it awaits. Requests stay in `calls` after the client has
given them up, since the server may answer them later. `recorded[a]` counts
activity rows with the `client_ref` of `a`; `saved` is what the worker was told is
saved. The layout and the order page both call `processQueue` on the same `online`
event, on mount and after a tap, and nothing keeps the calls apart: how many overlap is
the size of `Runs`. The worker may tap at any time, beside a run too, and a photo that does
not fit makes the write leave out all photos (`Written`). Three variables are history:
`blind[r]` is what was saved since `r` took its snapshot, `erased` what a write took
from the queue without having sent it, `raced` the actions two copies of which looked for
a replay before either was recorded. The properties of the run `queue` say that the code
fails its promises in those cases only; the promises themselves are `AppliedOnce` and
`KeptUntilAnswered`, and fail.

## 3. Runs

| Run | Instance | Shows |
|---|---|---|
| `workorder` | 1 order, 2 workers, 3 assignment rows; or 1 order, 1 worker, 2 officers, 2 assignments, 2 analyses, 2 rejections | nothing before approval; holder and book agree; certifications stand; what a review decided is final; rework is never stuck; RESOLVED is backed; `WorkOrder` implements `Resolution` |
| `screens` | 1 order, 2 workers with a page each, 3 assignment rows, 2 rounds, 2 analyses; or 2 complaints of a citizen and a representative of one, 2 messages, 1 file, 2 sends; or a wizard with 2 places and 2 wards, one disabled | the holder is always offered a step the server takes; the officer is offered the decision that is due; messages keep their attachments; what was reviewed is filed |
| `verify` | 2 runs of one order, 3 answers, 2 attempts, 1 repeated request | no verdict slips past a gate; rows tell their outcome; the latest verdict is announced; runs end |
| `pipeline` | 4 requests, the last two alone, 5 rows, 1 fault, 2 severities | views settle; the score follows the severity; status and severity are earned; runs end |
| `sla` | 1 order, 2 rules' scopes, 3 scans, the third alone, 2 filters, 2 events, 2 hours | alerts are not repeated without a reason and not missed |
| `intake` | 3 complaints, 3 correlation runs, 3 decisions; or one complaint with 3 categories, 2 facilities, 5 distances, 5 skies, 4 surroundings | confirmed duplicates are backed, decisions stand, neighbours meet; worse never scores lower |
| `infrastructure` | 2 overlapping buckets, 2 imports, 1 backfill round, 2 file rows; or 1 import and 2 lookups one after the other, 2 mirrors, room for 1 road of 2; or 2 training or serving requests, histories up to 2, 2 versions of each kind | what an import does not count as failed is there; absence was checked; verified facilities are named up to the limit; exactly the newest model serves; a forecast comes from the bundle its version describes |
| `badge` | 2 notifications, 2 clicks, 2 frames | the badge ends at the unread count and stays |
| `dispatch` | 2 workers in 4 rosters, 3 complaints, 1 dispatch, 1 ruling, 1 draft | the best worker is on top, has room, and the officer's department binds |
| `queue` | 3 actions, 2 of them photos, room for 1, 2 overlapping runs, 3 requests; or 2 tabs, 2 requests, 3 pairs of tokens, 1 trouble; or 2 accounts, 4 roles, 2 requests at a time, 5 edits | nothing is reordered, nothing repeated that did not race, nothing lost that was not overwritten unseen or squeezed out; expiry throws nobody out and a logout ends the login; somebody can always administer |
| `replay` | 2 actions, 2 overlapping runs, 3 requests | a violation: an action is applied twice, which `offline-queue.ts:9` rules out |
| `overwrite` | 2 actions, 1 run, 3 requests | a violation: a saved action is erased by the run beside it, unsent, though `offline-queue.ts:6` promises that it is flushed |

Why the bounds are enough for what is asked.

- `workorder`, the book: three assignment rows are the shortest book in which a REASSIGNED
  row lies between two ASSIGNED ones, and two workers are enough to hold, lose and regain a job.
- `workorder`, the reviews, and `screens`: two analyses and two rejections let an analysis
  overlap another, answer after it, and be reviewed before and after; the second rejection is
  the one that meets the traces of the first. Two officers are what it takes for one to turn a
  verdict down between the two commits of the other's confirmation. Two orders of one complaint, which it takes for
  one to reopen what the other resolved, are beyond the run and covered by the theorem
  `ResolvedComplaintsAreBacked`. In `screens` the verdict is always NOT_RESOLVED, since the
  cards ask only whether it was reviewed. One file and two sends are what an overlap
  takes; only the citizen attaches, and the representative's requests come one at a time.
  The wizard is either about photos (one place, two reports, so that an upload can land in
  the second) or about pins (two places with two lookups under way and one position).
- `verify`: the answers lie on each side of every gate: VERIFIED above and below its
  floor, and one below the low threshold that the model itself wants reviewed; two runs
  are what it takes for one to read the other's row.
- `pipeline`: two requests that overlap in every way, then two views one after another,
  the second of which must find what the first left settled. A fault is an exception, a
  crash or a row that ages alive.
- `sla`: two scans overlap and the third judges what they left, filtered or not. The rules
  are the general one and the department's; an event is an edit of either, a change of
  staff, a change of the order, or a fault.
- `intake`: with two neighbours and a far complaint in the same words each way of
  finding a candidate happens alone; three runs let one start between another's search
  and its commit and a third repeat one. The distances lie in every band of the tiers, and the
  surroundings range from none to saturated.
- `infrastructure`, the registry: two roads that answer to both buckets, at different
  distances, only one of which the limit lets through as a road, and a bridge out of range; two
  imports that meet in the same row. Lookups share nothing but caches and Redis, so one
  after the other is enough, with an import in any place between their steps.
- `infrastructure`, the forecasts: two requests compute the same version; a version on top of another
  is what deactivation needs.
- `badge`: two rows and two clicks let a click meet a snapshot of before it and of after it.
- `dispatch`: the rosters pair an expert with a remote worker, two equals at different
  distances, a sweeper without a ceiling of his own with one who has no address, and a
  worker without a crew.
- `queue`: two runs overlap in every way, and with three requests an action is sent by both,
  or twice by one, before or after another that was tapped beside them; a third run may begin when
  one is over. Two photos with room for one squeeze each other out. In `replay` and `overwrite`
  no more is left than the disagreement takes. Three pairs are a login and two rotations, or two logins and one.
  CITIZEN is the role, and a ward, a department, a category, a weight and a setting are the
  entities, that are not there at first and may be created on the way; five edits are
  enough to disable a role, re-enable its holder and try to remove the last
  administrator.

Interchangeable workers, requests, tabs and imports are reduced by symmetry in runs
that check no liveness; their properties tell none of them apart. What these bounds leave out of
`WorkOrder`, of `VerifyRepairAgent`'s safety, and of the registry, the forecasts and the
breaches is covered by the proofs, which have no bound.

Deadlock. `workorder`, `badge` and `dispatch` check it. The instances of the others may
come to an end: every requested run is over, everything was saved and answered, or a bound
on requests was reached; they say so in their configuration.

Fairness and liveness.

- `VerifyRepairAgent` assumes weak fairness of each run's own steps: the event loop
  resumes a handler, and every wait in it is bounded, the provider client by its timeout and
  its backoff by a cap. Nothing is assumed of requests, crashes and sweeps. Under it a run
  ends or is lost (`RunsEnd`). That the row of a lost run is swept is not claimed there: the
  sweep runs when somebody opens the complaint.
- `Intelligence` assumes weak fairness of the requests' steps, of the poll's sweep for each
  agent and its write, and of the ageing of a row: the officer's page polls, and time
  passes. Under it no row stays RUNNING (`RunsEnd`), whatever was lost.
- `NotificationBadge` assumes weak fairness of the page's interval timer (`SyncUnread`), and
  strong fairness of `Answer(c)`, that is, not every poll fails. The socket is assumed
  nothing. Under it the badge settles.

No other module assumes fairness or claims liveness. A work order moves when an
officer or a worker acts, and nothing in the code makes them. The queue has no
timer either: a sync starts when the device comes online, a page mounts or the worker
taps, and an action that fails for ever keeps what follows it waiting. "Must
eventually be sent" is not something this code promises.

## 4. What is proved

All for any sets of complaints, orders, workers, runs, buckets, requests, tabs, accounts
and actions and any bounds, from the assumptions named in the modules: the bounds are
naturals, the agent's verdicts and the analysed statuses are values of their enums,
`None` is none of the other values, thresholds are levels, and answers are well-formed.
A theorem that assumes more says so in its statement.

- `WorkOrderProofs`, types. `TypeOK` is not inductive: a review dereferences the order of
  the verdict it finds, so a verdict without an order would break it. `Grounded` adds
  that nothing exists on an unapproved or refused order and that a confirmation
  under way has a verdict. That in turn needs start_job, which does not look for an
  approval, to be stopped by its check-in gate. `GroundedAlways`, `TypeCorrect`,
  `ApprovalComesFirst`.
- The assignment book. `Book` adds for each order that a draft's holder is its
  recommendation (why approval may write AI_RECOMMENDATION without looking), that every
  row's origin is the one its worker deserves, that all rows but the last are not
  ASSIGNED, and that the last is active and the holder's. Most of it is about
  `Supersede` and `Append` keeping these facts. `OriginsAreHonest`,
  `HoldersAreOnRecord`, `AssignedRowIsUnique`.
- Reviews. `Reviews` adds that an order that was submitted or
  analysed has a holder and photos, and that a confirmation between its commits
  concerns the latest verdict or an older one, which if unreviewed reads VERIFIED.
  Without this the second commit could stamp a turned-down verdict as reviewed on
  a COMPLETED order. `ReviewsAreFinal` is about what was decided: the verdict's status and that
  it was reviewed. Who signed it may change by one step only, the second commit of a
  confirmation of the same row. `CertificationsStand`, `ReworkIsNeverStuck`, and the action
  properties `ReviewsAreFinal`, `CertificationsAreUndoneByReview`.
- The refinement. Every step maps to a step of `Resolution` or a stutter
  (`HandlersKeepThePromise`). `Resolution`'s own invariant `Backed` is shown inductive
  on the abstract steps and pulled back through the mapping:
  `ResolvedComplaintsAreBacked`.
- The screens. What people do through pages and cards is what `WorkOrder`'s handlers do
  (`ScreensAreWorkOrders`), so all of the above holds of `ScreenSpec`. `ScreenInv` relates the
  records the page reads to the status the server decides by: of an order nobody disturbed
  either nothing was done and nothing came of it (`Pristine`), or the page's `Started`, `Finished`
  and `CheckedIn` say what the status says (`Worked`); records are of rounds there have been, so
  that a rework request, which opens a new one, makes them count no more; and a page, however
  old, knows of no review of the round that is being worked in (`Fits`). That last part has to
  say where a review may be known from: it is fetched at EVIDENCE_SUBMITTED and COMPLETED
  only, from which an order comes back into a worker's hands by a rework request alone.
  `ScreensAreSound`, `StepsAreAccepted`, `DecisionsAreOffered`.
- `VerifyRepairAgentProofs`. `IInv` says for every node what the state holds: an output
  that reaches the gates is the model's last answer or the pixel guard's, one that
  leaves them is `Sound`; the row, the verdict and the node agree; and a run that is over
  without having announced its verdict has been overtaken by a later one. That last
  part makes `DoubtIsAnnounced` inductive although a run announces what it read a commit
  ago. One lemma per group of actions, and `OthersKeep` for the runs a step leaves
  alone. No order between the two thresholds is assumed, as the settings impose none.
  `UnchangedNeverPasses` and `DoubtsAreReviewed` are theorems only.
- `IntelligenceProofs`. `PipelineInv` ties rows to requests and to time: each row belongs to
  one request, which is at the step that writes it; a view that met nobody opened the last
  transaction, so whatever it is about to score ended after everything upstream; and a score
  that met no triage has the severity the complaint had at its end, and what changed the
  severity since is a triage that ends later. With that `StatusIsEarned`, `SettledStays` and
  `ScoreReflectsSeverity`, for any number of requests, exceptions, crashes and sweeps.
- `SlaMonitorProofs`. Deadlines: an approval is stamped once, hours and deadline are first
  written together, and the copies of scans and of the officer's desk agree with the row on
  the approval and, until there is a deadline, on the drafted hours (`CopiesAgree`), so
  `DeadlinesAreSound` over scans that fill in the same deadline at once. Breaches: a scan either queues an
  alert or compared with a run whose own alert is committed, so by the order of the
  commits no report of a breach is without one (`BreachesAreAnnounced`). That there is
  a latest run among finitely many is carried as part of the invariant (`HasNewest`).
  Repetition: every alert was compared with the newest run its scan knew, the report of a
  run that succeeded is never rewritten, and an attempt raises one alert for an order
  (`RInv`), so `AlertsAreNotRepeated`.
- `InfrastructureProofs`, the registry. `BooksAreKept`: a bucket an import has not committed is on one of
  its lists (to do, to retry, failed, or in hand), whichever other import touched its rows,
  and a verified facility stays verified; with that `CoverageReported`. Lookups: what a
  lookup counted or had in range still is, since the verified rows only grow, what it took
  from the registry is all of that or as many as its limit, none farther than what was left
  out, and every answer in a cache is cut from one a mirror gave (`LookupsAreSound`); so
  `AbsencesAreChecked`, for every category where a lookup speaks of one and for `Poi` where it
  says "empty", and `VerifiedPlacesAreNamed`, for any limits and distances. Forecasts. `ModelsAreOrdered`: whoever may still insert the next version
  has every active row among those it deactivates, because its UPDATE saw them or waited
  for them; and the file of a version matches its row, or two trainings wrote it
  (`contested`). With that `NewestServes` and `ForecastsTraced`.
- `DispatchProofs`. `DispatchInv` says what a request carries from the moment it read the case
  and ranked the crew: `RecommendationsHaveRoom`, `RulingsBind`. `NobodyOutdoesTheBest` needs
  that a finite crew has a maximum in the order of the ranking. Induction
  theorems take an operator as a parameter, which no installed prover instantiates; the
  well-foundedness of strict inclusion of finite sets and of < on the naturals, and
  minima under a well-founded relation, are stated with sets, so the induction is done by
  way of a minimal counterexample (`WFMin`). `BestIsOnTop` compares workers that differ by more
  than a thousandth: the score is rounded to four decimals before it is sorted.
- `ReportProofs`. `WizardInv`: a ward shown as detected is that of the place, whatever lookups
  and positions are to come; `ReportsAreFiledAsReviewed`. `ThreadInv`: a send that read its
  attachments is entitled to them still when it commits, unless two such sends overlapped;
  `AttachmentsAreKept`. `CorrelationInv`: what runs and decisions under way are about, who
  holds a link, and which confirmed link backs a status; `DuplicatesAreConfirmed`,
  and the action property `DecisionsAreKept`. `NeighboursAreLinked` assumes `RoomForAll`, that
  there are no more complaints than candidates the agent keeps, plus one: beyond
  that the agent drops the lowest scored on purpose.
- `AccountProofs`, sessions. `SessionInv`: while nothing but its own refreshes touched a login it has
  one valid pair and one refresh under way, a logout that met no refresh revokes the only
  valid pair of its login, and nobody holds a token of a login that is over;
  `LogoutsAreFinal`, `ExpiryThrowsNobodyOut`. Administration. `AdminInv`: a request that deprives an
  account leaves another super administrator, and a request that met no other knows its row
  as it is; `SomebodyCanAdminister`.
- `AccountProofs`, the queue, for any number of overlapping runs, taps at any time, a server slower
  than the client's patience and any room for photos. `KeptInv` is that the stored queue holds all
  that was saved and is neither answered nor erased, a run's snapshot all of that but what was
  saved behind its back (`Sound(queue, {})`, `Sound(rest[r], blind[r])`), both in an order in
  which nothing comes before what it has to wait for (`Ordered`), and that whatever was sent was
  due. It is inductive because a run knows all that is owed but `blind[r]`: a run that writes
  back what another has sent meanwhile only sends it again, and one that empties the queue loses
  what is in `blind[r]` alone, which is `erased` then. `QueueIsSound`, `NothingSavedIsForgotten`,
  `StepsAreSentInOrder`. `OnceInv` is that of an action whose copies never met one copy at most
  has passed the select, and only while nothing is recorded; `ReplaysAreAppliedOnce`. What the two
  excuses stand for is real and shown by the runs `overwrite` and `replay` (section 7).

Only model-checked: both `RunsEnd` and `BadgeSettles` (liveness), and `WorseNeverScoresLower` of
`PriorityEngine`, whose sums over the facilities in range are folds, defined by recursion
over a set with an operator as parameter. Both kinds are beyond the prover: the induction in
terms of sets used for the ranking has no definition of a fold to unfold.

## 5. What is left out, and why

- Data no property tells apart: text, notes, photo contents, scores (of confidence,
  only its level), ETA, wording of notifications, audit rows, trace events.
- `save_notes` writes text only. History rows, except that the latest REWORK_REQUESTED one
  is `reworkAt`.
- In `OfflineQueue`: the token refresh inside `authorizedFetch` (`Sessions` has it), the
  3 MB photo limit, and failures of localStorage other than the quota.
- In `Sessions`: password rules, registration, reset tokens, the profile. Two tabs or a
  reload during a refresh excuse `NobodyIsThrownOut`, which then fails (section 7).
- In `Administration`: `RolesStaySound` looks away where requests overlapped, where an account
  was enabled again, and at citizens, whose registration does not ask whether
  the role is enabled (section 7).
- In `Conversations`: the drafted reply and the collision of two mark-reads. In
  `ReportWizard`: two submissions that share media and commit at the same time.
- In `SlaMonitor`: two rules of one scope. In `Correlation`: the media of a complaint.
- `PROJECT.json` lists the components that no module covers, with the reason: ratings,
  governance and audit rows, the assistant, analytics, storage and middleware.

## 6. Plan

Done: the work order with its refinement and proofs, the screens around it, the
verification agent, the queue, the SLA monitor, the intelligence pipeline, the score,
the registry and lookups, forecasts, the badge, dispatch, correlation, sessions,
conversations, the wizard and administration. Left, in order of weight:

1. Bounds of the components of `PriorityEngine`.
2. `WorkOrderRace`: the handlers of `WorkOrder` split into the read and the commit, under
   READ COMMITTED and an UPDATE of dirty columns only; which of its invariants
   survive two handlers at once.
3. Reviews of predictions and preventive orders, beside `ForecastModels`.
4. The provider client with its two layers of retries; the rate limiter's window at
   its limit; ratings; the assistant and analytics as reads over the other modules.

## 7. Met while modelling

Places where the code departs from what its own text says, or where an order of legal
calls does something nobody seems to have meant. They were read off the code while its
actions were written, some met as counterexamples of stronger properties that were given up;
the first two of the offline queue have runs of their own. The properties of section 3 are stated around them: an excuse
in a property refers to one of these.

Work orders and workers

- `_supersede_active_assignment` (`work_order_service.py:597`) releases only ASSIGNED rows, so a
  holder whose row is REASSIGNED stays active after losing the order, though
  `models/enums.py:199` says "UNASSIGNED when the previous holder loses the order".
- submit_evidence (`field_worker_service.py:824`) accepts photos of any round, though `:869`
  says "the old evidence cannot simply be re-submitted".
- start_job asks for a check-in of the order, so one by an earlier holder counts, and a
  returned job that is assigned again is started on the check-in of the first round.
- confirm has no gate on the order's status; that a certification still rests on
  evidence (`CertifiedStands`) is due to when an analysis may be requested.
- The second commit of a confirmation writes `human_review_required`, `reviewed_by`,
  `reviewed_at` and `review_note` without reading the row again
  (`verify_repair_service.py:699`). If another officer turned the verdict down between the two
  commits, the row keeps his decision under the name and the note of the officer who confirmed,
  though `:623` says "This verification has already been reviewed." `ReviewIsFinal` is
  therefore about the decision and lets the signature change.
- accept_job stamps the ASSIGNED row, so an acceptance after a reassignment is not
  recorded on the active row.
- A crash between the commit of a verdict and the alert leaves a verdict that needs
  review and that nobody was told of. A run the sweep marks FAILED may be alive, and
  then reads SUCCEEDED or has a verdict under a FAILED row.

Worker's page and officer's cards (`disturbed` in `Screens`)

- After REQUIRES_FOLLOWUP the old FINISH_WORK activity makes the page show the work as finished: it
  offers "Submit Evidence", which the server refuses, and never "Finish", so the worker is
  stuck, though `verify_repair_service.py:600` says it "reopens the work order so the field
  worker can return".
- Reassigning a started job strands the new holder: the page offers finish and submit while
  the order is ASSIGNED. Pages of ESCALATED, PENDING and REJECTED orders offer
  steps the server refuses.
- After a re-submission the review that asked for the rework makes the page say
  "verified and closed".
- The card offers Reject for ASSIGNED and IN_PROGRESS orders, which the server refuses, and no
  reassignment for ESCALATED and IN_PROGRESS ones. With a newer draft the review card shows the
  draft and hides the order with the evidence. A start without an accept, through the
  API, leaves a page that offers an accept which is ignored.
- `_job_out` counts photos that are not `allowed`; submit_evidence counts allowed ones only.

Offline queue

- The `client_ref` check is a select before an insert without a unique index, and the app runs
  `processQueue` twice on one online event: both copies are recorded, though
  `offline-queue.ts:9` says "the same action is never applied twice" (run `replay`; `raced`).
- `processQueue` (`:263`, also `:234` and `:255`) writes back the rest of its snapshot, which
  erases an action enqueued meanwhile, though `:6` promises that it is "persisted in localStorage
  and flushed in order" and `:73` rules out "success for something that is not actually queued"
  (run `overwrite`; `erased`). What follows it is then sent without it.
- A photo that does not fit is not reported as saved, but squeezes out all photos that were
  (`:82`), though the comment says "drop oldest photo entry" (`:80`).

Routing and dispatch

- When the top candidate is busy the draft says "every candidate is currently busy", though a
  lower-ranked one is free. Approval checks neither ACTIVE nor load, and several drafts may
  recommend one worker. A draft can therefore go to a full worker while another is free.
- `_postgis_distances` turns NULL into a float: with one ACTIVE worker without home
  coordinates the dispatch of every located complaint raises, and its run row stays RUNNING. On
  PostgreSQL a failed query aborts the transaction, so the haversine fallback never works.
- `max_active_orders or default` makes a ceiling of 0 mean the default. An order without
  coordinates is ranked from (0, 0). Workers without a crew department are dropped.
- `old_department` is stale when two overrides overlap, and `overridden_at` is the start of the
  transaction, so the last committed override may not be the one in effect.

Correlation

- Rejecting a link writes the source's status, also NEW_INCIDENT to POSSIBLE_DUPLICATE, though
  the docstring says it leaves it alone. A rerun deletes PENDING candidates, resets the status
  after a confirmation and proposes rejected targets again.
- An exception in `_upsert_embedding` leaves the run RUNNING, though the module's docstring promises
  FAILED.
- A semantic hit beyond 500 m, whose distance is unknown and whose weights are renormalised,
  may score higher than one 400 m away. Two overlapping runs of distant duplicates miss each
  other. Of two concurrent decisions about one link the later overwrites the earlier.

Intake

- A late position, or its failure, overrides a pin set by hand, even on the review step, so
  that a complaint is filed without a location though `next` says "Add your location"
  (`report-wizard.tsx:140`).
- `resetAll` does not advance `lookupSeq`: an old detection fills the new form's ward, though
  the comment says "never a fabricated ward" (`:94`). `find_ward` does not leave out disabled
  wards and `_geographic_ward` does, so the review shows a ward the complaint does not get.
- A photo removed while it uploads is still added; an upload answered after the submission lands in
  the next report; a remount hides photos and lets `MAX_IMAGES` be passed.
- A retry after a lost answer files a second complaint without the photos. Two creations with
  one media id move it to the later one. The ward alert goes to the representatives of the
  citizen's ward and not of the complaint's.

Intelligence and agent runs

- "Always reflects the newest validated upstream signal" does not hold when a triage overlaps
  the scoring, when the severity is committed after the run's SUCCEEDED, or when a later
  FAILED triage hides an earlier SUCCEEDED one. `ScoreReflectsSeverity` says when it does.
- Running triage or vision again on a complaint in work moves its status back. Vision's
  governance row is flushed and never committed. `create_run` says "Create and commit" and
  only flushes. `_latest_output` of routing reads the results of rows the sweep marked
  FAILED.

SLA

- `escalate_on_breach` is never read. "The clock always starts at approval", but a scan over a
  draft fills in a deadline from its creation.
- "Repeat runs never spam" is broken by filtered runs, by overlapping runs and by the
  retry, which repeats what the first attempt queued; a run whose retry leaves an order
  out still commits the first attempt's alert. A transition while no staff is active is
  never announced. An order that returns from COMPLETED at risk is not escalated.
- `_apply_sla_deadline` returns when no rule matches even where hours are set and the
  deadline is missing. The duplicate check of rules is a select before an insert
  (`sla_policy_service.py:172`), and a rule is committed before its audit row.

Priority engine

- Evidence takes vision's confidence even where triage's is higher, though the docstring says
  "strongest". FLOODING_RISK needs no rain figure. Safety, accessibility and critical units and
  EMERGENCY_ACCESS accept PENDING facilities, though the docstrings say VERIFIED.
- Naming a verified emergency facility farther than a nearer one lowers the score
  (`TargetSwitches` excuses it). A missing probability counts as full trust. A position
  of unknown accuracy scores below one of a metre and above many. Severity weight 30
  makes its sub-maxima sum to 31. A facility without a distance raises a TypeError.

Registry and lookups

- find_nearby caches every answer, failures included, for the full time, though its docstring says
  they are not cached (`AbsenceIsChecked` holds since such an answer still reads as a failure).
- Importing a file again raises on its unlocated rows. Of two imports that insert the same
  row the second raises 500, though a failure should "never fail the whole sync". A
  known row's category is never updated. Positional ids shift when rows move. Assets are
  matched without their source and never deactivated.
- When geo_lookup raises, the context stores "available" with no facility. The Overpass cache
  key leaves out the limit, and the limit cuts before sorting by distance. `nearby_status`
  leaves roads out, so "empty" may be said beside a road, or while the roads are unknown.

Forecasts

- Overlapping trainings compute one version and write one file. The loser raises, and its
  artifact stays behind the winner's row (`contested`). The file is not written atomically.
- Opening the infrastructure page trains, raises if the gate closes meanwhile, and stores new
  PENDING predictions every time. A prediction may get several preventive orders.

Sessions

- A logout during a refresh is undone by the answer. A refresh whose answer is lost leaves a
  token no logout revokes and throws the user out, as does a second tab that loses the race, which
  clears the winner's token. Any network failure during a refresh clears the session.
- The web logout sends no Authorization header, so the access token is never blacklisted;
  without Redis nothing is. A refresh that overlaps a password reset outlives it.

Notifications and conversations

- `ws/notifications.py:41` promises a periodic refresh, which its timeout does not send. The outer
  and inner timeouts are equal, so readers are leaked that may swallow a sync.
- Of two sends with one attachment the later takes it from the earlier (`lapped`). The answer of a
  send is shown in whichever thread is open, so a reply can be written under A and posted to
  B; an upload answered after a switch is staged in the other thread. Mark-read marks messages that
  arrived after the thread was fetched. A retry after a lost answer posts twice.
- FIELD_WORKER is admitted to the messages page and denied by the API.

Administration

- Two administrators who demote or disable each other at once leave none (`duel`).
- A role that is disabled regains holders by re-enabling an account and by registering, though
  `models/role.py:12` says it "can no longer be assigned". "A SUPER_ADMIN account cannot be
  disabled", but it can while it is being promoted.
- update_user changes `role_id` and reads the old role, so a promotion to field worker or
  representative creates no profile. A representative's new ward is not the one that access
  and alerts look at. Clearing the ward of one without a profile raises.
- A setting's override is read by the panel alone and changes nothing in the program.
