---------------------------- MODULE ForecastModels ----------------------------
(***************************************************************************)
(* The two forecasts, of complaint hotspots and of failing infrastructure: *)
(* the gates in front of them, training, the tables of trained models with *)
(* the artifact files beside them, and live inference.  A training fits in *)
(* a thread, takes the next version, writes the file of that version,      *)
(* deactivates the active rows and commits its own; several may be under   *)
(* way, be killed, or find their version taken.  Opening the               *)
(* infrastructure page trains when there is no model.                      *)
(***************************************************************************)
EXTENDS Naturals, Sequences

CONSTANTS
  Jobs,         \* bound: requests under way at once
  MinAssets,    \* INFRA_MIN_ASSETS: the fleet grows to it, and that is all the gate sees
  MinHistory,   \* the least history that trains or serves a model
  MaxHistory,   \* bound
  MaxVersion    \* bound: models of a kind

ASSUME ForecastAssumption ==
  MinAssets \in Nat /\ MinHistory \in Nat /\ MaxHistory \in Nat /\ MaxVersion \in Nat

VARIABLES
  fleet,      \* active assets in the registry
  history,    \* complaints that count, for either gate
  models,     \* predictive_models, infrastructure_models: the rows by version
  artifacts,  \* the files in the artifact directories
  jobs,       \* what each request has in hand
  contested   \* history: versions two trainings wrote the file of

evidence == <<fleet, history>>
vars == <<evidence, models, artifacts, jobs, contested>>

Kinds == {"hotspot", "infra"}
Bundles == 0..MaxHistory  \* a bundle is named after the history it was fit on
Model == [bundle : Bundles, active : BOOLEAN]
File == [kind : Kinds, version : Nat, bundle : Bundles]
\* snap: the active rows the UPDATE saw; off: those it locked and deactivates.
Job == [pc : {"idle", "train", "fit", "save", "update", "wait", "insert", "serve", "load", "store"},
        kind : Kinds, view : BOOLEAN, bundle : Bundles, version : Nat,
        snap : SUBSET Nat, off : SUBSET Nat]

Idle == [pc |-> "idle", kind |-> "infra", view |-> FALSE, bundle |-> 0, version |-> 0,
         snap |-> {}, off |-> {}]

Active(kind) == {v \in DOMAIN models[kind] : models[kind][v].active}

EnoughHistory == history >= MinHistory
FleetRegistered == fleet >= MinAssets

\* No fleet, no forecast of it; too little history, no forecast at all.
Ready(kind) == EnoughHistory /\ (kind = "infra" => FleetRegistered)

\* Hotspots are trained on the complaints there are, the infrastructure model
\* on a corpus that is always the same.
HotspotFit == history
InfraFit == 0
Fitted(kind) == IF kind = "hotspot" THEN HotspotFit ELSE InfraFit

Init ==
  /\ fleet = 0 /\ history = 0
  /\ models = [kind \in Kinds |-> << >>]
  /\ artifacts = {}
  /\ jobs = [j \in Jobs |-> Idle]
  /\ contested = {}

-----------------------------------------------------------------------------
(* Training. *)

RequestTraining(j, kind) ==
  /\ jobs[j].pc = "idle"
  /\ jobs' = [jobs EXCEPT ![j] = [Idle EXCEPT !.pc = "train", !.kind = kind]]
  /\ UNCHANGED <<evidence, models, artifacts, contested>>

PassGate(j) ==
  LET job == jobs[j] IN
  /\ job.pc = "train" /\ Ready(job.kind)
  /\ jobs' = [jobs EXCEPT ![j] = [job EXCEPT !.pc = "fit", !.bundle = Fitted(job.kind)]]
  /\ UNCHANGED <<evidence, models, artifacts, contested>>

\* Hotspots are refused for a compressed history too.  A page whose training
\* was refused looks for a model all the same.
RefuseTraining(j) ==
  LET job == jobs[j] IN
  /\ job.pc = "train" /\ (job.kind = "hotspot" \/ ~Ready(job.kind))
  /\ jobs' = [jobs EXCEPT ![j] = IF job.view THEN [job EXCEPT !.pc = "serve"] ELSE Idle]
  /\ UNCHANGED <<evidence, models, artifacts, contested>>

NextVersion(j) ==
  /\ jobs[j].pc = "fit" /\ Len(models[jobs[j].kind]) < MaxVersion
  /\ jobs' = [jobs EXCEPT ![j].pc = "save", ![j].version = Len(models[jobs[j].kind]) + 1]
  /\ UNCHANGED <<evidence, models, artifacts, contested>>

\* Another training has committed this version, or may still.
Rivalled(j) ==
  \/ jobs[j].version \in DOMAIN models[jobs[j].kind]
  \/ \E l \in Jobs \ {j} :
       /\ jobs[l].pc \in {"save", "update", "wait", "insert"}
       /\ jobs[l].kind = jobs[j].kind /\ jobs[l].version = jobs[j].version

SaveBundle(j) ==
  LET job == jobs[j]
      others == {f \in artifacts : f.kind # job.kind \/ f.version # job.version}
  IN /\ job.pc = "save"
     /\ artifacts' = others \cup
          {[kind |-> job.kind, version |-> job.version, bundle |-> job.bundle]}
     /\ contested' = IF Rivalled(j) THEN contested \cup {<<job.kind, job.version>>} ELSE contested
     /\ jobs' = [jobs EXCEPT ![j].pc = "update"]
     /\ UNCHANGED <<evidence, models>>

\* UPDATE ... WHERE is_active: the statement sees the rows committed by now,
\* waits for those another transaction has locked, and skips the ones that are
\* inactive by then.
UpdateBegins(j) ==
  /\ jobs[j].pc = "update"
  /\ jobs' = [jobs EXCEPT ![j].pc = "wait", ![j].snap = Active(jobs[j].kind)]
  /\ UNCHANGED <<evidence, models, artifacts, contested>>

UpdateEnds(j) ==
  LET job == jobs[j] IN
  /\ job.pc = "wait"
  /\ \A l \in Jobs \ {j} : jobs[l].kind = job.kind => jobs[l].off \cap job.snap = {}
  /\ jobs' = [jobs EXCEPT ![j].pc = "insert", ![j].snap = {},
                              ![j].off = job.snap \cap Active(job.kind)]
  /\ UNCHANGED <<evidence, models, artifacts, contested>>

Committed(job) ==
  Append([v \in DOMAIN models[job.kind] |->
           [models[job.kind][v] EXCEPT !.active = @ /\ v \notin job.off]],
         [bundle |-> job.bundle, active |-> TRUE])

\* Mutant: the version column is not unique.
InsertAnyway(j) ==
  LET job == jobs[j] IN
  /\ job.pc = "insert"
  /\ models' = [models EXCEPT ![job.kind] = Committed(job)]
  /\ jobs' = [jobs EXCEPT ![j] = Idle]
  /\ UNCHANGED <<evidence, artifacts, contested>>

\* The version column is unique: a training whose version was taken raises, and
\* its UPDATE is rolled back.
InsertModel(j) ==
  LET job == jobs[j] IN
  /\ job.pc = "insert"
  /\ IF job.version \in DOMAIN models[job.kind]
     THEN /\ jobs' = [jobs EXCEPT ![j] = Idle]
          /\ UNCHANGED models
     ELSE /\ models' = [models EXCEPT ![job.kind] = Committed(job)]
          /\ jobs' = [jobs EXCEPT ![j] =
               IF job.view THEN [Idle EXCEPT !.pc = "serve", !.kind = job.kind] ELSE Idle]
  /\ UNCHANGED <<evidence, artifacts, contested>>

-----------------------------------------------------------------------------
(* Serving. *)

\* A hotspot page without a model is empty: it never trains one.
ViewHotspots(j) ==
  /\ jobs[j].pc = "idle" /\ Ready("hotspot") /\ Active("hotspot") # {}
  /\ jobs' = [jobs EXCEPT ![j] = [Idle EXCEPT !.kind = "hotspot", !.pc = "serve"]]
  /\ UNCHANGED <<evidence, models, artifacts, contested>>

ViewInfra(j) ==
  LET untrained == Active("infra") = {} IN
  /\ jobs[j].pc = "idle" /\ Ready("infra")
  /\ jobs' = [jobs EXCEPT ![j] =
       [Idle EXCEPT !.view = untrained, !.pc = IF untrained THEN "train" ELSE "serve"]]
  /\ UNCHANGED <<evidence, models, artifacts, contested>>

\* The active row, whichever comes first; no row after a training is an error.
FindModel(j) ==
  LET kind == jobs[j].kind IN
  /\ jobs[j].pc = "serve"
  /\ \/ \E v \in Active(kind) :
          jobs' = [jobs EXCEPT ![j] = [Idle EXCEPT !.pc = "load", !.kind = kind, !.version = v]]
     \/ Active(kind) = {} /\ jobs' = [jobs EXCEPT ![j] = Idle]
  /\ UNCHANGED <<evidence, models, artifacts, contested>>

\* Mutant: the newest file of the kind is loaded, not the row's.
LoadNewest(j) ==
  LET job == jobs[j] IN
  /\ job.pc = "load"
  /\ \E f \in artifacts :
       /\ f.kind = job.kind /\ \A g \in artifacts : g.kind = f.kind => g.version <= f.version
       /\ jobs' = [jobs EXCEPT ![j].pc = "store", ![j].bundle = f.bundle]
  /\ UNCHANGED <<evidence, models, artifacts, contested>>

LoadBundle(j) ==
  LET job == jobs[j] IN
  /\ job.pc = "load"
  /\ \E f \in artifacts :
       /\ f.kind = job.kind /\ f.version = job.version
       /\ jobs' = [jobs EXCEPT ![j].pc = "store", ![j].bundle = f.bundle]
  /\ UNCHANGED <<evidence, models, artifacts, contested>>

\* A prediction per asset is stored, or a risk per cell answered, under the
\* row's version; nothing here reads them again.
StoreForecast(j) ==
  /\ jobs[j].pc = "store"
  /\ jobs' = [jobs EXCEPT ![j] = Idle]
  /\ UNCHANGED <<evidence, models, artifacts, contested>>

-----------------------------------------------------------------------------
\* The process dies; what its transaction had locked is free again.
KillJob(j) ==
  /\ jobs[j].pc # "idle"
  /\ jobs' = [jobs EXCEPT ![j] = Idle]
  /\ UNCHANGED <<evidence, models, artifacts, contested>>

\* Assets are registered; complaints arrive, and leave the lookback window.
Evidence ==
  /\ \/ fleet < MinAssets /\ fleet' = fleet + 1 /\ UNCHANGED history
     \/ history' \in {history + 1, history - 1} \cap Bundles /\ UNCHANGED fleet
  /\ UNCHANGED <<models, artifacts, jobs, contested>>

Next ==
  \/ \E j \in Jobs :
       \/ \E kind \in Kinds : RequestTraining(j, kind)
       \/ PassGate(j) \/ RefuseTraining(j) \/ NextVersion(j) \/ SaveBundle(j)
       \/ UpdateBegins(j) \/ UpdateEnds(j) \/ InsertModel(j)
       \/ ViewHotspots(j) \/ ViewInfra(j) \/ FindModel(j) \/ LoadBundle(j)
       \/ StoreForecast(j) \/ KillJob(j)
  \/ Evidence

Spec == Init /\ [][Next]_vars

-----------------------------------------------------------------------------
TypeOK ==
  /\ fleet \in 0..MinAssets /\ history \in Bundles
  /\ models \in [Kinds -> Seq(Model)]
  /\ artifacts \subseteq File
  /\ jobs \in [Jobs -> Job]
  /\ contested \subseteq Kinds \X Nat

\* "Exactly one row is is_active at a time": once a model was trained there is
\* one that serves, the newest, however trainings overlap or die.
OneModelServes ==
  \A kind \in Kinds : Active(kind) = IF models[kind] = << >> THEN {} ELSE {Len(models[kind])}

\* A forecast names the model it came from: unless two trainings wrote the file
\* of one version, the bundle behind a stored version is the one its row
\* describes, over crashes and retraining between the look-up and the load.
ForecastsAreTraceable ==
  \A j \in Jobs : jobs[j].pc = "store" =>
    LET job == jobs[j] IN
    \/ <<job.kind, job.version>> \in contested
    \/ /\ job.version \in DOMAIN models[job.kind]
       /\ models[job.kind][job.version].bundle = job.bundle
=============================================================================
