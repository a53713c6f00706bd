---------------------------- MODULE ReportWizard ----------------------------
(***************************************************************************)
(* Filing a report: the wizard of three steps, the uploader and the        *)
(* location picker on its second step, and the endpoints behind them.      *)
(*                                                                         *)
(* Everything the wizard asks for is answered late: the ward of a place,   *)
(* the position of the device, the uploads, the submission.  The uploader  *)
(* and the picker are thrown away when the step changes, but their answers *)
(* still reach the form, which lives on and is emptied for the next        *)
(* report.  What is typed is abstracted to whether it is long enough.      *)
(***************************************************************************)
EXTENDS Naturals, FiniteSets, Sequences, SequencesExt

CONSTANTS
  Places,       \* points that can be picked
  Wards,
  WardAt,       \* the ward whose boundary contains a place; the seeded ones do not overlap
  ActiveWards,  \* the wards that are not disabled
  HomeWard,     \* the ward of the citizen's account
  Nowhere,      \* no place, no ward
  MaxImages,    \* MAX_IMAGES
  MaxFixes,     \* bound: positions asked for at a time
  MaxMedia,     \* bound: files stored
  MaxFiled      \* bound: complaints

ASSUME WizardAssumption ==
  /\ Nowhere \notin Places \cup Wards /\ ActiveWards \subseteq Wards
  /\ WardAt \in [Places -> Wards \cup {Nowhere}] /\ HomeWard \in Wards \cup {Nowhere}
  /\ {MaxImages, MaxFixes, MaxMedia, MaxFiled} \subseteq Nat

VARIABLES
  signedIn,  \* isAuthenticated
  form,      \* the state of ReportWizard
  locating,  \* the picker on the screen waits for a position
  fixes,     \* positions asked for; alive while their picker is on the screen
  lookups,   \* /geo/lookup requests; current is seq === lookupSeq.current
  items,     \* the tiles of the uploader on the screen
  transfers,   \* uploads under way
  submits,   \* submissions under way
  media,     \* complaint_media: the complaint of each file, 0 when it has none
  filed,     \* complaints in the order they were committed
  gaveUp     \* history: a position failed while the report was reviewed

formVars == <<form, locating, fixes, lookups, items>>
storedVars == <<media, filed>>
wizardVars == <<signedIn, formVars, transfers, submits, storedVars, gaveUp>>

Photo == 1..MaxMedia
Key == 1..(2 * MaxMedia)
SomeWard == Wards \cup {Nowhere}
WardStatus == {"idle", "checking", "detected", "unavailable", "requires-auth"}
Form == [step : 0..3, described : BOOLEAN, photos : SUBSET Photo,
         place : Places \cup {Nowhere}, ward : SomeWard, wardStatus : WardStatus,
         submitting : BOOLEAN]
Fix == [id : 1..MaxFixes, alive : BOOLEAN]
Lookup == [place : Places, current : BOOLEAN]
Item == [key : Key, status : {"uploading", "done", "error"}, photo : Photo \cup {0}]
Transfer == [key : Key, photo : Photo \cup {0}]
Report == [place : Places \cup {Nowhere}, photos : SUBSET Photo,
           ward : SomeWard, detected : BOOLEAN]  \* ward and detected: what the review showed
Submission == [report : Report, phase : {"sent", "filed", "answered", "refused"}, awaited : BOOLEAN]
Filed == [report : Report, ward : SomeWard, told : SUBSET (Wards \cup {"citizen"}), audited : BOOLEAN]

Empty == [step |-> 0, described |-> FALSE, photos |-> {}, place |-> Nowhere,
          ward |-> Nowhere, wardStatus |-> "idle", submitting |-> FALSE]

WizardInit ==
  /\ signedIn \in BOOLEAN
  /\ form = Empty /\ locating = FALSE /\ fixes = {} /\ lookups = {} /\ items = {}
  /\ transfers = {} /\ submits = {} /\ media = << >> /\ filed = << >> /\ gaveUp = FALSE

-----------------------------------------------------------------------------
(* The steps *)

\* The step that is left takes its uploader and its picker with it.
GoTo(step) ==
  /\ form' = [form EXCEPT !.step = step, !.submitting = @ /\ step < 3]
  /\ locating' = FALSE /\ items' = {}
  /\ fixes' = {[f EXCEPT !.alive = FALSE] : f \in fixes}

\* The category and the description, on the first step.
Describe ==
  /\ form.step = 0
  /\ form' = [form EXCEPT !.described = ~@]
  /\ UNCHANGED <<signedIn, locating, fixes, lookups, items, transfers, submits, storedVars, gaveUp>>

CanContinue ==
  \/ form.step = 0 /\ form.described
  \/ form.step = 1 /\ form.place # Nowhere

Continue ==
  /\ CanContinue /\ ~form.submitting
  /\ GoTo(form.step + 1)
  /\ UNCHANGED <<signedIn, lookups, transfers, submits, storedVars, gaveUp>>

\* The step bar goes back even while the report is being submitted.
Back ==
  /\ form.step \in {1, 2}
  /\ GoTo(form.step - 1)
  /\ UNCHANGED <<signedIn, lookups, transfers, submits, storedVars, gaveUp>>

\* Report another.  What is under way is not called off.
ResetAll ==
  /\ form.step = 3
  /\ form' = Empty
  /\ UNCHANGED <<signedIn, locating, fixes, lookups, items, transfers, submits, storedVars, gaveUp>>

-----------------------------------------------------------------------------
(* The place and its ward *)

\* handleLocationChange: the answer to an earlier place no longer counts.
LocationChanged(place) ==
  LET status == IF place = Nowhere THEN "idle"
                ELSE IF signedIn THEN "checking" ELSE "requires-auth"
  IN /\ form' = [form EXCEPT !.place = place, !.ward = Nowhere, !.wardStatus = status]
     /\ lookups' = {[l EXCEPT !.current = FALSE] : l \in lookups} \cup
                   (IF status = "checking" THEN {[place |-> place, current |-> TRUE]} ELSE {})

\* Mutant: the number of the lookup is not compared.
CountsAlways(lookup) == lookup \in lookups

Counts(lookup) == lookup.current

WardAnswer(lookup) ==
  /\ lookups' = lookups \ {lookup}
  /\ \/ form' = IF Counts(lookup)
                THEN [form EXCEPT !.ward = WardAt[lookup.place], !.wardStatus = "detected"]
                ELSE form
     \/ form' = IF Counts(lookup)
                THEN [form EXCEPT !.ward = Nowhere, !.wardStatus = "unavailable"]
                ELSE form
  /\ UNCHANGED <<signedIn, locating, fixes, items, transfers, submits, storedVars, gaveUp>>

\* pick: a click on the map or typed coordinates.
PickManually(place) ==
  /\ form.step = 1
  /\ locating' = FALSE
  /\ LocationChanged(place)
  /\ UNCHANGED <<signedIn, fixes, items, transfers, submits, storedVars, gaveUp>>

\* Select on Map, Clear, or a browser without geolocation.
ClearPick ==
  /\ form.step = 1
  /\ locating' = FALSE
  /\ LocationChanged(Nowhere)
  /\ UNCHANGED <<signedIn, fixes, items, transfers, submits, storedVars, gaveUp>>

UseGps ==
  /\ form.step = 1 /\ ~locating
  /\ locating' = TRUE
  /\ \E id \in 1..MaxFixes :
       /\ {f.id : f \in fixes} \cap 1..id = 1..(id - 1)
       /\ fixes' = fixes \cup {[id |-> id, alive |-> TRUE]}
  /\ UNCHANGED <<signedIn, form, lookups, items, transfers, submits, storedVars, gaveUp>>

\* A position, or Nowhere when it was denied or timed out, whatever was picked
\* and whichever step is shown since it was asked for.
FixArrives(fix, place) ==
  /\ fixes' = fixes \ {fix}
  /\ locating' = (locating /\ ~fix.alive)
  /\ LocationChanged(place)
  /\ gaveUp' = (gaveUp \/ (place = Nowhere /\ form.step = 2))
  /\ UNCHANGED <<signedIn, items, transfers, submits, storedVars>>

-----------------------------------------------------------------------------
(* Photos *)

\* processFiles, startUpload and retryItem: only the tiles on the screen are
\* counted, and a tile that is retried stays where it is.
StartUpload ==
  /\ form.step = 1 /\ signedIn
  /\ Cardinality(items) < MaxImages
  /\ Len(media) + Cardinality({u \in transfers : u.photo = 0}) < MaxMedia
  /\ \E key \in Key :
       /\ {i.key : i \in items \cup transfers} \cap 1..key = 1..(key - 1)
       /\ transfers' = transfers \cup {[key |-> key, photo |-> 0]}
       /\ items' = items \cup {[key |-> key, status |-> "uploading", photo |-> 0]}
  /\ UNCHANGED <<signedIn, form, locating, fixes, lookups, submits, storedVars, gaveUp>>

\* validate_and_store_media
StoreMedia(u) ==
  /\ u.photo = 0
  /\ media' = Append(media, 0)
  /\ transfers' = (transfers \ {u}) \cup {[u EXCEPT !.photo = Len(media) + 1]}
  /\ UNCHANGED <<signedIn, formVars, submits, filed, gaveUp>>

UpdateItem(key, status, photo) ==
  {IF i.key = key THEN [i EXCEPT !.status = status, !.photo = photo] ELSE i : i \in items}

\* The form takes the photo, its tile removed or not.
Uploaded(u) ==
  /\ u.photo # 0
  /\ transfers' = transfers \ {u}
  /\ items' = UpdateItem(u.key, "done", u.photo)
  /\ form' = [form EXCEPT !.photos = @ \cup {u.photo}]
  /\ UNCHANGED <<signedIn, locating, fixes, lookups, submits, storedVars, gaveUp>>

TransferFails(u) ==
  /\ transfers' = transfers \ {u}
  /\ items' = UpdateItem(u.key, "error", 0)
  /\ UNCHANGED <<signedIn, form, locating, fixes, lookups, submits, storedVars, gaveUp>>

RemoveItem(i) ==
  /\ form.step = 1
  /\ items' = items \ {i}
  /\ form' = [form EXCEPT !.photos = @ \ {i.photo}]
  /\ UNCHANGED <<signedIn, locating, fixes, lookups, transfers, submits, storedVars, gaveUp>>

-----------------------------------------------------------------------------
(* Submitting *)

HandleSubmit ==
  /\ form.step = 2 /\ signedIn /\ ~form.submitting
  /\ form' = [form EXCEPT !.submitting = TRUE]
  /\ submits' = submits \cup
       {[report |-> [place |-> form.place, photos |-> form.photos, ward |-> form.ward,
                     detected |-> form.wardStatus = "detected"],
         phase |-> "sent", awaited |-> TRUE]}
  /\ UNCHANGED <<signedIn, locating, fixes, lookups, items, transfers, storedVars, gaveUp>>

\* _geographic_ward, of active wards only.
GeographicWard(place) ==
  IF place # Nowhere /\ WardAt[place] \in ActiveWards THEN WardAt[place] ELSE Nowhere

\* create_complaint: a photo that is used already is left out without a word,
\* and the ward alert goes to the citizen's own ward.
CreateComplaint(s) ==
  /\ s.phase = "sent" /\ Len(filed) < MaxFiled
  /\ filed' = Append(filed,
       [report |-> s.report, ward |-> GeographicWard(s.report.place),
        told |-> {"citizen"} \cup ({HomeWard} \ {Nowhere}), audited |-> FALSE])
  /\ media' = [p \in DOMAIN media |->
       IF p \in s.report.photos /\ media[p] = 0 THEN Len(filed) + 1 ELSE media[p]]
  /\ submits' = (submits \ {s}) \cup {[s EXCEPT !.phase = "filed"]}
  /\ UNCHANGED <<signedIn, formVars, transfers, gaveUp>>

\* The audit row has a commit of its own.
RecordAudit(s) ==
  /\ s.phase = "filed"
  /\ \E i \in DOMAIN filed :
       /\ filed[i].report = s.report /\ ~filed[i].audited
       /\ filed' = [filed EXCEPT ![i].audited = TRUE]
  /\ submits' = (submits \ {s}) \cup {[s EXCEPT !.phase = "answered"]}
  /\ UNCHANGED <<signedIn, formVars, transfers, media, gaveUp>>

Submitted(s) ==
  /\ s.phase = "answered"
  /\ submits' = submits \ {s}
  /\ IF s.awaited
     THEN GoTo(3)
     ELSE UNCHANGED <<form, locating, fixes, items>>
  /\ UNCHANGED <<signedIn, lookups, transfers, storedVars, gaveUp>>

\* Refused or lost before it was served, or its answer is lost.
SubmitFails(s) ==
  /\ s.awaited
  /\ form' = [form EXCEPT !.submitting = FALSE]
  /\ \/ s.phase = "sent" /\ submits' = submits \ {s}
     \/ submits' = (submits \ {s}) \cup {[s EXCEPT !.awaited = FALSE]}
  /\ UNCHANGED <<signedIn, locating, fixes, lookups, items, transfers, storedVars, gaveUp>>

WizardNext ==
  \/ Describe \/ Continue \/ Back \/ ResetAll \/ ClearPick \/ UseGps \/ StartUpload \/ HandleSubmit
  \/ \E place \in Places : PickManually(place)
  \/ \E fix \in fixes, place \in Places \cup {Nowhere} : FixArrives(fix, place)
  \/ \E lookup \in lookups : WardAnswer(lookup)
  \/ \E u \in transfers : StoreMedia(u) \/ Uploaded(u) \/ TransferFails(u)
  \/ \E i \in items : RemoveItem(i)
  \/ \E s \in submits : CreateComplaint(s) \/ RecordAudit(s) \/ Submitted(s) \/ SubmitFails(s)

WizardSpec == WizardInit /\ [][WizardNext]_wizardVars

-----------------------------------------------------------------------------
WizardTypeOK ==
  /\ signedIn \in BOOLEAN /\ form \in Form /\ locating \in BOOLEAN /\ gaveUp \in BOOLEAN
  /\ fixes \subseteq Fix /\ lookups \subseteq Lookup /\ items \subseteq Item
  /\ transfers \subseteq Transfer /\ submits \subseteq Submission
  /\ media \in Seq(0..MaxFiled) /\ filed \in Seq(Filed)

\* What the review showed is what the complaint gets.
AsReviewed(report, ward) ==
  /\ report.detected /\ report.place # Nowhere =>
       ward = IF report.ward \in ActiveWards THEN report.ward ELSE Nowhere
  /\ report.place = Nowhere => gaveUp

\* What the citizen reviews is what is filed: a ward that is shown as detected
\* is the one the complaint gets, unless it is disabled, and a complaint has no
\* place only if a position failed while a report was being reviewed.
FiledAsReviewed ==
  /\ \A i \in DOMAIN filed : AsReviewed(filed[i].report, filed[i].ward)
  /\ \A s \in submits : AsReviewed(s.report, GeographicWard(s.report.place))
=============================================================================
