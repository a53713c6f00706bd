---------------------------- MODULE ReportProofs ----------------------------
(***************************************************************************)
(* Theorems about ReportWizard, Conversations and Correlation: a report is *)
(* filed as it was reviewed, for any places, wards and photos and any      *)
(* number of positions, lookups, uploads and reports; a message keeps its  *)
(* attachments, for any complaints, people, uploads and overlapping sends; *)
(* and what officers decided about duplicates stands, for any complaints   *)
(* and any number of overlapping runs and decisions.                       *)
(***************************************************************************)
EXTENDS ReportWizard, Conversations, Correlation, SequenceTheorems, FiniteSetTheorems, TLAPS

\* A function on 1..n is a sequence, over an interval too.
LEMMA FunctionIsSeq ==
  ASSUME NEW S, NEW n \in Nat, NEW f \in [1..n -> S]
  PROVE  f \in Seq(S) /\ Len(f) = n
OBVIOUS

\* The uploads that are not stored.
Pending == {u \in transfers : u.photo = 0}

\* The ward that is shown as detected is that of the place, as long as there is
\* one: an answer that counts is about the place of the form, or comes to a form
\* that was emptied.  A report is reviewed only with a place, until a position
\* takes it away.
WardIsOfPlace ==
  /\ form.wardStatus = "detected" /\ form.place # Nowhere => form.ward = WardAt[form.place]
  /\ \A l \in lookups : l.current => form.place \in {Nowhere, l.place}
  /\ form.step = 2 => form.place # Nowhere \/ gaveUp

\* The files there are room for.
RoomForPhotos == IsFiniteSet(transfers) /\ Len(media) + Cardinality(Pending) <= MaxMedia

WizardInv == WizardTypeOK /\ RoomForPhotos /\ WardIsOfPlace /\ FiledAsReviewed

-----------------------------------------------------------------------------
(* The form *)

\* A change of step keeps what is said of the place, if the review has one.
LEMMA StepChanged ==
  ASSUME WizardTypeOK, WardIsOfPlace, NEW step \in 0..3, GoTo(step),
         lookups' = lookups, gaveUp' = gaveUp,
         step = 2 => form.place # Nowhere
  PROVE  /\ form' \in Form /\ locating' \in BOOLEAN /\ fixes' \subseteq Fix /\ items' \subseteq Item
         /\ WardIsOfPlace'
<1>1. form' \in Form /\ form'.step = step /\ form'.place = form.place
      /\ form'.ward = form.ward /\ form'.wardStatus = form.wardStatus
  BY DEF WizardTypeOK, GoTo, Form
<1>2. locating' \in BOOLEAN /\ fixes' \subseteq Fix /\ items' \subseteq Item
  BY DEF WizardTypeOK, GoTo, Fix
<1>3. WardIsOfPlace'
  BY <1>1 DEF WardIsOfPlace
<1>4. QED
  BY <1>1, <1>2, <1>3

\* A form that keeps its place, its step and its ward.
LEMMA SamePlace ==
  ASSUME WardIsOfPlace, form'.place = form.place, form'.step = form.step,
         form'.ward = form.ward, form'.wardStatus = form.wardStatus,
         lookups' = lookups, gaveUp' = gaveUp
  PROVE  WardIsOfPlace'
BY DEF WardIsOfPlace

\* A new place forgets the ward, and the answers about the places before.
LEMMA PlaceChanged ==
  ASSUME WizardTypeOK, NEW place \in Places \cup {Nowhere}, LocationChanged(place),
         form.step = 2 => place # Nowhere \/ gaveUp'
  PROVE  form' \in Form /\ lookups' \subseteq Lookup /\ WardIsOfPlace'
<1>1. form' \in Form /\ form'.step = form.step /\ form'.place = place
      /\ form'.wardStatus # "detected"
  BY DEF WizardTypeOK, LocationChanged, Form, WardStatus, SomeWard
<1>2. \A l \in lookups' : l \in Lookup /\ (l.current => l.place = place)
  <2>1. \A l \in lookups : [l EXCEPT !.current = FALSE] \in Lookup
                           /\ ~[l EXCEPT !.current = FALSE].current
    BY DEF WizardTypeOK, Lookup
  <2>2. place # Nowhere => [place |-> place, current |-> TRUE] \in Lookup
    BY DEF Lookup
  <2>3. /\ lookups' \subseteq {[l EXCEPT !.current = FALSE] : l \in lookups} \cup
                             {[place |-> place, current |-> TRUE]}
        /\ place = Nowhere => lookups' = {[l EXCEPT !.current = FALSE] : l \in lookups}
    BY DEF LocationChanged
  <2>4. [place |-> place, current |-> TRUE].place = place
    OBVIOUS
  <2>5. QED
    BY <2>1, <2>2, <2>3, <2>4
<1>3. QED
  BY <1>1, <1>2 DEF WardIsOfPlace

-----------------------------------------------------------------------------
(* Files *)

LEMMA RoomKept ==
  ASSUME RoomForPhotos, transfers' = transfers, Len(media') = Len(media)
  PROVE  RoomForPhotos'
BY DEF RoomForPhotos, Pending

\* An upload that is over makes room for another.
LEMMA TransferGone ==
  ASSUME WizardTypeOK, RoomForPhotos, NEW u \in transfers,
         transfers' = transfers \ {u}, media' = media
  PROVE  transfers' \subseteq Transfer /\ RoomForPhotos'
<1>1. IsFiniteSet(transfers') /\ Pending' \subseteq Pending
  BY FS_RemoveElement DEF RoomForPhotos, Pending
<1>2. IsFiniteSet(Pending) /\ IsFiniteSet(transfers)
  BY FS_Subset DEF RoomForPhotos, Pending
<1>3. /\ Cardinality(Pending') <= Cardinality(Pending)
      /\ Cardinality(Pending') \in Nat /\ Cardinality(Pending) \in Nat
  BY <1>1, <1>2, FS_Subset, FS_CardinalityType
<1>4. Len(media) \in Nat
  BY DEF WizardTypeOK
<1>5. QED
  BY <1>1, <1>3, <1>4, WizardAssumption DEF RoomForPhotos, WizardTypeOK

LEMMA TileUpdated ==
  ASSUME WizardTypeOK, NEW key, NEW result \in {"uploading", "done", "error"},
         NEW photo \in Photo \cup {0}
  PROVE  UpdateItem(key, result, photo) \subseteq Item
<1>1. \A i \in items : i \in Item /\ [i EXCEPT !.status = result, !.photo = photo] \in Item
  BY DEF WizardTypeOK, Item
<1>2. QED
  BY <1>1 DEF UpdateItem

-----------------------------------------------------------------------------
(* Reports *)

LEMMA WardsAreGeographic ==
  ASSUME NEW place \in Places \cup {Nowhere}
  PROVE  GeographicWard(place) \in SomeWard
BY WizardAssumption DEF GeographicWard, SomeWard

\* The report that is sent is the one that was reviewed.
LEMMA SubmittedAsReviewed ==
  ASSUME WizardTypeOK, WardIsOfPlace, HandleSubmit
  PROVE  \A s \in submits' \ submits :
           s \in Submission /\ AsReviewed(s.report, GeographicWard(s.report.place))
<1> DEFINE r == [place |-> form.place, photos |-> form.photos, ward |-> form.ward,
                 detected |-> form.wardStatus = "detected"]
<1>1. r \in Report
  BY DEF WizardTypeOK, Form, Report
<1>2. r.detected /\ r.place # Nowhere => r.ward = WardAt[r.place]
  BY DEF WardIsOfPlace
<1>3. r.place = Nowhere => gaveUp
  BY DEF WardIsOfPlace, HandleSubmit
<1>4. AsReviewed(r, GeographicWard(r.place))
  BY <1>2, <1>3 DEF AsReviewed, GeographicWard
<1>5. \A s \in submits' \ submits : s = [report |-> r, phase |-> "sent", awaited |-> TRUE]
  BY DEF HandleSubmit
<1> HIDE DEF r
<1>6. /\ [report |-> r, phase |-> "sent", awaited |-> TRUE] \in Submission
      /\ [report |-> r, phase |-> "sent", awaited |-> TRUE].report = r
  BY <1>1 DEF Submission
<1>7. QED
  BY <1>4, <1>5, <1>6

\* Nothing new is filed or sent.
LEMMA SameReports ==
  ASSUME FiledAsReviewed, filed' = filed, gaveUp => gaveUp',
         \A s \in submits' : \E q \in submits : s.report = q.report
  PROVE  FiledAsReviewed'
BY DEF FiledAsReviewed, AsReviewed, GeographicWard

-----------------------------------------------------------------------------
(* Every step keeps the invariant *)

LEMMA FormSteps ==
  ASSUME WizardInv, Describe \/ Continue \/ Back \/ ResetAll \/ ClearPick \/ UseGps
  PROVE  WizardInv'
<1> USE DEF WizardInv
<1>0. form \in Form /\ form.step \in 0..3
  BY DEF WizardTypeOK, Form
<1>1. RoomForPhotos'
  BY RoomKept DEF Describe, Continue, Back, ResetAll, ClearPick, UseGps, storedVars
<1>2. FiledAsReviewed'
  <2>1. submits' = submits /\ filed' = filed /\ gaveUp' = gaveUp
    BY DEF Describe, Continue, Back, ResetAll, ClearPick, UseGps, storedVars
  <2>2. QED
    BY <2>1, SameReports
<1>3. CASE Describe
  <2>1. form' \in Form /\ form'.place = form.place /\ form'.step = form.step
        /\ form'.ward = form.ward /\ form'.wardStatus = form.wardStatus
    BY <1>0, <1>3 DEF Describe, Form
  <2>2. WardIsOfPlace'
    BY <1>3, <2>1, SamePlace DEF Describe
  <2>3. QED
    BY <1>1, <1>2, <1>3, <2>1, <2>2 DEF Describe, WizardTypeOK, storedVars
<1>4. CASE Continue
  <2>1. form.step + 1 \in 0..3 /\ (form.step + 1 = 2 => form.place # Nowhere)
    BY <1>0, <1>4 DEF Continue, CanContinue
  <2>2. /\ form' \in Form /\ locating' \in BOOLEAN /\ fixes' \subseteq Fix /\ items' \subseteq Item
        /\ WardIsOfPlace'
    BY <1>4, <2>1, StepChanged DEF Continue
  <2>3. QED
    BY <1>1, <1>2, <1>4, <2>2 DEF Continue, WizardTypeOK, storedVars
<1>5. CASE Back
  <2>1. form.step - 1 \in 0..3 /\ form.step - 1 # 2
    BY <1>0, <1>5 DEF Back
  <2>2. /\ form' \in Form /\ locating' \in BOOLEAN /\ fixes' \subseteq Fix /\ items' \subseteq Item
        /\ WardIsOfPlace'
    BY <1>5, <2>1, StepChanged DEF Back
  <2>3. QED
    BY <1>1, <1>2, <1>5, <2>2 DEF Back, WizardTypeOK, storedVars
<1>6. CASE ResetAll
  <2>1. form' \in Form
    BY <1>6 DEF ResetAll, Empty, Form, SomeWard, WardStatus
  <2>2. WardIsOfPlace'
    BY <1>6 DEF ResetAll, Empty, WardIsOfPlace
  <2>3. QED
    BY <1>1, <1>2, <1>6, <2>1, <2>2 DEF ResetAll, WizardTypeOK, storedVars
<1>7. CASE ClearPick
  <2>1. form' \in Form /\ lookups' \subseteq Lookup /\ WardIsOfPlace'
    BY <1>7, PlaceChanged DEF ClearPick
  <2>2. QED
    BY <1>1, <1>2, <1>7, <2>1 DEF ClearPick, WizardTypeOK, storedVars
<1>8. CASE UseGps
  <2>1. fixes' \subseteq Fix
    <3>1. PICK id \in 1..MaxFixes : fixes' = fixes \cup {[id |-> id, alive |-> TRUE]}
      BY <1>8 DEF UseGps
    <3>2. [id |-> id, alive |-> TRUE] \in Fix
      BY DEF Fix
    <3>3. QED
      BY <3>1, <3>2 DEF WizardTypeOK
  <2>2. WardIsOfPlace'
    BY <1>8, SamePlace DEF UseGps
  <2>3. QED
    BY <1>1, <1>2, <1>8, <2>1, <2>2 DEF UseGps, WizardTypeOK, storedVars
<1>9. QED
  BY <1>3, <1>4, <1>5, <1>6, <1>7, <1>8

LEMMA PlaceSteps ==
  ASSUME WizardInv,
         \/ \E place \in Places : PickManually(place)
         \/ \E fix \in fixes, place \in Places \cup {Nowhere} : FixArrives(fix, place)
         \/ \E lookup \in lookups : WardAnswer(lookup)
  PROVE  WizardInv'
<1> USE DEF WizardInv
<1>0. form \in Form
  BY DEF WizardTypeOK
<1>1. RoomForPhotos'
  BY RoomKept DEF PickManually, FixArrives, WardAnswer, storedVars
<1>2. FiledAsReviewed'
  <2>1. submits' = submits /\ filed' = filed
    BY DEF PickManually, FixArrives, WardAnswer, storedVars
  <2>2. gaveUp => gaveUp'
    BY Zenon DEF PickManually, FixArrives, WardAnswer
  <2>3. QED
    BY <2>1, <2>2, SameReports
<1>3. ASSUME NEW place \in Places, PickManually(place)
      PROVE  WizardInv'
  <2>1. form' \in Form /\ lookups' \subseteq Lookup /\ WardIsOfPlace'
    BY <1>3, PlaceChanged, WizardAssumption DEF PickManually
  <2>2. QED
    BY <1>1, <1>2, <1>3, <2>1 DEF PickManually, WizardTypeOK, storedVars
<1>4. ASSUME NEW fix \in fixes, NEW place \in Places \cup {Nowhere}, FixArrives(fix, place)
      PROVE  WizardInv'
  <2>1. form' \in Form /\ lookups' \subseteq Lookup /\ WardIsOfPlace'
    BY <1>4, PlaceChanged DEF FixArrives
  <2>2. locating' \in BOOLEAN /\ gaveUp' \in BOOLEAN /\ fixes' \subseteq Fix
    BY <1>4 DEF FixArrives, WizardTypeOK
  <2>3. QED
    BY <1>1, <1>2, <1>4, <2>1, <2>2 DEF FixArrives, WizardTypeOK, storedVars
<1>5. ASSUME NEW lookup \in lookups, WardAnswer(lookup)
      PROVE  WizardInv'
  <2>1. lookup \in Lookup /\ lookups' \subseteq lookups /\ WardAt[lookup.place] \in SomeWard
    BY <1>5, WizardAssumption DEF WardAnswer, WizardTypeOK, Lookup, SomeWard
  <2>2. /\ form' \in Form /\ form'.place = form.place /\ form'.step = form.step
        /\ \/ form' = form
           \/ form'.wardStatus = "unavailable"
           \/ lookup.current /\ form'.ward = WardAt[lookup.place]
    <3>1. ASSUME NEW ward \in SomeWard, NEW outcome \in WardStatus,
                 form' = [form EXCEPT !.ward = ward, !.wardStatus = outcome]
          PROVE  /\ form' \in Form /\ form'.place = form.place /\ form'.step = form.step
                 /\ form'.ward = ward /\ form'.wardStatus = outcome
      BY <1>0, <3>1 DEF Form
    <3>2. Nowhere \in SomeWard /\ {"detected", "unavailable"} \subseteq WardStatus
      BY DEF SomeWard, WardStatus
    <3>3. \/ form' = form
          \/ form' = [form EXCEPT !.ward = Nowhere, !.wardStatus = "unavailable"]
          \/ /\ lookup.current
             /\ form' = [form EXCEPT !.ward = WardAt[lookup.place], !.wardStatus = "detected"]
      BY <1>5 DEF WardAnswer, Counts
    <3>4. QED
      BY <1>0, <2>1, <3>1, <3>2, <3>3
  <2>3. WardIsOfPlace'
    BY <1>5, <2>1, <2>2 DEF WardAnswer, WardIsOfPlace
  <2>4. QED
    BY <1>1, <1>2, <1>5, <2>1, <2>2, <2>3 DEF WardAnswer, WizardTypeOK, storedVars
<1>6. QED
  BY <1>3, <1>4, <1>5

LEMMA PhotoSteps ==
  ASSUME WizardInv,
         \/ StartUpload
         \/ \E u \in transfers : StoreMedia(u) \/ Uploaded(u) \/ TransferFails(u)
         \/ \E i \in items : RemoveItem(i)
  PROVE  WizardInv'
<1> USE DEF WizardInv
<1>0. form \in Form /\ Len(media) \in Nat /\ media \in Seq(0..MaxFiled)
  BY DEF WizardTypeOK
<1>1. FiledAsReviewed'
  <2>1. submits' = submits /\ filed' = filed /\ gaveUp' = gaveUp
    BY DEF StartUpload, StoreMedia, Uploaded, TransferFails, RemoveItem, storedVars, formVars
  <2>2. QED
    BY <2>1, SameReports
<1>2. WardIsOfPlace'
  <2>1. /\ form'.place = form.place /\ form'.step = form.step
        /\ form'.ward = form.ward /\ form'.wardStatus = form.wardStatus
        /\ lookups' = lookups /\ gaveUp' = gaveUp
    BY <1>0 DEF StartUpload, StoreMedia, Uploaded, TransferFails, RemoveItem, formVars, Form
  <2>2. QED
    BY <2>1, SamePlace
<1>3. IsFiniteSet(transfers) /\ IsFiniteSet(Pending) /\ Cardinality(Pending) \in Nat
  BY FS_Subset, FS_CardinalityType DEF RoomForPhotos, Pending
<1>4. CASE StartUpload
  <2>1. PICK key \in Key :
          /\ transfers' = transfers \cup {[key |-> key, photo |-> 0]}
          /\ items' = items \cup {[key |-> key, status |-> "uploading", photo |-> 0]}
    BY <1>4 DEF StartUpload
  <2> DEFINE u == [key |-> key, photo |-> 0]
  <2>2. /\ u \in Transfer /\ u.photo = 0
        /\ [key |-> key, status |-> "uploading", photo |-> 0] \in Item
    BY DEF Transfer, Item
  <2>3. transfers' = transfers \cup {u}
    BY <2>1
  <2> HIDE DEF u
  <2>4. WizardTypeOK'
    BY <1>4, <2>1, <2>2, <2>3 DEF StartUpload, WizardTypeOK, storedVars
  <2>5. IsFiniteSet(transfers') /\ Pending' = Pending \cup {u}
    BY <1>3, <2>2, <2>3, FS_AddElement DEF Pending
  <2>6. Cardinality(Pending') \in Nat /\ Cardinality(Pending') <= Cardinality(Pending) + 1
    <3>1. /\ IsFiniteSet(Pending \cup {u})
          /\ \/ Cardinality(Pending \cup {u}) = Cardinality(Pending)
             \/ Cardinality(Pending \cup {u}) = Cardinality(Pending) + 1
      BY <1>3, FS_AddElement
    <3>2. QED
      BY <1>3, <2>5, <3>1
  <2>7. Len(media) + Cardinality(Pending) < MaxMedia /\ media' = media /\ MaxMedia \in Nat
    BY <1>4, WizardAssumption DEF StartUpload, Pending, storedVars
  <2>8. RoomForPhotos'
    BY <1>0, <1>3, <2>5, <2>6, <2>7 DEF RoomForPhotos
  <2>9. QED
    BY <1>1, <1>2, <2>4, <2>8
<1>5. ASSUME NEW u \in transfers, StoreMedia(u)
      PROVE  WizardInv'
  <2>1. u \in Pending /\ u \in Transfer /\ MaxMedia \in Nat
    BY <1>5, WizardAssumption DEF StoreMedia, Pending, WizardTypeOK
  <2>2. Cardinality(Pending \ {u}) = Cardinality(Pending) - 1 /\ IsFiniteSet(Pending \ {u})
    BY <1>3, <2>1, FS_RemoveElement
  <2>3. Len(media) + 1 \in Photo
    <3>1. Cardinality(Pending \ {u}) \in Nat
      BY <2>2, FS_CardinalityType
    <3>2. QED
      BY <1>0, <1>3, <2>1, <2>2, <3>1 DEF RoomForPhotos, Photo
  <2> DEFINE v == [u EXCEPT !.photo = Len(media) + 1]
  <2>4. v \in Transfer /\ v.photo # 0
    BY <1>0, <2>1, <2>3 DEF Transfer, Photo
  <2>5. transfers' = (transfers \ {u}) \cup {v} /\ media' = Append(media, 0)
    BY <1>5 DEF StoreMedia
  <2> HIDE DEF v
  <2>6. media' \in Seq(0..MaxFiled) /\ Len(media') = Len(media) + 1
    BY <1>0, <2>5, WizardAssumption
  <2>7. WizardTypeOK'
    BY <1>5, <2>4, <2>5, <2>6 DEF StoreMedia, WizardTypeOK, formVars
  <2>8. IsFiniteSet(transfers') /\ Pending' = Pending \ {u}
    BY <1>3, <2>4, <2>5, FS_AddElement, FS_RemoveElement DEF Pending
  <2>9. RoomForPhotos'
    BY <1>0, <1>3, <2>1, <2>2, <2>6, <2>8 DEF RoomForPhotos
  <2>10. QED
    BY <1>1, <1>2, <2>7, <2>9
<1>6. ASSUME NEW u \in transfers, Uploaded(u)
      PROVE  WizardInv'
  <2>1. transfers' \subseteq Transfer /\ RoomForPhotos'
    BY <1>6, TransferGone DEF Uploaded, storedVars
  <2>2. u.photo \in Photo
    BY <1>6 DEF Uploaded, WizardTypeOK, Transfer
  <2>3. form' \in Form
    BY <1>0, <1>6, <2>2 DEF Uploaded, Form
  <2>4. items' \subseteq Item
    BY <1>6, <2>2, TileUpdated DEF Uploaded
  <2>5. WizardTypeOK'
    BY <1>6, <2>1, <2>3, <2>4 DEF Uploaded, WizardTypeOK, storedVars
  <2>6. QED
    BY <1>1, <1>2, <2>1, <2>5
<1>7. ASSUME NEW u \in transfers, TransferFails(u)
      PROVE  WizardInv'
  <2>1. transfers' \subseteq Transfer /\ RoomForPhotos'
    BY <1>7, TransferGone DEF TransferFails, storedVars
  <2>2. items' \subseteq Item
    BY <1>7, TileUpdated DEF TransferFails
  <2>3. WizardTypeOK'
    BY <1>7, <2>1, <2>2 DEF TransferFails, WizardTypeOK, storedVars
  <2>4. QED
    BY <1>1, <1>2, <2>1, <2>3
<1>8. ASSUME NEW i \in items, RemoveItem(i)
      PROVE  WizardInv'
  <2>1. form' \in Form
    BY <1>0, <1>8 DEF RemoveItem, Form
  <2>2. WizardTypeOK'
    BY <1>8, <2>1 DEF RemoveItem, WizardTypeOK, storedVars
  <2>3. RoomForPhotos'
    BY <1>8, RoomKept DEF RemoveItem, storedVars
  <2>4. QED
    BY <1>1, <1>2, <2>2, <2>3
<1>9. QED
  BY <1>4, <1>5, <1>6, <1>7, <1>8

LEMMA SubmissionSteps ==
  ASSUME WizardInv,
         \/ HandleSubmit
         \/ \E s \in submits : CreateComplaint(s) \/ RecordAudit(s) \/ Submitted(s) \/ SubmitFails(s)
  PROVE  WizardInv'
<1> USE DEF WizardInv
<1>0. /\ form \in Form /\ filed \in Seq(Filed) /\ media \in Seq(0..MaxFiled)
      /\ Len(media) \in Nat /\ DOMAIN media = 1..Len(media)
  BY DEF WizardTypeOK
<1>1. CASE HandleSubmit
  <2>1. \A s \in submits' \ submits :
          s \in Submission /\ AsReviewed(s.report, GeographicWard(s.report.place))
    BY <1>1, SubmittedAsReviewed
  <2>2. form' \in Form /\ form'.place = form.place /\ form'.step = form.step
        /\ form'.ward = form.ward /\ form'.wardStatus = form.wardStatus
    BY <1>0, <1>1 DEF HandleSubmit, Form
  <2>3. WizardTypeOK'
    BY <1>1, <2>1, <2>2 DEF HandleSubmit, WizardTypeOK, storedVars
  <2>4. WardIsOfPlace'
    BY <1>1, <2>2, SamePlace DEF HandleSubmit
  <2>5. FiledAsReviewed'
    BY <1>1, <2>1 DEF FiledAsReviewed, AsReviewed, GeographicWard, HandleSubmit, storedVars
  <2>6. RoomForPhotos'
    BY <1>1, RoomKept DEF HandleSubmit, storedVars
  <2>7. QED
    BY <2>3, <2>4, <2>5, <2>6
<1>2. ASSUME NEW s \in submits, CreateComplaint(s)
      PROVE  WizardInv'
  <2>1. s \in Submission /\ s.report \in Report
        /\ [s EXCEPT !.phase = "filed"] \in Submission
        /\ [s EXCEPT !.phase = "filed"].report = s.report
    BY DEF WizardTypeOK, Submission
  <2> DEFINE row == [report |-> s.report, ward |-> GeographicWard(s.report.place),
                     told |-> {"citizen"} \cup ({HomeWard} \ {Nowhere}), audited |-> FALSE]
  <2>2. row \in Filed
    <3>1. GeographicWard(s.report.place) \in SomeWard
      BY <2>1, WardsAreGeographic DEF Report
    <3>2. {"citizen"} \cup ({HomeWard} \ {Nowhere}) \subseteq Wards \cup {"citizen"}
      BY WizardAssumption
    <3>3. QED
      BY <2>1, <3>1, <3>2 DEF Filed
  <2>3. row.report = s.report /\ row.ward = GeographicWard(s.report.place)
    OBVIOUS
  <2>4. filed' = Append(filed, row) /\ Len(filed) < MaxFiled
    BY <1>2 DEF CreateComplaint
  <2> HIDE DEF row
  <2>5. /\ filed' \in Seq(Filed) /\ DOMAIN filed' = 1..(Len(filed) + 1)
        /\ \A i \in 1..Len(filed) : filed'[i] = filed[i]
        /\ filed'[Len(filed) + 1] = row
    BY <1>0, <2>2, <2>4
  <2>6. media' \in Seq(0..MaxFiled) /\ Len(media') = Len(media)
    <3>1. \A p \in 1..Len(media) : media[p] \in 0..MaxFiled
      BY <1>0, ElementOfSeq
    <3>2. Len(filed) + 1 \in 0..MaxFiled
      BY <1>0, <2>4, WizardAssumption
    <3>3. media' = [p \in 1..Len(media) |->
             IF p \in s.report.photos /\ media[p] = 0 THEN Len(filed) + 1 ELSE media[p]]
      BY <1>0, <1>2 DEF CreateComplaint
    <3>4. media' \in [1..Len(media) -> 0..MaxFiled]
      BY <3>1, <3>2, <3>3
    <3>5. QED
      BY <1>0, <3>4, FunctionIsSeq
  <2>7. submits' = (submits \ {s}) \cup {[s EXCEPT !.phase = "filed"]}
    BY <1>2 DEF CreateComplaint
  <2>8. WizardTypeOK'
    BY <1>2, <2>1, <2>5, <2>6, <2>7 DEF CreateComplaint, WizardTypeOK, formVars
  <2>9. WardIsOfPlace' /\ RoomForPhotos'
    BY <1>2, <2>6, RoomKept DEF WardIsOfPlace, CreateComplaint, formVars
  <2>10. FiledAsReviewed'
    <3>1. gaveUp' = gaveUp
      BY <1>2 DEF CreateComplaint
    <3>2. \A i \in 1..(Len(filed) + 1) : AsReviewed(filed'[i].report, filed'[i].ward)
      BY <1>0, <2>3, <2>5 DEF FiledAsReviewed
    <3>3. \A q \in submits' : AsReviewed(q.report, GeographicWard(q.report.place))
      BY <2>1, <2>7 DEF FiledAsReviewed
    <3>4. QED
      BY <2>5, <3>1, <3>2, <3>3 DEF FiledAsReviewed, AsReviewed, GeographicWard
  <2>11. QED
    BY <2>8, <2>9, <2>10
<1>3. ASSUME NEW s \in submits, RecordAudit(s)
      PROVE  WizardInv'
  <2>1. /\ [s EXCEPT !.phase = "answered"] \in Submission
        /\ [s EXCEPT !.phase = "answered"].report = s.report
    BY DEF WizardTypeOK, Submission
  <2>2. submits' = (submits \ {s}) \cup {[s EXCEPT !.phase = "answered"]}
    BY <1>3 DEF RecordAudit
  <2>3. PICK i \in DOMAIN filed : filed' = [filed EXCEPT ![i].audited = TRUE]
    BY <1>3 DEF RecordAudit
  <2> DEFINE row == [filed[i] EXCEPT !.audited = TRUE]
  <2>4. row \in Filed /\ row.report = filed[i].report /\ row.ward = filed[i].ward
    <3>1. filed[i] \in Filed
      BY <1>0
    <3>2. QED
      BY <3>1 DEF Filed
  <2>5. filed' = [filed EXCEPT ![i] = row]
    BY <2>3
  <2> HIDE DEF row
  <2>6. /\ filed' \in Seq(Filed) /\ DOMAIN filed' = DOMAIN filed
        /\ \A j \in DOMAIN filed : filed'[j] = IF j = i THEN row ELSE filed[j]
    BY <1>0, <2>4, <2>5
  <2>7. WizardTypeOK'
    BY <1>3, <2>1, <2>2, <2>6 DEF RecordAudit, WizardTypeOK, formVars
  <2>8. WardIsOfPlace' /\ RoomForPhotos'
    BY <1>3, RoomKept DEF WardIsOfPlace, RecordAudit, formVars
  <2>9. FiledAsReviewed'
    <3>1. gaveUp' = gaveUp
      BY <1>3 DEF RecordAudit
    <3>2. \A j \in DOMAIN filed : AsReviewed(filed'[j].report, filed'[j].ward)
      BY <2>4, <2>6 DEF FiledAsReviewed
    <3>3. \A q \in submits' : AsReviewed(q.report, GeographicWard(q.report.place))
      BY <2>1, <2>2 DEF FiledAsReviewed
    <3>4. QED
      BY <2>6, <3>1, <3>2, <3>3 DEF FiledAsReviewed, AsReviewed, GeographicWard
  <2>10. QED
    BY <2>7, <2>8, <2>9
<1>4. ASSUME NEW s \in submits, Submitted(s)
      PROVE  WizardInv'
  <2>1. /\ form' \in Form /\ locating' \in BOOLEAN /\ fixes' \subseteq Fix /\ items' \subseteq Item
        /\ WardIsOfPlace'
    <3>1. CASE s.awaited
      BY <1>4, <3>1, StepChanged DEF Submitted
    <3>2. CASE ~s.awaited
      BY <1>4, <3>2 DEF Submitted, WizardTypeOK, WardIsOfPlace
    <3>3. QED
      BY <3>1, <3>2
  <2>2. WizardTypeOK'
    BY <1>4, <2>1 DEF Submitted, WizardTypeOK, storedVars
  <2>3. RoomForPhotos' /\ FiledAsReviewed'
    BY <1>4, RoomKept, SameReports DEF Submitted, storedVars
  <2>4. QED
    BY <2>1, <2>2, <2>3
<1>5. ASSUME NEW s \in submits, SubmitFails(s)
      PROVE  WizardInv'
  <2>1. /\ [s EXCEPT !.awaited = FALSE] \in Submission
        /\ [s EXCEPT !.awaited = FALSE].report = s.report
    BY DEF WizardTypeOK, Submission
  <2>2. \/ submits' = submits \ {s}
        \/ submits' = (submits \ {s}) \cup {[s EXCEPT !.awaited = FALSE]}
    BY <1>5 DEF SubmitFails
  <2>3. form' \in Form /\ form'.place = form.place /\ form'.step = form.step
        /\ form'.ward = form.ward /\ form'.wardStatus = form.wardStatus
    BY <1>0, <1>5 DEF SubmitFails, Form
  <2>4. WizardTypeOK'
    BY <1>5, <2>1, <2>2, <2>3 DEF SubmitFails, WizardTypeOK, storedVars
  <2>5. WardIsOfPlace' /\ RoomForPhotos'
    BY <1>5, <2>3, SamePlace, RoomKept DEF SubmitFails, storedVars
  <2>6. \A q \in submits' : \E r \in submits : q.report = r.report
    BY <2>1, <2>2
  <2>7. filed' = filed /\ gaveUp' = gaveUp
    BY <1>5 DEF SubmitFails, storedVars
  <2>8. QED
    BY <2>4, <2>5, <2>6, <2>7, SameReports
<1>6. QED
  BY <1>1, <1>2, <1>3, <1>4, <1>5

LEMMA WizardStart == WizardInit => WizardInv
<1> SUFFICES ASSUME WizardInit PROVE WizardInv
  OBVIOUS
<1>1. Empty \in Form
  BY DEF Empty, Form, SomeWard, WardStatus
<1>2. WizardTypeOK
  <2>1. media \in Seq(0..MaxFiled) /\ filed \in Seq(Filed)
    BY DEF WizardInit
  <2>2. QED
    BY <1>1, <2>1 DEF WizardInit, WizardTypeOK
<1>3. Pending = {}
  BY DEF WizardInit, Pending
<1>4. RoomForPhotos
  BY <1>3, FS_EmptySet, WizardAssumption DEF WizardInit, RoomForPhotos
<1>5. WardIsOfPlace /\ FiledAsReviewed
  BY DEF WizardInit, Empty, WardIsOfPlace, FiledAsReviewed
<1>6. QED
  BY <1>2, <1>4, <1>5 DEF WizardInv

LEMMA WizardStep == WizardInv /\ [WizardNext]_wizardVars => WizardInv'
<1> SUFFICES ASSUME WizardInv, [WizardNext]_wizardVars PROVE WizardInv'
  OBVIOUS
<1>1. CASE WizardNext
  BY <1>1, FormSteps, PlaceSteps, PhotoSteps, SubmissionSteps DEF WizardNext
<1>2. CASE UNCHANGED wizardVars
  BY <1>2 DEF wizardVars, formVars, storedVars, WizardInv, WizardTypeOK, RoomForPhotos, Pending,
              WardIsOfPlace, FiledAsReviewed, AsReviewed, GeographicWard
<1>3. QED
  BY <1>1, <1>2

\* The types of the wizard and what its inductive invariant adds to them: a
\* ward that is shown as detected is that of the place, whatever lookups and
\* positions are still to come.
THEOREM WizardIsSound == WizardSpec => []WizardInv
BY WizardStart, WizardStep, PTL DEF WizardSpec

\* Whatever was reviewed is what is filed, with any number of late answers,
\* places picked meanwhile, uploads and reports: the ward that was shown as
\* detected, and a place unless a position failed during a review.
THEOREM ReportsAreFiledAsReviewed == WizardSpec => []FiledAsReviewed
<1>1. WizardInv => FiledAsReviewed
  BY DEF WizardInv
<1>2. QED
  BY <1>1, WizardIsSound, PTL

-----------------------------------------------------------------------------
(* The messages *)

NotStored == {a \in uploads : a.file = 0}
RoomForFiles == IsFiniteSet(uploads) /\ Len(files) + Cardinality(NotStored) <= MaxFiles

FilesAreKnown ==
  /\ \A u \in Users : pane[u].staged \subseteq DOMAIN files
  /\ \A a \in uploads : a.file # 0 => a.file \in DOMAIN files
  /\ \A s \in sends : s.files \subseteq DOMAIN files
  /\ \A i \in DOMAIN messages : messages[i].files \subseteq DOMAIN files

\* A pane shows, loads and waits only while it is there.
PaneIsThere ==
  /\ \A u \in Users : pane[u].shown # Nothing \/ pane[u].step # "idle" => pane[u].at # Nothing
  /\ \A s \in sends : s.awaited => pane[s.by].at # Nothing

\* A send that has read its attachments still has them when it commits, unless
\* it overlapped with another one of the same file.
SendIsEntitled(s) ==
  s.phase = "open" => \A f \in s.files :
    /\ files[f].about = s.about /\ files[f].by = s.by
    /\ ~lapped => files[f].message = 0
OpenSends ==
  /\ \A s \in sends : SendIsEntitled(s)
  /\ ~lapped => \A s, q \in sends :
       s.phase = "open" /\ q.phase = "open" /\ s.files \cap q.files # {} => s = q

ThreadInv ==
  /\ ThreadTypeOK /\ PaneIsThere
  /\ RoomForFiles /\ FilesAreKnown /\ OpenSends /\ AttachmentsStay

LEMMA ImageIsNoLarger ==
  ASSUME NEW S, IsFiniteSet(S), NEW T, NEW f \in [S -> T], T = {f[x] : x \in S}
  PROVE  IsFiniteSet(T) /\ Cardinality(T) <= Cardinality(S)
         /\ Cardinality(T) \in Nat /\ Cardinality(S) \in Nat
<1>1. f \in Surjection(S, T)
  BY DEF Surjection
<1>2. QED
  BY <1>1, FS_Surjection, FS_CardinalityType

LEMMA OneMore ==
  ASSUME NEW S, IsFiniteSet(S), NEW x
  PROVE  /\ IsFiniteSet(S \cup {x})
         /\ Cardinality(S \cup {x}) <= Cardinality(S) + 1
         /\ Cardinality(S \cup {x}) \in Nat /\ Cardinality(S) \in Nat
<1>1. /\ IsFiniteSet(S \cup {x})
      /\ \/ Cardinality(S \cup {x}) = Cardinality(S)
         \/ Cardinality(S \cup {x}) = Cardinality(S) + 1
  BY FS_AddElement
<1>2. Cardinality(S) \in Nat /\ Cardinality(S \cup {x}) \in Nat
  BY <1>1, FS_CardinalityType
<1>3. QED
  BY <1>1, <1>2

LEMMA RoomForFilesKept ==
  ASSUME RoomForFiles, uploads' = uploads, Len(files') = Len(files)
  PROVE  RoomForFiles'
BY DEF RoomForFiles, NotStored

\* Nothing new is stored or about to be.
LEMMA SameMessages ==
  ASSUME AttachmentsStay, OpenSends,
         files' = files, messages' = messages, lapped' = lapped,
         \A s \in sends' : s.phase = "open" => s \in sends
  PROVE  AttachmentsStay' /\ OpenSends'
BY DEF AttachmentsStay, OpenSends, SendIsEntitled

LEMMA SameOfSend ==
  ASSUME NEW s \in Sending
  PROVE  /\ \A phase \in {"sent", "open", "stored", "refused"} :
              /\ [s EXCEPT !.phase = phase] \in Sending
              /\ [s EXCEPT !.phase = phase].phase = phase
              /\ [s EXCEPT !.phase = phase].files = s.files
         /\ \A first \in BOOLEAN : LET q == [s EXCEPT !.phase = "open", !.first = first] IN
              /\ q \in Sending /\ q.phase = "open" /\ q.files = s.files
              /\ q.about = s.about /\ q.by = s.by
         /\ \A b \in BOOLEAN : LET q == [s EXCEPT !.awaited = b] IN
              /\ q \in Sending /\ q.phase = s.phase /\ q.files = s.files
              /\ q.about = s.about /\ q.by = s.by /\ q.awaited = b
BY DEF Sending

LEMMA PaneSteps ==
  ASSUME ThreadInv, NEW u \in Users,
         \/ \E c \in Threads : Select(u, c)
         \/ Loaded(u) \/ LoadFails(u) \/ MarkRead(u)
         \/ \E f \in DOMAIN files : Unstage(u, f)
  PROVE  ThreadInv'
<1> USE DEF ThreadInv
<1>0. /\ pane \in [Users -> Pane] /\ pane[u] \in Pane
      /\ reads \cup told \subseteq (DOMAIN messages) \X Users
  BY DEF ThreadTypeOK
<1>1. RoomForFiles' /\ AttachmentsStay' /\ OpenSends'
  <2>1. /\ uploads' = uploads /\ files' = files /\ messages' = messages /\ lapped' = lapped
        /\ sends' = sends
    BY DEF Select, Loaded, LoadFails, MarkRead, Unstage, serverVars
  <2>2. QED
    BY <2>1, RoomForFilesKept, SameMessages
<1>2. PICK p \in Pane :
        /\ pane' = [pane EXCEPT ![u] = p] /\ p.staged \subseteq pane[u].staged
        /\ p.shown # Nothing \/ p.step # "idle" => p.at # Nothing
        /\ pane[u].at # Nothing => p.at # Nothing
  <2>1. CASE \E c \in Threads : Select(u, c)
    <3>1. PICK c \in Threads : Select(u, c)
      BY <2>1
    <3>2. [at |-> c, shown |-> Nothing, step |-> "loading", staged |-> {}] \in Pane /\ c # Nothing
      BY ThreadAssumption DEF Pane
    <3>3. QED
      BY <3>1, <3>2 DEF Select
  <2>2. CASE Loaded(u)
    <3>1. \A step \in {"idle", "marking"} :
            LET p == [pane[u] EXCEPT !.shown = pane[u].at, !.step = step] IN
            p \in Pane /\ p.staged = pane[u].staged /\ p.at = pane[u].at
      BY <1>0 DEF Pane
    <3>2. \E step \in {"idle", "marking"} :
            pane' = [pane EXCEPT ![u] = [pane[u] EXCEPT !.shown = pane[u].at, !.step = step]]
      BY <1>0, <2>2 DEF Loaded
    <3>3. pane[u].at # Nothing
      BY <2>2 DEF Loaded, PaneIsThere
    <3>4. QED
      BY <3>1, <3>2, <3>3
  <2>3. CASE LoadFails(u)
    <3>1. LET p == [pane[u] EXCEPT !.step = "idle"] IN
          p \in Pane /\ p.staged = pane[u].staged /\ p.at = pane[u].at /\ p.shown = pane[u].shown
      BY <1>0 DEF Pane
    <3>2. QED
      BY <2>3, <3>1 DEF LoadFails, PaneIsThere
  <2>4. CASE MarkRead(u)
    <3>1. LET p == [pane[u] EXCEPT !.step = "idle"] IN
          p \in Pane /\ p.staged = pane[u].staged /\ p.at = pane[u].at /\ p.shown = pane[u].shown
      BY <1>0 DEF Pane
    <3>4. LET p == [pane[u] EXCEPT !.shown = pane[u].at, !.step = "idle"] IN
          p \in Pane /\ p.staged = pane[u].staged /\ p.at = pane[u].at /\ p.shown = pane[u].at
      BY <1>0 DEF Pane
    <3>2. \/ pane' = [pane EXCEPT ![u] = [pane[u] EXCEPT !.step = "idle"]]
          \/ pane' = [pane EXCEPT ![u] = [pane[u] EXCEPT !.shown = pane[u].at, !.step = "idle"]]
      BY <1>0, <2>4 DEF MarkRead
    <3>3. pane[u].at # Nothing
      BY <2>4 DEF MarkRead, PaneIsThere
    <3>5. QED
      BY <3>1, <3>2, <3>3, <3>4
  <2>5. CASE \E f \in DOMAIN files : Unstage(u, f)
    <3>1. PICK f \in DOMAIN files : Unstage(u, f)
      BY <2>5
    <3>2. LET p == [pane[u] EXCEPT !.staged = @ \ {f}] IN
          /\ p \in Pane /\ p.staged \subseteq pane[u].staged
          /\ p.at = pane[u].at /\ p.shown = pane[u].shown /\ p.step = pane[u].step
      BY <1>0 DEF Pane
    <3>3. pane' = [pane EXCEPT ![u] = [pane[u] EXCEPT !.staged = @ \ {f}]]
      BY <1>0, <3>1 DEF Unstage
    <3>4. QED
      BY <3>2, <3>3 DEF PaneIsThere
  <2>6. QED
    BY <2>1, <2>2, <2>3, <2>4, <2>5
<1>3. reads' \subseteq (DOMAIN messages) \X Users
  <2>1. CASE MarkRead(u)
    <3>1. Unread(u, pane[u].at) \subseteq DOMAIN messages
      BY DEF Unread, NotMine
    <3>2. QED
      BY <1>0, <2>1, <3>1 DEF MarkRead
  <2>2. CASE ~MarkRead(u)
    BY <1>0, <2>2 DEF Select, Loaded, LoadFails, Unstage, serverVars
  <2>3. QED
    BY <2>1, <2>2
<1>4. ThreadTypeOK'
  <2>1. /\ opened' = opened /\ messages' = messages /\ files' = files /\ told' = told
        /\ sends' = sends /\ uploads' = uploads /\ lapped' = lapped
    BY DEF Select, Loaded, LoadFails, MarkRead, Unstage, serverVars
  <2>2. pane' \in [Users -> Pane]
    BY <1>0, <1>2
  <2>3. QED
    BY <1>0, <1>3, <2>1, <2>2 DEF ThreadTypeOK
<1>5. FilesAreKnown'
  <2>1. /\ messages' = messages /\ files' = files /\ sends' = sends /\ uploads' = uploads
    BY DEF Select, Loaded, LoadFails, MarkRead, Unstage, serverVars
  <2>2. \A v \in Users : pane'[v].staged \subseteq pane[v].staged
    BY <1>0, <1>2
  <2>3. QED
    BY <2>1, <2>2 DEF FilesAreKnown
<1>6. PaneIsThere'
  <2>1. sends' = sends
    BY DEF Select, Loaded, LoadFails, MarkRead, Unstage
  <2>2. \A s \in sends : s.by \in Users
    BY DEF ThreadTypeOK, Sending
  <2>3. QED
    BY <1>0, <1>2, <2>1, <2>2 DEF PaneIsThere
<1>7. QED
  BY <1>1, <1>4, <1>5, <1>6

LEMMA LeaveStep ==
  ASSUME ThreadInv, NEW u \in Users, Leave(u)
  PROVE  ThreadInv'
<1> USE DEF ThreadInv
<1>0. /\ pane \in [Users -> Pane] /\ Closed \in Pane /\ Closed.staged = {}
      /\ Closed.shown = Nothing /\ Closed.step = "idle"
  BY DEF ThreadTypeOK, Pane, Closed
<1>1. pane' = [pane EXCEPT ![u] = Closed]
  BY DEF Leave
<1>2. ASSUME NEW s \in sends
      PROVE  LET q == [s EXCEPT !.awaited = @ /\ s.by # u] IN
               /\ q \in Sending /\ q.phase = s.phase /\ q.files = s.files
               /\ q.about = s.about /\ q.by = s.by /\ (q.awaited => s.awaited /\ s.by # u)
  <2> DEFINE b == s.awaited /\ s.by # u
  <2>1. s \in Sending /\ b \in BOOLEAN
    BY DEF ThreadTypeOK
  <2> HIDE DEF b
  <2>2. LET q == [s EXCEPT !.awaited = b] IN
          /\ q \in Sending /\ q.phase = s.phase /\ q.files = s.files
          /\ q.about = s.about /\ q.by = s.by /\ (q.awaited => b)
    BY <2>1 DEF Sending
  <2>3. QED
    BY <2>2 DEF b
<1>3. ASSUME NEW a \in uploads
      PROVE  LET b == [a EXCEPT !.awaited = @ /\ a.by # u] IN
               b \in Uploading /\ b.file = a.file
  <2>1. a \in Uploading /\ (a.awaited /\ a.by # u) \in BOOLEAN
    BY DEF ThreadTypeOK
  <2>2. QED
    BY <2>1 DEF Uploading
<1>4. /\ sends' = {[s EXCEPT !.awaited = @ /\ s.by # u] : s \in sends}
      /\ uploads' = {[a EXCEPT !.awaited = @ /\ a.by # u] : a \in uploads}
      /\ opened' = opened /\ messages' = messages /\ files' = files
      /\ reads' = reads /\ told' = told /\ lapped' = lapped
  BY DEF Leave, serverVars
<1>5. ASSUME NEW q \in sends'
       PROVE  \E s \in sends :
                /\ q \in Sending /\ q.phase = s.phase /\ q.files = s.files
                /\ q.about = s.about /\ q.by = s.by /\ (q.awaited => s.awaited /\ s.by # u)
  <2>1. PICK s \in sends : q = [s EXCEPT !.awaited = @ /\ s.by # u]
    BY <1>4
  <2>2. QED
    BY <1>2, <2>1
<1>6. ASSUME NEW b \in uploads'
       PROVE  \E a \in uploads : b \in Uploading /\ b.file = a.file
  <2>1. PICK a \in uploads : b = [a EXCEPT !.awaited = @ /\ a.by # u]
    BY <1>4
  <2>2. QED
    BY <1>3, <2>1
<1>7. ThreadTypeOK'
  <2>1. sends' \subseteq Sending
    BY <1>5
  <2>2. uploads' \subseteq Uploading
    BY <1>6
  <2>3. pane' \in [Users -> Pane]
    BY <1>0, <1>1
  <2>4. QED
    BY <1>4, <2>1, <2>2, <2>3 DEF ThreadTypeOK
<1>8. RoomForFiles'
  <2> DEFINE f == [a \in uploads |-> [a EXCEPT !.awaited = @ /\ a.by # u]]
             g == [a \in NotStored |-> [a EXCEPT !.awaited = @ /\ a.by # u]]
  <2>1. IsFiniteSet(uploads')
    <3>1. uploads' = {f[a] : a \in uploads}
      BY <1>4
    <3>2. f \in [uploads -> uploads']
      BY <1>4
    <3>3. IsFiniteSet(uploads)
      BY DEF RoomForFiles
    <3> HIDE DEF f
    <3>4. QED
      BY <3>1, <3>2, <3>3, ImageIsNoLarger
  <2>2. NotStored' = {g[a] : a \in NotStored}
    <3>1. ASSUME NEW b \in NotStored'
          PROVE  \E a \in NotStored : b = g[a]
      <4>1. PICK a \in uploads : b = [a EXCEPT !.awaited = @ /\ a.by # u]
        BY <1>4 DEF NotStored
      <4>2. QED
        BY <1>3, <4>1 DEF NotStored
    <3>2. ASSUME NEW a \in NotStored
          PROVE  g[a] \in NotStored'
      BY <1>3, <1>4 DEF NotStored
    <3>3. QED
      BY <3>1, <3>2
  <2>3. IsFiniteSet(NotStored)
    BY FS_Subset DEF RoomForFiles, NotStored
  <2>4. /\ Cardinality(NotStored') <= Cardinality(NotStored)
        /\ Cardinality(NotStored') \in Nat /\ Cardinality(NotStored) \in Nat
    BY <2>2, <2>3, ImageIsNoLarger, g \in [NotStored -> NotStored']
  <2>5. Len(files) \in Nat /\ MaxFiles \in Nat
    BY ThreadAssumption DEF ThreadTypeOK
  <2>6. QED
    BY <1>4, <2>1, <2>4, <2>5 DEF RoomForFiles
<1>9. FilesAreKnown'
  <2>1. \A v \in Users : pane'[v].staged \subseteq pane[v].staged
    BY <1>0, <1>1
  <2>2. \A s \in sends' : s.files \subseteq DOMAIN files
    BY <1>5 DEF FilesAreKnown
  <2>3. \A a \in uploads' : a.file # 0 => a.file \in DOMAIN files
    BY <1>6 DEF FilesAreKnown
  <2>4. QED
    BY <1>4, <2>1, <2>2, <2>3 DEF FilesAreKnown
<1>10. OpenSends'
  <2>1. \A s \in sends' : SendIsEntitled(s)'
    BY <1>4, <1>5 DEF OpenSends, SendIsEntitled
  <2>2. ASSUME NEW s \in sends', NEW q \in sends', ~lapped,
               s.phase = "open", q.phase = "open", s.files \cap q.files # {}
        PROVE  s = q
    <3>1. PICK r \in sends : s = [r EXCEPT !.awaited = @ /\ r.by # u]
      BY <1>4
    <3>2. PICK t \in sends : q = [t EXCEPT !.awaited = @ /\ t.by # u]
      BY <1>4
    <3>3. r = t
      BY <1>2, <2>2, <3>1, <3>2 DEF OpenSends
    <3>4. QED
      BY <3>1, <3>2, <3>3
  <2>3. QED
    BY <1>4, <2>1, <2>2 DEF OpenSends
<1>11. AttachmentsStay'
  BY <1>4 DEF AttachmentsStay
<1>12. PaneIsThere'
  <2>1. \A s \in sends : s.by \in Users
    BY DEF ThreadTypeOK, Sending
  <2>2. \A v \in Users : pane'[v] = IF v = u THEN Closed ELSE pane[v]
    BY <1>0, <1>1
  <2>3. QED
    BY <1>0, <1>5, <2>1, <2>2 DEF PaneIsThere
<1>13. QED
  BY <1>7, <1>8, <1>9, <1>10, <1>11, <1>12

LEMMA UploadSteps ==
  ASSUME ThreadInv,
         \/ \E u \in Users : HandleFile(u)
         \/ \E a \in uploads : StoreFile(a) \/ Staged(a) \/ UploadFails(a)
  PROVE  ThreadInv'
<1> USE DEF ThreadInv
<1>0. /\ pane \in [Users -> Pane] /\ files \in Seq(Attachment) /\ Len(files) \in Nat
      /\ DOMAIN files = 1..Len(files) /\ MaxFiles \in Nat /\ MaxMessages \in Nat
  BY ThreadAssumption DEF ThreadTypeOK
<1>1. IsFiniteSet(uploads) /\ IsFiniteSet(NotStored) /\ Cardinality(NotStored) \in Nat
  BY FS_Subset, FS_CardinalityType DEF RoomForFiles, NotStored
<1>8. \A s \in sends : s.by \in Users
  BY DEF ThreadTypeOK, Sending
<1>2. ASSUME NEW a \in uploads, uploads' = uploads \ {a}, files' = files
      PROVE  RoomForFiles'
  <2>1. IsFiniteSet(uploads') /\ NotStored' \subseteq NotStored
    BY <1>1, <1>2, FS_RemoveElement DEF NotStored
  <2>2. Cardinality(NotStored') \in Nat /\ Cardinality(NotStored') <= Cardinality(NotStored)
    BY <1>1, <2>1, FS_Subset, FS_CardinalityType
  <2>3. QED
    BY <1>0, <1>1, <1>2, <2>1, <2>2 DEF RoomForFiles
<1>3. ASSUME NEW u \in Users, HandleFile(u)
      PROVE  ThreadInv'
  <2> DEFINE a == [by |-> u, about |-> pane[u].at, file |-> 0, awaited |-> TRUE]
  <2>2. uploads' = uploads \cup {a}
    BY <1>3 DEF HandleFile
  <2>3. a.file = 0
    OBVIOUS
  <2>4. a \in Uploading
    BY <1>0, <1>3 DEF HandleFile, Uploading, Pane, PaneIsThere
  <2> HIDE DEF a
  <2>5. ThreadTypeOK'
    BY <1>3, <2>2, <2>4 DEF HandleFile, ThreadTypeOK, serverVars
  <2>6. IsFiniteSet(uploads') /\ NotStored' = NotStored \cup {a}
    BY <1>1, <2>2, <2>3, FS_AddElement DEF NotStored
  <2>7. /\ Cardinality(NotStored \cup {a}) <= Cardinality(NotStored) + 1
        /\ Cardinality(NotStored \cup {a}) \in Nat
    BY <1>1, OneMore
  <2>8. Cardinality(NotStored) <= Cardinality(uploads) /\ Cardinality(uploads) \in Nat
    BY <1>1, FS_Subset, FS_CardinalityType DEF NotStored
  <2>9. RoomForFiles'
    <3>1. Len(files) + Cardinality(uploads) < MaxFiles /\ files' = files
      BY <1>3 DEF HandleFile, serverVars
    <3>2. QED
      BY <1>0, <1>1, <2>6, <2>7, <2>8, <3>1 DEF RoomForFiles
  <2>10. FilesAreKnown'
    BY <1>3, <2>2, <2>3 DEF HandleFile, FilesAreKnown, serverVars
  <2>12. PaneIsThere'
    BY <1>3 DEF HandleFile, PaneIsThere
  <2>13. QED
    BY <1>3, <2>12, <2>5, <2>9, <2>10, SameMessages DEF HandleFile, serverVars
<1>4. ASSUME NEW a \in uploads, StoreFile(a)
      PROVE  ThreadInv'
  <2> DEFINE b == [a EXCEPT !.file = Len(files) + 1]
             row == [about |-> a.about, by |-> a.by, message |-> 0]
  <2>1. a \in Uploading /\ a \in NotStored
    BY <1>4 DEF StoreFile, NotStored, ThreadTypeOK
  <2>2. row \in Attachment /\ row.message = 0
    BY <1>0, <2>1 DEF Uploading, Attachment
  <2>3. Cardinality(NotStored \ {a}) = Cardinality(NotStored) - 1
        /\ IsFiniteSet(NotStored \ {a}) /\ Cardinality(NotStored \ {a}) \in Nat
    BY <1>1, <2>1, FS_RemoveElement, FS_CardinalityType
  <2>4. Len(files) + 1 \in 0..MaxFiles
    BY <1>0, <1>1, <2>3 DEF RoomForFiles
  <2>5. b \in Uploading /\ b.file = Len(files) + 1
    BY <2>1, <2>4 DEF Uploading
  <2>6. files' = Append(files, row) /\ uploads' = (uploads \ {a}) \cup {b}
    BY <1>4 DEF StoreFile
  <2> HIDE DEF row, b
  <2>7. /\ files' \in Seq(Attachment) /\ Len(files') = Len(files) + 1
        /\ DOMAIN files' = 1..(Len(files) + 1)
        /\ \A f \in DOMAIN files : files'[f] = files[f]
        /\ files'[Len(files) + 1] = row
    BY <1>0, <2>2, <2>6
  <2>8. ThreadTypeOK'
    BY <1>4, <2>5, <2>6, <2>7 DEF StoreFile, ThreadTypeOK
  <2>9. RoomForFiles'
    <3>1. IsFiniteSet(uploads')
      BY <1>1, <2>6, FS_AddElement, FS_RemoveElement
    <3>2. b.file # 0
      BY <1>0, <2>5
    <3>3. NotStored' = NotStored \ {a}
      BY <2>6, <3>2 DEF NotStored
    <3>4. QED
      BY <1>0, <1>1, <2>3, <2>7, <3>1, <3>3 DEF RoomForFiles
  <2>10. FilesAreKnown'
    <3>1. DOMAIN files \subseteq DOMAIN files' /\ Len(files) + 1 \in DOMAIN files'
      BY <1>0, <2>7
    <3>2. QED
      BY <1>4, <2>5, <2>6, <3>1 DEF StoreFile, FilesAreKnown
  <2>11. OpenSends'
    BY <1>4, <2>7 DEF StoreFile, OpenSends, SendIsEntitled, FilesAreKnown
  <2>12. AttachmentsStay'
    <3>1. messages' = messages /\ lapped' = lapped
      BY <1>4 DEF StoreFile
    <3>2. \A i \in DOMAIN messages : messages[i].files \subseteq DOMAIN files
      BY DEF FilesAreKnown
    <3>3. \A i \in DOMAIN messages : \A f \in messages[i].files :
            files'[f].about = messages[i].about /\ files'[f].by = messages[i].author
      BY <2>7, <3>2 DEF AttachmentsStay
    <3>4. ASSUME ~lapped, NEW f \in DOMAIN files'
          PROVE  {i \in DOMAIN messages : f \in messages[i].files} = {files'[f].message} \ {0}
      <4>1. CASE f \in DOMAIN files
        BY <2>7, <3>4, <4>1 DEF AttachmentsStay
      <4>2. CASE f = Len(files) + 1
        <5>1. f \notin DOMAIN files
          BY <1>0, <4>2
        <5>2. {i \in DOMAIN messages : f \in messages[i].files} = {}
          BY <3>2, <5>1
        <5>3. QED
          BY <2>2, <2>7, <4>2, <5>2
      <4>3. QED
        BY <1>0, <2>7, <4>1, <4>2
    <3>5. QED
      BY <3>1, <3>3, <3>4 DEF AttachmentsStay
  <2>13. PaneIsThere'
    BY <1>4 DEF StoreFile, PaneIsThere
  <2>14. QED
    BY <2>8, <2>9, <2>10, <2>11, <2>12, <2>13
<1>5. ASSUME NEW a \in uploads, Staged(a)
      PROVE  ThreadInv'
  <2>1. a \in Uploading /\ a.by \in Users /\ a.file \in DOMAIN files /\ a.file \in File
    BY <1>5 DEF Staged, ThreadTypeOK, FilesAreKnown, Uploading, File
  <2>2. LET p == [pane[a.by] EXCEPT !.staged = @ \cup {a.file}] IN
        /\ p \in Pane /\ p.staged = pane[a.by].staged \cup {a.file}
        /\ p.at = pane[a.by].at /\ p.shown = pane[a.by].shown /\ p.step = pane[a.by].step
    BY <1>0, <2>1 DEF Pane
  <2>3. \/ pane' = pane
        \/ pane' = [pane EXCEPT ![a.by] = [pane[a.by] EXCEPT !.staged = @ \cup {a.file}]]
    BY <1>0, <1>5, <2>1 DEF Staged
  <2>4. /\ pane' \in [Users -> Pane]
        /\ \A u \in Users :
             /\ pane'[u].staged \subseteq pane[u].staged \cup {a.file}
             /\ pane'[u].at = pane[u].at /\ pane'[u].shown = pane[u].shown
             /\ pane'[u].step = pane[u].step
    BY <1>0, <2>1, <2>2, <2>3
  <2>5. ThreadTypeOK'
    BY <1>5, <2>4 DEF Staged, ThreadTypeOK, serverVars
  <2>6. FilesAreKnown'
    BY <1>5, <2>1, <2>4 DEF Staged, FilesAreKnown, serverVars
  <2>7. PaneIsThere'
    BY <1>5, <1>8, <2>4 DEF Staged, PaneIsThere
  <2>8. QED
    BY <1>2, <1>5, <2>5, <2>6, <2>7, SameMessages DEF Staged, serverVars
<1>6. ASSUME NEW a \in uploads, UploadFails(a)
      PROVE  ThreadInv'
  <2>1. ThreadTypeOK' /\ FilesAreKnown' /\ PaneIsThere'
    BY <1>6 DEF UploadFails, ThreadTypeOK, FilesAreKnown, PaneIsThere, serverVars
  <2>2. QED
    BY <1>2, <1>6, <2>1, SameMessages DEF UploadFails, serverVars
<1>7. QED
  BY <1>3, <1>4, <1>5, <1>6

\* A send that changes neither its files nor what has been stored.
LEMMA SendChanged ==
  ASSUME ThreadInv, NEW s \in sends, NEW q \in Sending,
         sends' = (sends \ {s}) \cup {q}, q.files = s.files,
         q.awaited => s.awaited /\ q.by = s.by,
         pane' = pane, files' = files, messages' = messages, uploads' = uploads
  PROVE  sends' \subseteq Sending /\ FilesAreKnown' /\ PaneIsThere'
BY DEF ThreadInv, ThreadTypeOK, FilesAreKnown, PaneIsThere

LEMMA HandleSendStep ==
  ASSUME ThreadInv, NEW u \in Users, HandleSend(u)
  PROVE  ThreadInv'
<1> USE DEF ThreadInv
<1>1. PICK id \in 1..MaxSends :
        sends' = sends \cup {[id |-> id, by |-> u, about |-> pane[u].at, files |-> pane[u].staged,
                              phase |-> "sent", first |-> FALSE, awaited |-> TRUE]}
  BY DEF HandleSend
<1> DEFINE s == [id |-> id, by |-> u, about |-> pane[u].at, files |-> pane[u].staged,
                 phase |-> "sent", first |-> FALSE, awaited |-> TRUE]
<1>2. pane[u] \in Pane /\ pane[u].at # Nothing
  BY DEF ThreadTypeOK, HandleSend, PaneIsThere
<1>3. s \in Sending /\ s.phase # "open" /\ s.files = pane[u].staged /\ s.by = u
  BY <1>2 DEF Sending, Pane
<1>4. sends' = sends \cup {s}
  BY <1>1
<1> HIDE DEF s
<1>5. /\ pane' = pane /\ uploads' = uploads /\ opened' = opened /\ messages' = messages
      /\ files' = files /\ reads' = reads /\ told' = told /\ lapped' = lapped
  BY DEF HandleSend, serverVars
<1>6. ThreadTypeOK'
  BY <1>3, <1>4, <1>5 DEF ThreadTypeOK
<1>7. FilesAreKnown' /\ PaneIsThere'
  BY <1>2, <1>3, <1>4, <1>5 DEF FilesAreKnown, PaneIsThere
<1>8. RoomForFiles' /\ AttachmentsStay' /\ OpenSends'
  BY <1>3, <1>4, <1>5, RoomForFilesKept, SameMessages
<1>9. QED
  BY <1>6, <1>7, <1>8

LEMMA BeginStep ==
  ASSUME ThreadInv, NEW s \in sends, BeginSend(s)
  PROVE  ThreadInv'
<1> USE DEF ThreadInv
<1>1. s \in Sending /\ s.phase = "sent"
  BY DEF BeginSend, ThreadTypeOK
<1>2. /\ pane' = pane /\ uploads' = uploads /\ opened' = opened /\ messages' = messages
      /\ files' = files /\ reads' = reads /\ told' = told
  BY DEF BeginSend, serverVars
<1>3. CASE \A f \in s.files : Usable(s, f)
  <2>1. PICK q \in Sending :
          /\ q.phase = "open" /\ q.files = s.files
          /\ q.about = s.about /\ q.by = s.by /\ q.awaited = s.awaited
          /\ sends' = (sends \ {s}) \cup {q}
    <3>1. (s.about \notin opened) \in BOOLEAN
      OBVIOUS
    <3>2. LET q == [s EXCEPT !.phase = "open", !.first = s.about \notin opened] IN
          /\ q \in Sending /\ q.phase = "open" /\ q.files = s.files
          /\ q.about = s.about /\ q.by = s.by /\ q.awaited = s.awaited
      BY <1>1, <3>1 DEF Sending
    <3>3. QED
      BY <1>3, <3>2 DEF BeginSend
  <2>2. lapped' = (lapped \/ \E r \in sends : r.phase = "open" /\ r.files \cap s.files # {})
    BY <1>3 DEF BeginSend
  <2>3. lapped' \in BOOLEAN /\ (lapped => lapped')
    BY <2>2, Zenon DEF ThreadTypeOK
  <2>4. ~lapped' => \A r \in sends : r.phase = "open" => r.files \cap s.files = {}
    BY <2>2, Zenon
  <2>5. sends' \subseteq Sending /\ FilesAreKnown' /\ PaneIsThere'
    BY <1>2, <2>1, <2>2, SendChanged
  <2>6. ThreadTypeOK'
    BY <1>2, <2>3, <2>5 DEF ThreadTypeOK
  <2>7. \A r \in sends' : SendIsEntitled(r)'
    <3>1. \A r \in sends : SendIsEntitled(r)'
      BY <1>2, <2>3 DEF OpenSends, SendIsEntitled
    <3>2. SendIsEntitled(q)'
      BY <1>2, <1>3, <2>1 DEF SendIsEntitled, Usable
    <3>3. QED
      BY <2>1, <3>1, <3>2
  <2>8. OpenSends'
    <3>1. ASSUME ~lapped', NEW r \in sends', NEW t \in sends',
                 r.phase = "open", t.phase = "open", r.files \cap t.files # {}
          PROVE  r = t
      BY <1>2, <2>1, <2>2, <2>3, <2>4, <3>1 DEF OpenSends
    <3>2. QED
      BY <2>7, <3>1 DEF OpenSends
  <2>9. AttachmentsStay'
    BY <1>2, <2>3 DEF AttachmentsStay
  <2>10. QED
    BY <1>2, <2>5, <2>6, <2>8, <2>9, RoomForFilesKept
<1>4. CASE ~ \A f \in s.files : Usable(s, f)
  <2> DEFINE q == [s EXCEPT !.phase = "refused"]
  <2>1. /\ q \in Sending /\ q.phase = "refused" /\ q.files = s.files
        /\ q.by = s.by /\ q.awaited = s.awaited
    BY <1>1 DEF Sending
  <2>2. sends' = (sends \ {s}) \cup {q} /\ lapped' = lapped
    BY <1>4 DEF BeginSend, Phase
  <2> HIDE DEF q
  <2>3. sends' \subseteq Sending /\ FilesAreKnown' /\ PaneIsThere'
    BY <1>2, <2>1, <2>2, SendChanged
  <2>4. ThreadTypeOK'
    BY <1>2, <2>2, <2>3 DEF ThreadTypeOK
  <2>5. QED
    BY <1>2, <2>1, <2>2, <2>3, <2>4, RoomForFilesKept, SameMessages
<1>5. QED
  BY <1>3, <1>4

LEMMA CommitStep ==
  ASSUME ThreadInv, NEW s \in sends, CommitSend(s)
  PROVE  ThreadInv'
<1> USE DEF ThreadInv
<1>1. s \in Sending /\ s.phase = "open" /\ s.about \in Threads /\ s.by \in Users
  BY DEF CommitSend, ThreadTypeOK, Sending
<1>2. pane' = pane /\ uploads' = uploads /\ lapped' = lapped
  BY DEF CommitSend
<1>3. CASE s.first /\ s.about \in opened
  <2> DEFINE q == [s EXCEPT !.phase = "refused"]
  <2>1. /\ q \in Sending /\ q.phase = "refused" /\ q.files = s.files
        /\ q.by = s.by /\ q.awaited = s.awaited
    BY <1>1 DEF Sending
  <2>2. /\ sends' = (sends \ {s}) \cup {q} /\ opened' = opened /\ messages' = messages
        /\ files' = files /\ reads' = reads /\ told' = told
    BY <1>3 DEF CommitSend, Phase, serverVars
  <2> HIDE DEF q
  <2>3. sends' \subseteq Sending /\ FilesAreKnown' /\ PaneIsThere'
    BY <1>2, <2>1, <2>2, SendChanged
  <2>4. ThreadTypeOK'
    BY <1>2, <2>2, <2>3 DEF ThreadTypeOK
  <2>5. QED
    BY <1>2, <2>1, <2>2, <2>3, <2>4, RoomForFilesKept, SameMessages
<1>4. CASE ~(s.first /\ s.about \in opened)
  <2> DEFINE q == [s EXCEPT !.phase = "stored"]
             id == Len(messages) + 1
             m == [about |-> s.about, author |-> s.by, files |-> s.files]
  <2>1. /\ q \in Sending /\ q.phase = "stored" /\ q.files = s.files
        /\ q.by = s.by /\ q.awaited = s.awaited
    BY <1>1 DEF Sending
  <2>2. m \in Message /\ m.about = s.about /\ m.author = s.by /\ m.files = s.files
    BY <1>1 DEF Message, Sending
  <2>3. /\ id <= MaxMessages
        /\ opened' = opened \cup {s.about}
        /\ messages' = Append(messages, m)
        /\ files' = [f \in DOMAIN files |->
                       IF f \in s.files THEN [files[f] EXCEPT !.message = id] ELSE files[f]]
        /\ told' = told \cup ({id} \X (Recipients(s.by, s.about) \ {s.by}))
        /\ sends' = (sends \ {s}) \cup {q}
        /\ reads' = reads
    BY <1>4 DEF CommitSend, Phase
  <2>4. /\ messages \in Seq(Message) /\ Len(messages) \in Nat /\ DOMAIN messages = 1..Len(messages)
        /\ files \in Seq(Attachment) /\ Len(files) \in Nat /\ DOMAIN files = 1..Len(files)
        /\ MaxMessages \in Nat
    BY ThreadAssumption DEF ThreadTypeOK
  <2>5. id \in 0..MaxMessages /\ id # 0 /\ id \notin DOMAIN messages
    BY <2>3, <2>4
  <2> HIDE DEF q, m
  <2>6. /\ messages' \in Seq(Message) /\ DOMAIN messages' = DOMAIN messages \cup {id}
        /\ \A i \in DOMAIN messages : messages'[i] = messages[i]
        /\ messages'[id] = m
    BY <2>2, <2>3, <2>4
  <2>7. \A f \in DOMAIN files :
          /\ files'[f] \in Attachment
          /\ files'[f].about = files[f].about /\ files'[f].by = files[f].by
          /\ files'[f].message = IF f \in s.files THEN id ELSE files[f].message
    <3>1. \A f \in DOMAIN files : files[f] \in Attachment
      BY <2>4
    <3>2. \A f \in DOMAIN files :
            LET row == [files[f] EXCEPT !.message = id] IN
            row \in Attachment /\ row.about = files[f].about /\ row.by = files[f].by
            /\ row.message = id
      BY <2>5, <3>1 DEF Attachment
    <3>3. QED
      BY <2>3, <3>1, <3>2
  <2>8. files' \in Seq(Attachment) /\ Len(files') = Len(files) /\ DOMAIN files' = DOMAIN files
    <3>1. files' \in [1..Len(files) -> Attachment]
      BY <2>3, <2>4, <2>7
    <3>2. QED
      BY <2>4, <3>1, FunctionIsSeq
  <2>9. reads' \cup told' \subseteq (DOMAIN messages') \X Users
    <3>1. Recipients(s.by, s.about) \subseteq Users
      BY <1>1, ThreadAssumption DEF Recipients, Users
    <3>2. reads \cup told \subseteq (DOMAIN messages) \X Users
      BY DEF ThreadTypeOK
    <3>3. QED
      BY <2>3, <2>6, <3>1, <3>2
  <2>10. sends' \subseteq Sending
    BY <2>1, <2>3 DEF ThreadTypeOK
  <2>11. ThreadTypeOK'
    BY <1>1, <1>2, <2>3, <2>6, <2>8, <2>9, <2>10 DEF ThreadTypeOK
  <2>12. FilesAreKnown'
    BY <1>2, <2>1, <2>2, <2>3, <2>6, <2>8 DEF FilesAreKnown
  <2>13. PaneIsThere'
    BY <1>2, <2>1, <2>3 DEF PaneIsThere
  <2>14. OpenSends'
    <3>1. \A r \in sends' : r.phase = "open" => r \in sends /\ r # s
      BY <2>1, <2>3
    <3>2. ASSUME NEW r \in sends', r.phase = "open"
          PROVE  SendIsEntitled(r)'
      <4>1. r.files \subseteq DOMAIN files /\ r \in sends /\ r # s
        BY <3>1, <3>2 DEF FilesAreKnown
      <4>2. ~lapped => r.files \cap s.files = {}
        BY <1>1, <3>2, <4>1 DEF OpenSends
      <4>3. QED
        BY <1>2, <2>7, <3>2, <4>1, <4>2 DEF OpenSends, SendIsEntitled
    <3>3. \A r \in sends' : SendIsEntitled(r)'
      BY <3>2 DEF SendIsEntitled
    <3>4. QED
      BY <1>2, <3>1, <3>3 DEF OpenSends
  <2>15. AttachmentsStay'
    <3>1. \A f \in s.files : /\ f \in DOMAIN files
                             /\ files[f].about = s.about /\ files[f].by = s.by
                             /\ ~lapped => files[f].message = 0
      BY <1>1 DEF FilesAreKnown, OpenSends, SendIsEntitled
    <3>2. ASSUME NEW i \in DOMAIN messages', NEW f \in messages'[i].files
          PROVE  files'[f].about = messages'[i].about /\ files'[f].by = messages'[i].author
      <4>1. CASE i \in DOMAIN messages
        BY <2>6, <2>7, <3>2, <4>1 DEF AttachmentsStay, FilesAreKnown
      <4>2. CASE i = id
        BY <2>2, <2>6, <2>7, <3>1, <3>2, <4>2
      <4>3. QED
        BY <2>6, <4>1, <4>2
    <3>3. ASSUME ~lapped, NEW f \in DOMAIN files
          PROVE  {i \in DOMAIN messages' : f \in messages'[i].files} = {files'[f].message} \ {0}
      <4>1. {i \in DOMAIN messages : f \in messages[i].files} = {files[f].message} \ {0}
        BY <3>3 DEF AttachmentsStay
      <4>2. CASE f \in s.files
        <5>1. {i \in DOMAIN messages : f \in messages[i].files} = {}
          BY <3>1, <3>3, <4>1, <4>2
        <5>2. {i \in DOMAIN messages' : f \in messages'[i].files} = {id}
          BY <2>2, <2>6, <4>2, <5>1
        <5>3. QED
          BY <2>5, <2>7, <4>2, <5>2
      <4>3. CASE f \notin s.files
        <5>1. {i \in DOMAIN messages' : f \in messages'[i].files}
                = {i \in DOMAIN messages : f \in messages[i].files}
          BY <2>2, <2>6, <4>3
        <5>2. QED
          BY <2>7, <4>1, <4>3, <5>1
      <4>4. QED
        BY <4>2, <4>3
    <3>4. QED
      BY <1>2, <2>8, <3>2, <3>3 DEF AttachmentsStay
  <2>16. RoomForFiles'
    BY <1>2, <2>8, RoomForFilesKept
  <2>17. QED
    BY <2>11, <2>12, <2>13, <2>14, <2>15, <2>16
<1>5. QED
  BY <1>3, <1>4

LEMMA EndSteps ==
  ASSUME ThreadInv, NEW s \in sends, Answered(s) \/ SendFails(s)
  PROVE  ThreadInv'
<1> USE DEF ThreadInv
<1>0. s \in Sending /\ s.by \in Users /\ pane \in [Users -> Pane]
  BY DEF ThreadTypeOK, Sending
<1>1. /\ uploads' = uploads /\ opened' = opened /\ messages' = messages
      /\ files' = files /\ reads' = reads /\ told' = told /\ lapped' = lapped
  BY DEF Answered, SendFails, serverVars
<1>2. CASE Answered(s)
  <2>1. sends' = sends \ {s}
    BY <1>2 DEF Answered
  <2> DEFINE p == [pane[s.by] EXCEPT !.shown = s.about, !.staged = {}]
  <2>2. p \in Pane /\ p.staged = {} /\ p.at = pane[s.by].at
    <3>1. s.about \in Threads /\ pane[s.by] \in Pane
      BY <1>0 DEF Sending
    <3>2. QED
      BY <3>1 DEF Pane
  <2>3. pane' = pane \/ (s.awaited /\ pane' = [pane EXCEPT ![s.by] = p])
    BY <1>0, <1>2 DEF Answered
  <2> HIDE DEF p
  <2>4. /\ pane' \in [Users -> Pane]
        /\ \A u \in Users : /\ pane'[u].staged \subseteq pane[u].staged
                            /\ pane'[u].at = pane[u].at
    BY <1>0, <2>2, <2>3
  <2>5. ThreadTypeOK'
    BY <1>1, <2>1, <2>4 DEF ThreadTypeOK
  <2>6. FilesAreKnown'
    BY <1>1, <2>1, <2>4 DEF FilesAreKnown
  <2>7. PaneIsThere'
    <3>1. \A q \in sends : q.by \in Users
      BY DEF ThreadTypeOK, Sending
    <3>2. s.awaited => pane[s.by].at # Nothing
      BY DEF PaneIsThere
    <3>3. \A u \in Users : pane'[u] = pane[u] \/ pane'[u].at # Nothing
      BY <1>0, <2>2, <2>3, <3>2
    <3>4. QED
      BY <2>1, <2>4, <3>1, <3>3 DEF PaneIsThere
  <2>8. QED
    BY <1>1, <2>1, <2>5, <2>6, <2>7, RoomForFilesKept, SameMessages
<1>3. CASE SendFails(s)
  <2>1. s.awaited /\ pane' = pane
    BY <1>3 DEF SendFails
  <2> DEFINE q == [s EXCEPT !.awaited = FALSE]
  <2>2. /\ q \in Sending /\ q.phase = s.phase /\ q.files = s.files
        /\ q.about = s.about /\ q.by = s.by /\ ~q.awaited
    BY <1>0 DEF Sending
  <2>3. \/ s.phase = "sent" /\ sends' = sends \ {s}
        \/ sends' = (sends \ {s}) \cup {q}
    BY <1>3 DEF SendFails
  <2> HIDE DEF q
  <2>4. sends' \subseteq Sending /\ FilesAreKnown' /\ PaneIsThere'
    <3>1. CASE sends' = sends \ {s}
      BY <1>1, <2>1, <3>1 DEF ThreadTypeOK, FilesAreKnown, PaneIsThere
    <3>2. CASE sends' = (sends \ {s}) \cup {q}
      BY <1>1, <2>1, <2>2, <3>2, SendChanged
    <3>3. QED
      BY <2>3, <3>1, <3>2
  <2>5. ThreadTypeOK'
    BY <1>1, <2>1, <2>4 DEF ThreadTypeOK
  <2>6. OpenSends'
    <3>1. \A r \in sends' : SendIsEntitled(r)'
      <4>1. \A r \in sends \cup {q} : SendIsEntitled(r)
        BY <2>2 DEF OpenSends, SendIsEntitled
      <4>2. QED
        BY <1>1, <2>3, <4>1 DEF SendIsEntitled
    <3>2. ASSUME ~lapped, NEW r \in sends', NEW t \in sends',
                 r.phase = "open", t.phase = "open", r.files \cap t.files # {}
          PROVE  r = t
      BY <2>2, <2>3, <3>2 DEF OpenSends
    <3>3. QED
      BY <1>1, <3>1, <3>2 DEF OpenSends
  <2>7. AttachmentsStay' /\ RoomForFiles'
    BY <1>1, RoomForFilesKept DEF AttachmentsStay
  <2>8. QED
    BY <2>4, <2>5, <2>6, <2>7
<1>4. QED
  BY <1>2, <1>3

LEMMA ThreadStart == ThreadInit => ThreadInv
<1> SUFFICES ASSUME ThreadInit PROVE ThreadInv
  OBVIOUS
<1>1. Closed \in Pane /\ Closed.staged = {} /\ Closed.shown = Nothing /\ Closed.step = "idle"
  BY DEF Closed, Pane
<1>2. /\ opened = {} /\ messages = << >> /\ files = << >> /\ reads = {} /\ told = {}
      /\ pane = [u \in Users |-> Closed] /\ sends = {} /\ uploads = {} /\ lapped = FALSE
  BY DEF ThreadInit
<1>3. ThreadTypeOK
  <2>1. messages \in Seq(Message) /\ files \in Seq(Attachment)
    BY <1>2
  <2>2. QED
    BY <1>1, <1>2, <2>1 DEF ThreadTypeOK
<1>4. PaneIsThere
  BY <1>1, <1>2 DEF PaneIsThere
<1>5. RoomForFiles
  <2>1. NotStored = {}
    BY <1>2 DEF NotStored
  <2>2. QED
    BY <1>2, <2>1, FS_EmptySet, ThreadAssumption DEF RoomForFiles
<1>6. FilesAreKnown /\ OpenSends /\ AttachmentsStay
  BY <1>1, <1>2 DEF FilesAreKnown, OpenSends, AttachmentsStay
<1>7. QED
  BY <1>3, <1>4, <1>5, <1>6 DEF ThreadInv

LEMMA ThreadStep == ThreadInv /\ [ThreadNext]_threadVars => ThreadInv'
<1> SUFFICES ASSUME ThreadInv, [ThreadNext]_threadVars PROVE ThreadInv'
  OBVIOUS
<1>1. CASE ThreadNext
  BY <1>1, PaneSteps, LeaveStep, UploadSteps, HandleSendStep, BeginStep, CommitStep, EndSteps
  DEF ThreadNext
<1>2. CASE UNCHANGED threadVars
  BY <1>2 DEF threadVars, serverVars, ThreadInv, ThreadTypeOK, PaneIsThere, RoomForFiles, NotStored,
              FilesAreKnown, OpenSends, SendIsEntitled, AttachmentsStay
<1>3. QED
  BY <1>1, <1>2

\* The types of a conversation and what its inductive invariant adds to them: a
\* send that has read its attachments is still entitled to them when it commits,
\* and shares them with no other, unless two such sends overlapped.
THEOREM ThreadIsSound == ThreadSpec => []ThreadInv
BY ThreadStart, ThreadStep, PTL DEF ThreadSpec

\* For any number of people, threads, uploads and overlapping sends, a message
\* keeps the attachments it was posted with, and none is posted twice unless
\* two sends that read it overlapped.
THEOREM AttachmentsAreKept == ThreadSpec => []AttachmentsStay
<1>1. ThreadInv => AttachmentsStay
  BY DEF ThreadInv
<1>2. QED
  BY <1>1, ThreadIsSound, PTL

-----------------------------------------------------------------------------
(* Duplicates *)

Linked == {"LOADED", "LOOKED_UP", "EMBEDDED", "RANKED", "DONE"}
Deciding == {"READ", "LOCKED"}

\* A request is about a complaint there is; a link was written by a run that is
\* done, and a decision is about a link of such a run.
Shapes ==
  /\ request = [r \in Requests |-> request[r]]
  /\ deciding = [o \in Decisions |-> deciding[o]]
  /\ status = [c \in Complaints |-> status[c]]
  /\ reported \subseteq Complaints /\ embedded \subseteq reported
RequestsOK ==
  \A r \in Requests : /\ request[r].at \in Linked \cup {"IDLE", "LOST"}
                      /\ request[r].at \in Linked => request[r].complaint \in reported
                      /\ request[r].at = "RANKED" =>
                           request[r].verdict \in {"POSSIBLE_DUPLICATE", "NEW_INCIDENT"}
Link(l) == [run |-> l.run, source |-> l.source, target |-> l.target, status |-> l.status]
LinkOK(l) ==
  /\ l.run \in Requests /\ request[l.run].at = "DONE" /\ l.source = request[l.run].complaint
  /\ l = Link(l) /\ l.status \in {"PENDING", "CONFIRMED", "REJECTED"}
DecisionOK(d) ==
  /\ d.at \in Deciding \cup {"IDLE", "OVER"}
  /\ d.at \in Deciding =>
       /\ d.verdict \in {"CONFIRMED", "REJECTED"}
       /\ d.run \in Requests /\ request[d.run].at = "DONE"
       /\ d.source = request[d.run].complaint
CorrelationTypeOK ==
  /\ Shapes /\ RequestsOK
  /\ \A l \in links : LinkOK(l)
  /\ \A o \in Decisions : DecisionOK(deciding[o])

\* A link is locked by one decision at most, and is there as long as it is.
LocksHold ==
  \A o \in Decisions : deciding[o].at = "LOCKED" =>
    /\ \E l \in links : SameLink(o, l)
    /\ \A p \in Decisions : /\ deciding[p].at = "LOCKED" /\ deciding[p].run = deciding[o].run
                            /\ deciding[p].target = deciding[o].target
                            => p = o

\* A confirmed link of c that no rejection under way will take without writing
\* the status: a rejection that read POSSIBLE_DUPLICATE writes none.
Backs(l, c) ==
  /\ l.source = c /\ l.status = "CONFIRMED"
  /\ \A o \in Decisions : deciding[o].at = "LOCKED" /\ SameLink(o, l) /\ deciding[o].verdict = "REJECTED"
       => deciding[o].status # "POSSIBLE_DUPLICATE"
ConfirmedStays ==
  \A c \in Complaints : status[c] = "CONFIRMED_DUPLICATE" => \E l \in links : Backs(l, c)

\* Every comparison of c, since it was filed, found d: one under way will link it
\* and one that is done has.
Knows(c, d) ==
  \A r \in Requests :
    /\ request[r].at = "RANKED" /\ request[r].complaint = c => d \in request[r].best
    /\ request[r].at = "DONE" /\ request[r].complaint = c =>
         \E l \in links : l.source = c /\ l.target = d
OneKnows ==
  \A c, d \in reported : c # d /\ Near(c, d) => Knows(c, d) \/ Knows(d, c)

CorrelationInv == CorrelationTypeOK /\ LocksHold /\ ConfirmedStays

LEMMA CorrelationStart == Init => CorrelationInv /\ OneKnows
<1> SUFFICES ASSUME Init PROVE CorrelationInv /\ OneKnows
  OBVIOUS
<1>1. /\ reported = {} /\ embedded = {} /\ links = {}
      /\ \A r \in Requests : request[r].at = "IDLE"
      /\ \A o \in Decisions : deciding[o].at = "IDLE"
  BY DEF Init, Fresh
<1>2. CorrelationTypeOK
  BY <1>1 DEF Init, CorrelationTypeOK, Shapes, RequestsOK, LinkOK, DecisionOK, Linked, Deciding
<1>3. LocksHold /\ OneKnows
  BY <1>1 DEF LocksHold, OneKnows
<1>4. ASSUME NEW c \in Complaints PROVE status[c] # "CONFIRMED_DUPLICATE"
  BY <1>4, SettingsAssumption DEF Init
<1>5. QED
  BY <1>2, <1>3, <1>4 DEF CorrelationInv, ConfirmedStays

\* Steps of requests that write no link: nothing that is done, linked or decided changes.
Preparing(r, c) == FileComplaint(c) \/ Start(r, c) \/ LookUp(r) \/ Embed(r) \/ Search(r) \/ Lose(r)

LEMMA PreparingFrame ==
  ASSUME CorrelationTypeOK, NEW r \in Requests, NEW c \in Complaints, Preparing(r, c)
  PROVE  /\ UNCHANGED <<status, embedded, links, deciding>> /\ reported \subseteq reported'
         /\ DOMAIN request' = Requests /\ request' = [q \in Requests |-> request'[q]]
         /\ \A q \in Requests : q # r => request'[q] = request[q]
         /\ \/ request'[r] = request[r]
            \/ request'[r].at = "LOST" /\ request[r].at # "DONE"
            \/ /\ request'[r].at \in {"LOADED", "LOOKED_UP", "EMBEDDED"} /\ request[r].at # "DONE"
               /\ request'[r].complaint \in reported
            \/ /\ Search(r) /\ request'[r].at = "RANKED" /\ request[r].at = "EMBEDDED"
               /\ request'[r].complaint = request[r].complaint
               /\ request'[r].verdict = Verdict(request[r].complaint)
               /\ request'[r].best \in Ranked(request[r].complaint)
<1>1. CASE FileComplaint(c)
  BY <1>1 DEF FileComplaint, CorrelationTypeOK, Shapes, RequestsOK
<1>2. CASE Start(r, c)
  BY <1>2 DEF Start, CorrelationTypeOK, Shapes, RequestsOK, Fresh
<1>3. CASE LookUp(r)
  BY <1>3 DEF LookUp, CorrelationTypeOK, Shapes, RequestsOK, Linked
<1>4. CASE Embed(r)
  BY <1>4 DEF Embed, CorrelationTypeOK, Shapes, RequestsOK, Linked
<1>5. CASE Search(r)
  <2>1. PICK best \in Ranked(request[r].complaint) :
          request' = [request EXCEPT ![r] =
            [at |-> "RANKED", complaint |-> request[r].complaint, status |-> request[r].status,
             best |-> best, verdict |-> Verdict(request[r].complaint)]]
    BY <1>5 DEF Search
  <2>2. QED
    BY <1>5, <2>1 DEF Search, CorrelationTypeOK, Shapes, RequestsOK
<1>6. CASE Lose(r)
  BY <1>6 DEF Lose, CorrelationTypeOK, Shapes, RequestsOK
<1>7. QED
  BY <1>1, <1>2, <1>3, <1>4, <1>5, <1>6 DEF Preparing

LEMMA PreparingStep ==
  ASSUME CorrelationInv, NEW r \in Requests, NEW c \in Complaints, Preparing(r, c)
  PROVE  CorrelationInv'
<1>0. CorrelationTypeOK
  BY DEF CorrelationInv
<1>1. /\ UNCHANGED <<status, embedded, links, deciding>> /\ reported \subseteq reported'
      /\ request' = [q \in Requests |-> request'[q]]
      /\ \A q \in Requests : q # r => request'[q] = request[q]
      /\ \/ request'[r] = request[r]
         \/ request'[r].at = "LOST" /\ request[r].at # "DONE"
         \/ /\ request'[r].at \in {"LOADED", "LOOKED_UP", "EMBEDDED"} /\ request[r].at # "DONE"
            /\ request'[r].complaint \in reported
         \/ /\ request'[r].at = "RANKED" /\ request[r].at = "EMBEDDED"
            /\ request'[r].complaint = request[r].complaint
            /\ request'[r].verdict = Verdict(request[r].complaint)
  BY <1>0, PreparingFrame
<1>2. reported' \subseteq Complaints
  BY <1>0 DEF Preparing, FileComplaint, Start, LookUp, Embed, Search, Lose, CorrelationTypeOK, Shapes
<1>3. \A q \in Requests : request[q].at = "DONE" => request'[q] = request[q]
  BY <1>1
<1>4. \A q \in Requests :
        /\ request'[q].at \in Linked \cup {"IDLE", "LOST"}
        /\ request'[q].at \in Linked => request'[q].complaint \in reported'
        /\ request'[q].at = "RANKED" => request'[q].verdict \in {"POSSIBLE_DUPLICATE", "NEW_INCIDENT"}
  <2> SUFFICES ASSUME NEW q \in Requests
               PROVE  /\ request'[q].at \in Linked \cup {"IDLE", "LOST"}
                      /\ request'[q].at \in Linked => request'[q].complaint \in reported'
                      /\ request'[q].at = "RANKED" =>
                           request'[q].verdict \in {"POSSIBLE_DUPLICATE", "NEW_INCIDENT"}
    OBVIOUS
  <2>1. CASE request'[q] = request[q]
    BY <1>0, <1>1, <2>1 DEF CorrelationTypeOK, Shapes, RequestsOK, LinkOK, DecisionOK
  <2>2. CASE q = r /\ request'[r] # request[r]
    <3>1. Verdict(request[r].complaint) \in {"POSSIBLE_DUPLICATE", "NEW_INCIDENT"}
      BY DEF Verdict
    <3>2. request[r].at = "EMBEDDED" => request[r].complaint \in reported
      BY <1>0 DEF CorrelationTypeOK, Shapes, RequestsOK, LinkOK, DecisionOK, Linked
    <3>3. QED
      BY <1>1, <2>2, <3>1, <3>2 DEF Linked
  <2>3. QED
    BY <1>1, <2>1, <2>2
<1>5. CorrelationTypeOK'
  <2>1. \A l \in links : /\ l.run \in Requests /\ request'[l.run].at = "DONE"
                         /\ l.source = request'[l.run].complaint
    BY <1>0, <1>3 DEF CorrelationTypeOK, Shapes, RequestsOK, LinkOK, DecisionOK
  <2>2. \A o \in Decisions : deciding[o].at \in Deciding =>
          /\ deciding[o].run \in Requests /\ request'[deciding[o].run].at = "DONE"
          /\ deciding[o].source = request'[deciding[o].run].complaint
    BY <1>0, <1>3 DEF CorrelationTypeOK, Shapes, RequestsOK, LinkOK, DecisionOK
  <2>3. /\ status' = [x \in Complaints |-> status'[x]] /\ deciding' = [o \in Decisions |-> deciding'[o]]
        /\ embedded' \subseteq reported'
    BY <1>0, <1>1 DEF CorrelationTypeOK, Shapes, RequestsOK, LinkOK, DecisionOK
  <2>4. QED
    BY <1>0, <1>1, <1>2, <1>4, <2>1, <2>2, <2>3 DEF CorrelationTypeOK, Shapes, RequestsOK, LinkOK, DecisionOK
<1>6. LocksHold' /\ ConfirmedStays'
  BY <1>1 DEF CorrelationInv, LocksHold, ConfirmedStays, Backs, SameLink
<1>7. QED
  BY <1>5, <1>6 DEF CorrelationInv

LEMMA PersistStep ==
  ASSUME CorrelationInv, NEW r \in Requests, Persist(r)
  PROVE  CorrelationInv'
<1> DEFINE c == request[r].complaint
           new == {[run |-> r, source |-> c, target |-> d, status |-> "PENDING"] : d \in request[r].best}
<1>0. /\ request[r].at = "RANKED"
      /\ \A l \in links : l.source = c /\ l.status = "PENDING" => ~Locked(l)
      /\ links' = (links \ Replaced(c)) \cup new
      /\ status' = IF request[r].verdict = request[r].status THEN status
                   ELSE [status EXCEPT ![c] = request[r].verdict]
      /\ embedded' = embedded \cup {c}
      /\ request' = [request EXCEPT ![r] = [at |-> "DONE", complaint |-> c]]
      /\ reported' = reported /\ deciding' = deciding
  BY DEF Persist
<1>1. /\ CorrelationTypeOK /\ c \in reported
      /\ request[r].verdict \in {"POSSIBLE_DUPLICATE", "NEW_INCIDENT"}
  BY <1>0 DEF CorrelationInv, CorrelationTypeOK, Shapes, RequestsOK, LinkOK, DecisionOK, Linked
<1>2. /\ request'[r].at = "DONE" /\ request'[r].complaint = c
      /\ \A q \in Requests : q # r => request'[q] = request[q]
  BY <1>0, <1>1 DEF CorrelationTypeOK, Shapes, RequestsOK, LinkOK, DecisionOK
<1>3. \A q \in Requests : request[q].at = "DONE" => q # r /\ request'[q] = request[q]
  BY <1>0, <1>2
<1>4. \A l \in new : /\ l.run = r /\ l.source = c /\ l.status = "PENDING" /\ l = Link(l)
  BY DEF Link
<1> HIDE DEF c, new
<1>5. CorrelationTypeOK'
  <2>1. /\ request' = [q \in Requests |-> request'[q]] /\ deciding' = [o \in Decisions |-> deciding'[o]]
        /\ status' = [e \in Complaints |-> status'[e]]
        /\ reported' \subseteq Complaints /\ embedded' \subseteq reported'
    BY <1>0, <1>1 DEF CorrelationTypeOK, Shapes, RequestsOK, LinkOK, DecisionOK
  <2>2. \A q \in Requests :
          /\ request'[q].at \in Linked \cup {"IDLE", "LOST"}
          /\ request'[q].at \in Linked => request'[q].complaint \in reported'
          /\ request'[q].at = "RANKED" => request'[q].verdict \in {"POSSIBLE_DUPLICATE", "NEW_INCIDENT"}
    BY <1>0, <1>1, <1>2 DEF CorrelationTypeOK, Shapes, RequestsOK, LinkOK, DecisionOK, Linked
  <2>3. \A l \in links' : /\ l.run \in Requests /\ request'[l.run].at = "DONE"
                          /\ l.source = request'[l.run].complaint /\ l = Link(l)
                          /\ l.status \in {"PENDING", "CONFIRMED", "REJECTED"}
    <3>1. \A l \in links : /\ l.run \in Requests /\ request'[l.run].at = "DONE"
                           /\ l.source = request'[l.run].complaint /\ l = Link(l)
                           /\ l.status \in {"PENDING", "CONFIRMED", "REJECTED"}
      BY <1>1, <1>3 DEF CorrelationTypeOK, Shapes, RequestsOK, LinkOK, DecisionOK, Link
    <3>2. QED
      BY <1>0, <1>2, <1>4, <3>1
  <2>4. \A o \in Decisions : /\ deciding'[o].at \in Deciding \cup {"IDLE", "OVER"}
                             /\ deciding'[o].at \in Deciding =>
                               /\ deciding'[o].verdict \in {"CONFIRMED", "REJECTED"}
                               /\ deciding'[o].run \in Requests
                               /\ request'[deciding'[o].run].at = "DONE"
                               /\ deciding'[o].source = request'[deciding'[o].run].complaint
    BY <1>0, <1>1, <1>3 DEF CorrelationTypeOK, Shapes, RequestsOK, LinkOK, DecisionOK
  <2>5. QED
    BY <2>1, <2>2, <2>3, <2>4 DEF CorrelationTypeOK, Shapes, RequestsOK, LinkOK, DecisionOK, Link
<1>6. LocksHold'
  <2>1. ASSUME NEW o \in Decisions, deciding[o].at = "LOCKED"
        PROVE  \E l \in links' : SameLink(o, l)
    <3>1. PICK l \in links : SameLink(o, l)
      BY <2>1 DEF CorrelationInv, LocksHold
    <3>2. l \notin Replaced(c)
      BY <1>0, <2>1, <3>1 DEF Replaced, Locked, SameLink
    <3>3. QED
      BY <1>0, <3>1, <3>2
  <2>2. QED
    BY <1>0, <2>1 DEF CorrelationInv, LocksHold, SameLink
<1>7. ConfirmedStays'
  <2>1. ASSUME NEW e \in Complaints, status'[e] = "CONFIRMED_DUPLICATE"
        PROVE  \E l \in links' : Backs(l, e)
    <3>1. status[e] = "CONFIRMED_DUPLICATE"
      BY <1>0, <1>1, <2>1 DEF CorrelationTypeOK, Shapes, RequestsOK, LinkOK, DecisionOK
    <3>2. PICK l \in links : Backs(l, e)
      BY <3>1 DEF CorrelationInv, ConfirmedStays
    <3>3. l \notin Replaced(c)
      BY <3>2 DEF Backs, Replaced
    <3>4. QED
      BY <1>0, <3>2, <3>3
  <2>2. QED
    BY <1>0, <2>1 DEF ConfirmedStays, Backs, SameLink
<1>8. QED
  BY <1>5, <1>6, <1>7 DEF CorrelationInv

\* Steps of a decision before its commit.
LEMMA DecidingStep ==
  ASSUME CorrelationInv, NEW o \in Decisions,
         \/ LockLink(o) \/ DropDecision(o)
         \/ \E l \in links, verdict \in {"CONFIRMED", "REJECTED"} : ReadLink(o, l, verdict)
  PROVE  CorrelationInv'
<1>0. CorrelationTypeOK /\ UNCHANGED <<reported, status, embedded, links, request>>
  BY DEF CorrelationInv, LockLink, DropDecision, ReadLink
<1>1. /\ deciding' = [p \in Decisions |-> deciding'[p]]
      /\ \A p \in Decisions : p # o => deciding'[p] = deciding[p]
      /\ \/ deciding'[o].at = "OVER"
         \/ /\ deciding'[o].at \in Deciding /\ deciding'[o].verdict \in {"CONFIRMED", "REJECTED"}
            /\ deciding'[o].run \in Requests /\ request[deciding'[o].run].at = "DONE"
            /\ deciding'[o].source = request[deciding'[o].run].complaint
  <2>1. CASE LockLink(o)
    BY <1>0, <2>1 DEF LockLink, CorrelationTypeOK, Shapes, RequestsOK, LinkOK, DecisionOK, Deciding
  <2>2. CASE DropDecision(o)
    BY <1>0, <2>2 DEF DropDecision, CorrelationTypeOK, Shapes, RequestsOK, LinkOK, DecisionOK
  <2>3. CASE \E l \in links, verdict \in {"CONFIRMED", "REJECTED"} : ReadLink(o, l, verdict)
    <3>1. PICK l \in links, verdict \in {"CONFIRMED", "REJECTED"} : ReadLink(o, l, verdict)
      BY <2>3
    <3>2. LinkOK(l) /\ Shapes
      BY <1>0 DEF CorrelationTypeOK
    <3>3. QED
      BY <3>1, <3>2 DEF ReadLink, LinkOK, Shapes, Deciding
  <2>4. QED
    BY <2>1, <2>2, <2>3
<1>2. \/ deciding'[o].at # "LOCKED"
      \/ /\ LockLink(o) /\ deciding[o].at = "READ"
         /\ \E l \in links : SameLink(o, l)
         /\ deciding'[o].run = deciding[o].run /\ deciding'[o].target = deciding[o].target
         /\ deciding'[o].source = deciding[o].source /\ deciding'[o].status = status[deciding[o].source]
  BY <1>0 DEF LockLink, DropDecision, ReadLink, CorrelationTypeOK, Shapes, RequestsOK, LinkOK, DecisionOK
<1>3. CorrelationTypeOK'
  <2>1. Shapes' /\ RequestsOK' /\ \A l \in links' : LinkOK(l)'
    BY <1>0, <1>1 DEF CorrelationTypeOK, Shapes, RequestsOK, LinkOK
  <2>2. ASSUME NEW p \in Decisions PROVE DecisionOK(deciding[p])'
    <3>1. CASE p = o
      BY <1>0, <1>1, <3>1 DEF DecisionOK, Deciding
    <3>2. CASE p # o
      BY <1>0, <1>1, <3>2 DEF CorrelationTypeOK, DecisionOK
    <3>3. QED
      BY <3>1, <3>2
  <2>3. QED
    BY <2>1, <2>2 DEF CorrelationTypeOK
<1>4. LocksHold'
  <2>1. ASSUME NEW p \in Decisions, deciding'[p].at = "LOCKED"
        PROVE  \E l \in links : SameLink(p, l)'
    <3>1. CASE p = o
      BY <1>0, <1>2, <2>1, <3>1 DEF SameLink
    <3>2. CASE p # o
      BY <1>0, <1>1, <2>1, <3>2 DEF CorrelationInv, LocksHold, SameLink
    <3>3. QED
      BY <3>1, <3>2
  <2>2. ASSUME NEW p \in Decisions, p # o, deciding[p].at = "LOCKED", deciding'[o].at = "LOCKED",
               deciding'[o].run = deciding[p].run, deciding'[o].target = deciding[p].target
        PROVE  FALSE
    <3>1. PICK l \in links : SameLink(o, l)
      BY <1>2, <2>2
    <3>2. Locked(l)
      BY <1>2, <2>2, <3>1 DEF Locked, SameLink
    <3>3. ~Locked(l)
      BY <1>2, <2>2, <3>1 DEF LockLink
    <3>4. QED
      BY <3>2, <3>3
  <2>3. ASSUME NEW p \in Decisions, NEW q \in Decisions,
               deciding'[p].at = "LOCKED", deciding'[q].at = "LOCKED",
               deciding'[p].run = deciding'[q].run, deciding'[p].target = deciding'[q].target
        PROVE  p = q
    BY <1>1, <2>2, <2>3 DEF CorrelationInv, LocksHold
  <2>4. QED
    BY <1>0, <2>1, <2>3 DEF LocksHold
<1>5. ConfirmedStays'
  <2>1. ASSUME NEW c \in Complaints, status[c] = "CONFIRMED_DUPLICATE"
        PROVE  \E l \in links : Backs(l, c)'
    <3>1. PICK l \in links : Backs(l, c)
      BY <2>1 DEF CorrelationInv, ConfirmedStays
    <3>2. ASSUME deciding'[o].at = "LOCKED", l.run = deciding'[o].run
          PROVE  deciding'[o].status = "CONFIRMED_DUPLICATE"
      <4>1. /\ deciding[o].at = "READ" /\ deciding'[o].run = deciding[o].run
            /\ deciding'[o].status = status[deciding[o].source]
        BY <1>2, <3>2
      <4>2. DecisionOK(deciding[o]) /\ LinkOK(l)
        BY <1>0 DEF CorrelationTypeOK
      <4>3. deciding[o].source = l.source /\ l.source = c
        BY <3>1, <3>2, <4>1, <4>2 DEF DecisionOK, LinkOK, Deciding, Backs
      <4>4. QED
        BY <2>1, <4>1, <4>3
    <3>3. Backs(l, c)'
      BY <1>0, <1>1, <3>1, <3>2 DEF Backs, SameLink
    <3>4. QED
      BY <3>3
  <2>2. QED
    BY <1>0, <2>1 DEF ConfirmedStays
<1>6. QED
  BY <1>3, <1>4, <1>5 DEF CorrelationInv

Marked(o, l) == IF SameLink(o, l) THEN [l EXCEPT !.status = deciding[o].verdict] ELSE l

LEMMA CommitDecisionStep ==
  ASSUME CorrelationInv, NEW o \in Decisions, CommitDecision(o)
  PROVE  CorrelationInv'
<1> DEFINE c == deciding[o].source
<1>0. /\ CorrelationTypeOK /\ UNCHANGED <<reported, embedded, request>> /\ deciding[o].at = "LOCKED"
      /\ links' = {Marked(o, l) : l \in links}
      /\ status' = [status EXCEPT ![c] = FlagAfter(o)]
      /\ deciding' = [deciding EXCEPT ![o] = [at |-> "OVER"]]
  BY DEF CorrelationInv, CommitDecision, Marked
<1>1. /\ deciding'[o].at = "OVER" /\ \A p \in Decisions : p # o => deciding'[p] = deciding[p]
      /\ deciding' = [p \in Decisions |-> deciding'[p]]
      /\ deciding[o].verdict \in {"CONFIRMED", "REJECTED"}
      /\ deciding[o].run \in Requests /\ c = request[deciding[o].run].complaint
  BY <1>0 DEF CorrelationTypeOK, Shapes, RequestsOK, LinkOK, DecisionOK, Deciding
<1>2. ASSUME NEW l \in links
      PROVE  /\ Marked(o, l) \in links' /\ Marked(o, l) = Link(Marked(o, l))
             /\ Marked(o, l).run = l.run /\ Marked(o, l).source = l.source /\ Marked(o, l).target = l.target
             /\ Marked(o, l).status = IF SameLink(o, l) THEN deciding[o].verdict ELSE l.status
  <2>1. l = Link(l)
    BY <1>0 DEF CorrelationTypeOK, Shapes, RequestsOK, LinkOK, DecisionOK, Link
  <2>2. QED
    BY <1>0, <2>1 DEF Marked, Link
<1>3. CorrelationTypeOK'
  <2>1. ASSUME NEW m \in links' PROVE LinkOK(m)'
    <3>1. PICK l \in links : m = Marked(o, l)
      BY <1>0
    <3>2. /\ m = Link(m) /\ m.run = l.run /\ m.source = l.source
          /\ m.status = IF SameLink(o, l) THEN deciding[o].verdict ELSE l.status
      BY <1>2, <3>1
    <3>3. LinkOK(l)
      BY <1>0 DEF CorrelationTypeOK
    <3>4. QED
      BY <1>0, <1>1, <3>2, <3>3 DEF LinkOK, Link
  <2>2. Shapes' /\ RequestsOK'
    BY <1>0, <1>1 DEF CorrelationTypeOK, Shapes, RequestsOK
  <2>3. ASSUME NEW p \in Decisions PROVE DecisionOK(deciding[p])'
    <3>1. CASE p = o
      BY <1>1, <3>1 DEF DecisionOK, Deciding
    <3>2. CASE p # o
      BY <1>0, <1>1, <3>2 DEF CorrelationTypeOK, DecisionOK
    <3>3. QED
      BY <3>1, <3>2
  <2>4. QED
    BY <2>1, <2>2, <2>3 DEF CorrelationTypeOK
<1>4. LocksHold'
  <2>1. ASSUME NEW p \in Decisions, deciding'[p].at = "LOCKED"
        PROVE  \E m \in links' : SameLink(p, m)'
    <3>1. p # o /\ deciding[p].at = "LOCKED" /\ deciding'[p] = deciding[p]
      BY <1>1, <2>1
    <3>2. PICK l \in links : SameLink(p, l)
      BY <3>1 DEF CorrelationInv, LocksHold
    <3>3. QED
      BY <1>2, <3>1, <3>2 DEF SameLink
  <2>2. QED
    BY <1>1, <2>1 DEF CorrelationInv, LocksHold
<1>5. ConfirmedStays'
  <2> SUFFICES ASSUME NEW e \in Complaints, status'[e] = "CONFIRMED_DUPLICATE"
               PROVE  \E m \in links' : Backs(m, e)'
    BY DEF ConfirmedStays
  <2>1. \A l \in links : SameLink(o, l) => l.source = c
    BY <1>0, <1>1 DEF CorrelationTypeOK, Shapes, RequestsOK, LinkOK, DecisionOK, SameLink
  <2>2. CASE e = c /\ deciding[o].verdict = "CONFIRMED"
    <3>1. PICK l \in links : SameLink(o, l)
      BY <1>0 DEF CorrelationInv, LocksHold
    <3>2. PICK m \in links' : /\ m.run = l.run /\ m.target = l.target
                              /\ m.source = e /\ m.status = "CONFIRMED"
      BY <1>2, <2>1, <2>2, <3>1
    <3>3. ASSUME NEW p \in Decisions, deciding'[p].at = "LOCKED", SameLink(p, m)'
          PROVE  FALSE
      <4>1. p # o /\ deciding[p].at = "LOCKED" /\ deciding'[p] = deciding[p]
        BY <1>1, <3>3
      <4>2. deciding[p].run = deciding[o].run /\ deciding[p].target = deciding[o].target
        BY <3>1, <3>2, <3>3, <4>1 DEF SameLink
      <4>3. QED
        BY <1>0, <4>1, <4>2 DEF CorrelationInv, LocksHold
    <3>4. Backs(m, e)'
      BY <3>2, <3>3 DEF Backs
    <3>5. QED
      BY <3>2, <3>4
  <2>3. CASE ~(e = c /\ deciding[o].verdict = "CONFIRMED")
    <3>1. /\ status[e] = "CONFIRMED_DUPLICATE"
          /\ e = c => deciding[o].status = "POSSIBLE_DUPLICATE" /\ deciding[o].verdict = "REJECTED"
      BY <1>0, <1>1, <2>3 DEF CorrelationTypeOK, Shapes, RequestsOK, LinkOK, DecisionOK, FlagAfter, FlagFor
    <3>2. PICK l \in links : Backs(l, e)
      BY <3>1 DEF CorrelationInv, ConfirmedStays
    <3>3. ~SameLink(o, l)
      BY <1>0, <2>1, <3>1, <3>2 DEF Backs
    <3>4. Marked(o, l) = l
      BY <3>3 DEF Marked
    <3>5. Backs(l, e)'
      BY <1>1, <3>2 DEF Backs, SameLink
    <3>6. QED
      BY <1>2, <3>4, <3>5
  <2>4. QED
    BY <2>2, <2>3
<1>6. QED
  BY <1>3, <1>4, <1>5 DEF CorrelationInv

LEMMA CorrelationStep == CorrelationInv /\ [Next]_vars => CorrelationInv'
<1> SUFFICES ASSUME CorrelationInv, [Next]_vars PROVE CorrelationInv'
  OBVIOUS
<1>1. CASE \E c \in Complaints : FileComplaint(c)
  <2>1. CASE Requests = {}
    BY <1>1, <2>1 DEF FileComplaint, CorrelationInv, CorrelationTypeOK, Shapes, RequestsOK, LinkOK, DecisionOK, LocksHold, ConfirmedStays, Backs, SameLink
  <2>2. CASE Requests # {}
    BY <1>1, <2>2, PreparingStep DEF Preparing
  <2>3. QED
    BY <2>1, <2>2
<1>2. CASE \E c \in Complaints, r \in Requests : Start(r, c)
  BY <1>2, PreparingStep DEF Preparing
<1>3. CASE \E r \in Requests : LookUp(r) \/ Embed(r) \/ Search(r) \/ Lose(r)
  <2>1. Complaints # {}
    BY <1>3 DEF CorrelationInv, CorrelationTypeOK, Shapes, RequestsOK, LinkOK, DecisionOK, LookUp, Embed, Search, Lose, Linked
  <2>2. QED
    BY <1>3, <2>1, PreparingStep DEF Preparing
<1>4. CASE \E r \in Requests : Persist(r)
  BY <1>4, PersistStep
<1>5. CASE \E o \in Decisions : CommitDecision(o)
  BY <1>5, CommitDecisionStep
<1>6. CASE \E o \in Decisions : \/ LockLink(o) \/ DropDecision(o)
             \/ \E l \in links, verdict \in {"CONFIRMED", "REJECTED"} : ReadLink(o, l, verdict)
  BY <1>6, DecidingStep
<1>7. CASE UNCHANGED vars
  <2>1. CorrelationTypeOK'
    BY <1>7 DEF vars, CorrelationInv, CorrelationTypeOK, Shapes, RequestsOK, LinkOK, DecisionOK
  <2>2. LocksHold' /\ ConfirmedStays'
    BY <1>7 DEF vars, CorrelationInv, LocksHold, ConfirmedStays, Backs, SameLink
  <2>3. QED
    BY <2>1, <2>2 DEF CorrelationInv
<1>8. QED
  BY <1>1, <1>2, <1>3, <1>4, <1>5, <1>6, <1>7 DEF Next

\* What a run and a decision under way are about, who holds a link, and which
\* confirmed link backs the status of a complaint.
THEOREM CorrelationIsSound == Spec => []CorrelationInv
BY CorrelationStart, CorrelationStep, PTL DEF Spec

\* A complaint reads CONFIRMED_DUPLICATE only while a link of it is confirmed,
\* however many decisions and runs overlap.
THEOREM DuplicatesAreConfirmed == Spec => []ConfirmedIsBacked
<1>1. CorrelationInv => ConfirmedIsBacked
  BY DEF CorrelationInv, ConfirmedStays, Backs, ConfirmedIsBacked
<1>2. QED
  BY <1>1, CorrelationIsSound, PTL

\* A step deletes and reopens nothing that was decided.
LEMMA DecidedIsKept ==
  ASSUME CorrelationInv, [Next]_vars, NEW l \in links, l.status # "PENDING"
  PROVE  \E m \in links' : [m EXCEPT !.status = l.status] = l /\ m.status # "PENDING"
<1>1. LinkOK(l)
  BY DEF CorrelationInv, CorrelationTypeOK
<1>2. l \in links' \/ \E o \in Decisions : CommitDecision(o)
  <2>1. CASE \E r \in Requests : Persist(r)
    BY <2>1 DEF Persist, Replaced
  <2>2. CASE ~ \E r \in Requests : Persist(r)
    BY <2>2 DEF Next, vars, FileComplaint, Start, LookUp, Embed, Search, Lose, ReadLink, LockLink, DropDecision
  <2>3. QED
    BY <2>1, <2>2
<1>3. CASE l \in links'
  BY <1>1, <1>3 DEF LinkOK, Link
<1>4. CASE \E o \in Decisions : CommitDecision(o)
  <2>1. PICK o \in Decisions : CommitDecision(o)
    BY <1>4
  <2>2. DecisionOK(deciding[o]) /\ deciding[o].at = "LOCKED" /\ links' = {Marked(o, k) : k \in links}
    BY <2>1 DEF CorrelationInv, CorrelationTypeOK, CommitDecision, Marked
  <2>3. deciding[o].verdict \in {"CONFIRMED", "REJECTED"}
    BY <2>2 DEF DecisionOK, Deciding
  <2>4. PICK m \in links' : m = Marked(o, l)
    BY <2>2
  <2>5. m.status # "PENDING" /\ [m EXCEPT !.status = l.status] = l
    BY <1>1, <2>3, <2>4 DEF Marked, LinkOK, Link
  <2>6. QED
    BY <2>5
<1>5. QED
  BY <1>2, <1>3, <1>4

\* Whatever officers decided stands, though it may be decided the other way by a
\* decision that was under way: no run of the agent deletes or reopens it.
THEOREM DecisionsAreKept == Spec => DecisionsStand
<1>1. ASSUME CorrelationInv, [Next]_vars
      PROVE  [\A l \in links : l.status # "PENDING" =>
                \E m \in links' : /\ [m EXCEPT !.status = l.status] = l
                                  /\ m.status # "PENDING"]_vars
  BY <1>1, DecidedIsKept
<1>2. QED
  BY <1>1, CorrelationIsSound, PTL DEF Spec, DecisionsStand

\* The agent keeps every candidate when there are no more complaints than that.
RoomForAll == IsFiniteSet(Complaints) /\ Cardinality(Complaints) <= MaxCandidates + 1

LEMMA NearIsMutual ==
  ASSUME NEW c \in Complaints, NEW d \in Complaints, Near(c, d)
  PROVE  Near(d, c)
<1>1. About[c].where \in Int /\ About[d].where \in Int
  BY SettingsAssumption DEF Near
<1>2. Distance(c, d) = Distance(d, c)
  BY <1>1 DEF Distance
<1>3. QED
  BY <1>2 DEF Near

LEMMA AllAreKept ==
  ASSUME RoomForAll, CorrelationTypeOK, NEW c \in Complaints, NEW best \in Ranked(c)
  PROVE  best = Candidates(c)
<1>1. Candidates(c) \subseteq Complaints \ {c}
  BY DEF CorrelationTypeOK, Shapes, Candidates
<1>2. IsFiniteSet(Candidates(c)) /\ Cardinality(Candidates(c)) <= MaxCandidates
  <2>1. /\ IsFiniteSet(Complaints \ {c})
        /\ Cardinality(Complaints \ {c}) = Cardinality(Complaints) - 1
    BY FS_RemoveElement DEF RoomForAll
  <2>2. IsFiniteSet(Candidates(c)) /\ Cardinality(Candidates(c)) <= Cardinality(Complaints \ {c})
    BY <1>1, <2>1, FS_Subset
  <2>3. Cardinality(Complaints) \in Nat /\ Cardinality(Candidates(c)) \in Nat /\ MaxCandidates \in Nat
    BY <2>2, FS_CardinalityType, SettingsAssumption DEF RoomForAll
  <2>4. QED
    BY <2>1, <2>2, <2>3 DEF RoomForAll
<1>3. best \in SUBSET Candidates(c) /\ Cardinality(best) = Cardinality(Candidates(c))
  <2>1. Cardinality(Candidates(c)) \in Nat /\ MaxCandidates \in Nat
    BY <1>2, FS_CardinalityType, SettingsAssumption
  <2>2. QED
    BY <1>2, <2>1 DEF Ranked
<1>4. QED
  BY <1>2, <1>3, FS_Subset

\* What a complaint knows of another it does not forget.
LEMMA KnowsOn ==
  ASSUME RoomForAll, CorrelationInv, [Next]_vars,
         NEW c \in reported, NEW d \in reported, c # d, Near(c, d), Knows(c, d)
  PROVE  Knows(c, d)'
<1>0. CorrelationTypeOK /\ c \in Complaints /\ d \in Complaints
  BY DEF CorrelationInv, CorrelationTypeOK, Shapes
<1>1. CASE \E r \in Requests, x \in Complaints : Preparing(r, x)
  <2>1. PICK r \in Requests, x \in Complaints : Preparing(r, x)
    BY <1>1
  <2>2. /\ links' = links /\ \A q \in Requests : q # r => request'[q] = request[q]
        /\ \/ request'[r] = request[r]
           \/ request'[r].at \in {"LOST", "LOADED", "LOOKED_UP", "EMBEDDED"}
           \/ /\ request'[r].at = "RANKED" /\ request'[r].complaint = request[r].complaint
              /\ request'[r].best \in Ranked(request[r].complaint)
    BY <1>0, <2>1, PreparingFrame
  <2>3. ASSUME request'[r] # request[r], request'[r].at = "RANKED", request'[r].complaint = c
        PROVE  d \in request'[r].best
    <3>1. request'[r].best = Candidates(c)
      BY <1>0, <2>2, <2>3, AllAreKept
    <3>2. QED
      BY <3>1 DEF Candidates
  <2>4. QED
    BY <2>2, <2>3 DEF Knows
<1>2. CASE \E r \in Requests : Persist(r)
  <2>1. PICK r \in Requests : Persist(r)
    BY <1>2
  <2>2. /\ request[r].at = "RANKED"
        /\ links' = (links \ Replaced(request[r].complaint)) \cup
             {[run |-> r, source |-> request[r].complaint, target |-> t, status |-> "PENDING"] : t \in request[r].best}
        /\ request'[r].at = "DONE" /\ request'[r].complaint = request[r].complaint
        /\ \A q \in Requests : q # r => request'[q] = request[q]
    BY <1>0, <2>1 DEF Persist, CorrelationTypeOK, Shapes
  <2>3. request[r].complaint = c => \E l \in links' : l.source = c /\ l.target = d
    <3>1. request[r].complaint = c => d \in request[r].best
      BY <2>2 DEF Knows
    <3>2. request[r].complaint = c =>
            [run |-> r, source |-> c, target |-> d, status |-> "PENDING"] \in links'
      BY <2>2, <3>1
    <3>3. QED
      BY <3>2
  <2>4. ASSUME NEW l \in links, l.source = c, request[r].complaint # c PROVE l \in links'
    BY <2>2, <2>4 DEF Replaced
  <2>5. QED
    BY <2>2, <2>3, <2>4 DEF Knows
<1>3. CASE \E o \in Decisions : CommitDecision(o)
  <2>1. PICK o \in Decisions : CommitDecision(o)
    BY <1>3
  <2>2. links' = {Marked(o, l) : l \in links} /\ request' = request
    BY <2>1 DEF CommitDecision, Marked
  <2>3. ASSUME NEW l \in links, l.source = c, l.target = d
        PROVE  \E m \in links' : m.source = c /\ m.target = d
    <3>1. LinkOK(l)
      BY <1>0 DEF CorrelationTypeOK
    <3>2. PICK m \in links' : m = Marked(o, l)
      BY <2>2
    <3>3. m.source = c /\ m.target = d
      BY <2>3, <3>1, <3>2 DEF Marked, LinkOK, Link
    <3>4. QED
      BY <3>3
  <2>4. QED
    BY <2>2, <2>3 DEF Knows
<1>4. CASE UNCHANGED <<links, request>>
  BY <1>4 DEF Knows
<1>5. QED
  <2>1. CASE \E x \in Complaints : FileComplaint(x)
    BY <1>4, <2>1 DEF FileComplaint
  <2>2. CASE \E r \in Requests : LookUp(r) \/ Embed(r) \/ Search(r) \/ Lose(r)
    BY <1>0, <1>1, <2>2 DEF Preparing
  <2>3. CASE \E x \in Complaints, r \in Requests : Start(r, x)
    BY <1>1, <2>3 DEF Preparing
  <2>4. CASE UNCHANGED vars \/ \E o \in Decisions : \/ LockLink(o) \/ DropDecision(o)
             \/ \E l \in links, verdict \in {"CONFIRMED", "REJECTED"} : ReadLink(o, l, verdict)
    BY <1>4, <2>4 DEF vars, LockLink, DropDecision, ReadLink
  <2>5. QED
    BY <1>2, <1>3, <2>1, <2>2, <2>3, <2>4 DEF Next

LEMMA OneKnowsStep ==
  ASSUME RoomForAll, CorrelationInv, OneKnows, [Next]_vars
  PROVE  OneKnows'
<1>1. CASE reported' = reported
  <2>1. ASSUME NEW c \in reported, NEW d \in reported, c # d, Near(c, d)
        PROVE  Knows(c, d)' \/ Knows(d, c)'
    <3>1. Near(d, c)
      BY <2>1, NearIsMutual DEF CorrelationInv, CorrelationTypeOK, Shapes
    <3>2. QED
      BY <2>1, <3>1, KnowsOn DEF OneKnows
  <2>2. QED
    BY <1>1, <2>1 DEF OneKnows, Near, Distance
<1>2. CASE \E x \in Complaints : FileComplaint(x)
  <2>1. PICK x \in Complaints : FileComplaint(x)
    BY <1>2
  <2>2. x \notin reported /\ reported' = reported \cup {x} /\ links' = links /\ request' = request
    BY <2>1 DEF FileComplaint
  <2>3. \A r \in Requests : request[r].at \in {"RANKED", "DONE"} => request[r].complaint # x
    BY <2>2 DEF CorrelationInv, CorrelationTypeOK, RequestsOK, Linked
  <2>4. \A d : Knows(x, d)'
    BY <2>2, <2>3 DEF Knows
  <2>5. \A c, d : Knows(c, d) => Knows(c, d)'
    BY <2>2 DEF Knows
  <2>6. QED
    BY <2>2, <2>4, <2>5 DEF OneKnows, Near, Distance
<1>3. QED
  BY <1>1, <1>2 DEF Next, vars, Start, LookUp, Embed, Search, Lose, Persist, ReadLink, LockLink,
     CommitDecision, DropDecision

\* Two complaints of one place that were both compared are linked, unless an
\* officer turned a link of theirs down, whichever way their runs, other runs and
\* decisions overlap: as long as the agent keeps every candidate.
THEOREM NeighboursAreLinked == ASSUME RoomForAll PROVE Spec => []NeighboursMeet
<1>1. CorrelationInv /\ OneKnows => NeighboursMeet
  <2> SUFFICES ASSUME CorrelationInv, OneKnows, NEW r \in Requests, NEW q \in Requests,
                      request[r].at = "DONE", request[q].at = "DONE",
                      request[r].complaint # request[q].complaint,
                      Near(request[r].complaint, request[q].complaint)
               PROVE  \/ request[q].complaint \in Cluster(request[r].complaint)
                      \/ \E l \in links : /\ l.status = "REJECTED"
                                          /\ {l.source, l.target} = {request[r].complaint, request[q].complaint}
    BY DEF NeighboursMeet
  <2>1. request[r].complaint \in reported /\ request[q].complaint \in reported
    BY DEF CorrelationInv, CorrelationTypeOK, RequestsOK, Linked
  <2>2. \/ \E l \in links : l.source = request[r].complaint /\ l.target = request[q].complaint
        \/ \E l \in links : l.source = request[q].complaint /\ l.target = request[r].complaint
    BY <2>1 DEF OneKnows, Knows
  <2>3. QED
    BY <2>2 DEF Cluster
<1>2. CorrelationInv /\ OneKnows /\ [Next]_vars => OneKnows'
  BY OneKnowsStep
<1>3. Init => OneKnows
  BY CorrelationStart
<1>4. QED
  BY <1>1, <1>2, <1>3, CorrelationIsSound, PTL DEF Spec

=============================================================================
