----------------------------- MODULE MCScreens -----------------------------
(* What people work with in their browsers: the pages of one order, with two *)
(* workers who may hold it one after the other, the message panes of a       *)
(* citizen with two complaints and of the representative of one of them, or  *)
(* the wizard a report is filed with, its photos or its places.              *)
EXTENDS Screens, Conversations, ReportWizard, TLC

CONSTANTS ann, rep, t1, t2, p1, p2, north, south

VARIABLE focus  \* which of the four a behaviour is about

WorkerSymmetry == Permutations(Workers)

MCOwner == [c \in {t1, t2} |-> ann]
MCReps == t1 :> {rep} @@ t2 :> {}

\* Bound: two requests at a time, or the representative's one, who attaches
\* nothing.
FewRequests ==
  /\ Cardinality(sends') + Cardinality(uploads') <= 2
  /\ \A r \in sends' \cup uploads' : r.by = rep => sends' \cup uploads' = {r}
  /\ \A a \in uploads' : a.by = ann

MCWardAt == p1 :> north @@ p2 :> south

\* Bounds: with photos, one place and no positions; with places, one complaint
\* and two lookups at a time.
Photos == fixes' = {} /\ form'.place # p2
Pins == transfers' = {} /\ Len(filed') <= 1 /\ Cardinality(lookups') <= 2

MCInit ==
  /\ ScreenInit /\ ThreadInit /\ WizardInit
  /\ focus \in {"order", "thread", "photos", "pins"}
  /\ focus \in {"order", "thread"} => signedIn
MCNext ==
  /\ UNCHANGED focus
  /\ CASE focus = "order" -> ScreenNext /\ UNCHANGED <<threadVars, wizardVars>>
       [] focus = "thread" -> ThreadNext /\ FewRequests /\ UNCHANGED <<screenVars, wizardVars>>
       [] focus = "photos" -> WizardNext /\ Photos /\ UNCHANGED <<screenVars, threadVars>>
       [] OTHER -> WizardNext /\ Pins /\ UNCHANGED <<screenVars, threadVars>>
MCSpec == MCInit /\ [][MCNext]_<<screenVars, threadVars, wizardVars, focus>>
=============================================================================
