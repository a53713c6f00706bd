---------------------------- MODULE Conversations ----------------------------
(***************************************************************************)
(* The messages about a complaint and the pane they are written in.        *)
(*                                                                         *)
(* An attachment is uploaded first and linked when its message is sent.    *)
(* A send reads its attachments, then commits the message, the links and   *)
(* the notifications together; two sends may overlap in between.  The pane *)
(* keeps the text and the staged files when a send fails, so it is sent    *)
(* again although the first may have been stored; and it is not keyed by   *)
(* its complaint: an answer that comes after the user has switched to      *)
(* another thread lands there.                                             *)
(***************************************************************************)
EXTENDS Naturals, FiniteSets, Sequences

CONSTANTS
  Nothing,     \* no thread
  Threads,     \* complaints
  Citizens,    \* users with role CITIZEN
  Staff,       \* representatives
  Officials,   \* officers and administrators
  Owner,       \* the citizen of each complaint
  Reps,        \* the representatives of each complaint's ward
  MaxMessages, \* bound: messages
  MaxFiles,    \* bound: uploads
  MaxSends     \* bound: sends

Users == Citizens \cup Staff \cup Officials

ASSUME ThreadAssumption ==
  /\ Nothing \notin Threads /\ Citizens \cap (Staff \cup Officials) = {}
  /\ Owner \in [Threads -> Citizens] /\ Reps \in [Threads -> SUBSET Staff]
  /\ MaxMessages \in Nat /\ MaxFiles \in Nat /\ MaxSends \in Nat

VARIABLES
  opened,    \* conversations, by complaint
  messages,  \* messages in the order they were committed
  files,     \* message_attachments; message is 0 until it is linked
  reads,     \* message_reads
  told,      \* MESSAGE notifications
  pane,      \* what each user has on the screen
  sends,     \* POST .../messages requests under way
  uploads,   \* POST .../attachments requests under way
  lapped     \* history: two sends that read the same file overlapped

serverVars == <<opened, messages, files, reads, told>>
threadVars == <<serverVars, pane, sends, uploads, lapped>>

File == 1..MaxFiles
Message == [about : Threads, author : Users, files : SUBSET File]
Attachment == [about : Threads, by : Users, message : 0..MaxMessages]
Pane == [at : Threads \cup {Nothing},      \* complaintId
         shown : Threads \cup {Nothing},   \* the thread that was loaded
         step : {"idle", "loading", "marking"},
         staged : SUBSET File]
Sending == [id : 1..MaxSends, by : Users, about : Threads, files : SUBSET File,
            phase : {"sent", "open", "stored", "refused"},
            first : BOOLEAN,    \* it found no conversation
            awaited : BOOLEAN]  \* the pane still waits for it
Uploading == [by : Users, about : Threads, file : 0..MaxFiles, awaited : BOOLEAN]

Closed == [at |-> Nothing, shown |-> Nothing, step |-> "idle", staged |-> {}]

ThreadInit ==
  /\ opened = {} /\ messages = << >> /\ files = << >> /\ reads = {} /\ told = {}
  /\ pane = [u \in Users |-> Closed]
  /\ sends = {} /\ uploads = {} /\ lapped = FALSE

\* _load_complaint_for_participant
MayTakePart(u, c) == u = Owner[c] \/ u \in Reps[c] \cup Officials

NotMine(u, c) == {i \in DOMAIN messages : messages[i].about = c /\ messages[i].author # u}
Unread(u, c) == {i \in NotMine(u, c) : <<i, u>> \notin reads}

\* _notify_new_message: the citizen's ward is told, or the citizen.
Recipients(u, c) == IF u = Owner[c] THEN Reps[c] ELSE {Owner[c]}

-----------------------------------------------------------------------------
(* The pane *)

\* The pane is emptied for the thread it shows next; what it waits for stays.
Select(u, c) ==
  /\ pane[u].at # c /\ MayTakePart(u, c)
  /\ pane' = [pane EXCEPT ![u] =
       [at |-> c, shown |-> Nothing, step |-> "loading", staged |-> {}]]
  /\ UNCHANGED <<serverVars, sends, uploads, lapped>>

\* Back to the inbox: the pane is gone, and nobody waits for its requests.
Leave(u) ==
  /\ pane[u].at # Nothing
  /\ pane' = [pane EXCEPT ![u] = Closed]
  /\ sends' = {[s EXCEPT !.awaited = @ /\ s.by # u] : s \in sends}
  /\ uploads' = {[a EXCEPT !.awaited = @ /\ a.by # u] : a \in uploads}
  /\ UNCHANGED <<serverVars, lapped>>

\* A thread with messages the user has not read is marked.
Loaded(u) ==
  /\ pane[u].step = "loading"
  /\ pane' = [pane EXCEPT ![u].shown = pane[u].at,
                          ![u].step = IF Unread(u, pane[u].at) = {} THEN "idle" ELSE "marking"]
  /\ UNCHANGED <<serverVars, sends, uploads, lapped>>

\* A load or a mark that fails leaves what was shown.
LoadFails(u) ==
  /\ pane[u].step # "idle"
  /\ pane' = [pane EXCEPT ![u].step = "idle"]
  /\ UNCHANGED <<serverVars, sends, uploads, lapped>>

\* mark_conversation_read: whatever is there by now, shown or not.  A mark the
\* user walks away from is served before he is gone.
MarkRead(u) ==
  /\ pane[u].step = "marking"
  /\ reads' = reads \cup (Unread(u, pane[u].at) \X {u})
  /\ \/ pane' = [pane EXCEPT ![u].shown = pane[u].at, ![u].step = "idle"]
     \/ pane' = [pane EXCEPT ![u].step = "idle"]  \* the answer is lost
  /\ UNCHANGED <<opened, messages, files, told, sends, uploads, lapped>>

-----------------------------------------------------------------------------
(* Attachments *)

\* One upload and one send at a time: uploading, sending.
Waits(u, requests) == \E r \in requests : r.by = u /\ r.awaited

HandleFile(u) ==
  /\ pane[u].shown # Nothing /\ ~Waits(u, uploads)
  /\ Len(files) + Cardinality(uploads) < MaxFiles
  /\ uploads' = uploads \cup {[by |-> u, about |-> pane[u].at, file |-> 0, awaited |-> TRUE]}
  /\ UNCHANGED <<serverVars, pane, sends, lapped>>

\* upload_attachment: a row of its own, linked to nothing.
StoreFile(a) ==
  /\ a.file = 0
  /\ files' = Append(files, [about |-> a.about, by |-> a.by, message |-> 0])
  /\ uploads' = (uploads \ {a}) \cup {[a EXCEPT !.file = Len(files) + 1]}
  /\ UNCHANGED <<opened, messages, reads, told, pane, sends, lapped>>

\* Staged in whichever thread the pane is at by now.
Staged(a) ==
  /\ a.file # 0
  /\ uploads' = uploads \ {a}
  /\ pane' = IF a.awaited THEN [pane EXCEPT ![a.by].staged = @ \cup {a.file}] ELSE pane
  /\ UNCHANGED <<serverVars, sends, lapped>>

\* Refused, or its answer is lost.
UploadFails(a) ==
  /\ uploads' = uploads \ {a}
  /\ UNCHANGED <<serverVars, pane, sends, lapped>>

Unstage(u, f) ==
  /\ pane[u].shown # Nothing /\ f \in pane[u].staged
  /\ pane' = [pane EXCEPT ![u].staged = @ \ {f}]
  /\ UNCHANGED <<serverVars, sends, uploads, lapped>>

-----------------------------------------------------------------------------
(* Sending *)

\* The text is typed, kept from a send that failed, or taken from the suggested
\* reply; no draft is sent by itself.
HandleSend(u) ==
  /\ pane[u].shown # Nothing /\ ~Waits(u, sends)
  /\ \E id \in 1..MaxSends :
       /\ {s.id : s \in sends} \cap 1..id = 1..(id - 1)
       /\ sends' = sends \cup {[id |-> id, by |-> u, about |-> pane[u].at, files |-> pane[u].staged,
                                phase |-> "sent", first |-> FALSE, awaited |-> TRUE]}
  /\ UNCHANGED <<serverVars, pane, uploads, lapped>>

\* Mutant: whether an attachment is used is not checked.
UsableAgain(s, f) == files[f].by = s.by /\ files[f].about = s.about

Usable(s, f) == files[f].by = s.by /\ files[f].about = s.about /\ files[f].message = 0

Phase(s, phase) == (sends \ {s}) \cup {[s EXCEPT !.phase = phase]}

\* send_message up to its commit: the conversation and the attachments are
\* read; one that cannot be used rolls everything back.
BeginSend(s) ==
  /\ s.phase = "sent"
  /\ IF \A f \in s.files : Usable(s, f)
     THEN /\ sends' = (sends \ {s}) \cup {[s EXCEPT !.phase = "open", !.first = s.about \notin opened]}
          /\ lapped' = (lapped \/ \E q \in sends : q.phase = "open" /\ q.files \cap s.files # {})
     ELSE sends' = Phase(s, "refused") /\ UNCHANGED lapped
  /\ UNCHANGED <<serverVars, pane, uploads>>

\* The second of two first messages meets the unique key.
CommitSend(s) ==
  /\ s.phase = "open"
  /\ IF s.first /\ s.about \in opened
     THEN sends' = Phase(s, "refused") /\ UNCHANGED serverVars
     ELSE LET id == Len(messages) + 1 IN
          /\ id <= MaxMessages
          /\ opened' = opened \cup {s.about}
          /\ messages' = Append(messages, [about |-> s.about, author |-> s.by, files |-> s.files])
          /\ files' = [f \in DOMAIN files |->
                         IF f \in s.files THEN [files[f] EXCEPT !.message = id] ELSE files[f]]
          /\ told' = told \cup ({id} \X (Recipients(s.by, s.about) \ {s.by}))
          /\ sends' = Phase(s, "stored")
          /\ UNCHANGED reads
  /\ UNCHANGED <<pane, uploads, lapped>>

\* The thread of the answer is shown and the pane emptied, wherever it is now.
Answered(s) ==
  /\ s.phase \in {"stored", "refused"}
  /\ sends' = sends \ {s}
  /\ pane' = IF s.awaited /\ s.phase = "stored"
             THEN [pane EXCEPT ![s.by].shown = s.about, ![s.by].staged = {}]
             ELSE pane
  /\ UNCHANGED <<serverVars, uploads, lapped>>

\* The pane gives up: the request is lost, or only its answer will be.
SendFails(s) ==
  /\ s.awaited
  /\ \/ s.phase = "sent" /\ sends' = sends \ {s}
     \/ sends' = (sends \ {s}) \cup {[s EXCEPT !.awaited = FALSE]}
  /\ UNCHANGED <<serverVars, pane, uploads, lapped>>

ThreadNext ==
  \/ \E u \in Users :
       \/ \E c \in Threads : Select(u, c)
       \/ Leave(u) \/ Loaded(u) \/ LoadFails(u) \/ MarkRead(u)
       \/ HandleFile(u) \/ HandleSend(u)
       \/ \E f \in DOMAIN files : Unstage(u, f)
  \/ \E a \in uploads : StoreFile(a) \/ Staged(a) \/ UploadFails(a)
  \/ \E s \in sends : BeginSend(s) \/ CommitSend(s) \/ Answered(s) \/ SendFails(s)

ThreadSpec == ThreadInit /\ [][ThreadNext]_threadVars

-----------------------------------------------------------------------------
ThreadTypeOK ==
  /\ opened \subseteq Threads
  /\ messages \in Seq(Message) /\ files \in Seq(Attachment)
  /\ reads \cup told \subseteq (DOMAIN messages) \X Users
  /\ pane \in [Users -> Pane]
  /\ sends \subseteq Sending /\ uploads \subseteq Uploading /\ lapped \in BOOLEAN

\* A message keeps exactly the attachments it was posted with, each of its own
\* author and complaint, and none is posted a second time, though a send is
\* repeated after its answer was lost and files are staged in another thread;
\* only two sends that overlap can take a file from each other.
AttachmentsStay ==
  /\ \A i \in DOMAIN messages : \A f \in messages[i].files :
       files[f].about = messages[i].about /\ files[f].by = messages[i].author
  /\ ~lapped => \A f \in DOMAIN files :
       {i \in DOMAIN messages : f \in messages[i].files} = {files[f].message} \ {0}
=============================================================================
