----------------------------- MODULE OfflineQueue -----------------------------
(***************************************************************************)
(* The offline queue of the field worker's app (offline-queue.ts) and the  *)
(* client_ref check of the server it syncs with (field_worker_service).    *)
(*                                                                         *)
(* A run is one call of processQueue: it works on a snapshot of the        *)
(* stored queue, sends one action at a time and writes the stored queue    *)
(* back when it stops.  Nothing keeps runs apart: the layout and the order *)
(* page each start one on the same "online" event, on mount and on every   *)
(* tap.  A call is one request of a run; it lives on the server also when  *)
(* the client has given it up, and the server may get to it late or never. *)
(* isOnline() is not modelled: it only delays the start of a run, which    *)
(* may be delayed anyway.                                                  *)
(***************************************************************************)
EXTENDS Naturals, Sequences, FiniteSets, SequencesExt

CONSTANTS
  Actions,   \* queued actions, each with its own client_ref
  Photos,    \* the actions that carry a photo
  Accepts,   \* the actions of kind "accept"
  Runs,      \* calls of processQueue that may overlap
  Room,      \* photos that fit into localStorage
  MaxCalls   \* bound: requests sent

ASSUME ActionsAssumption == Photos \subseteq Actions /\ Accepts \subseteq Actions
ASSUME LimitsAssumption == Room \in Nat /\ MaxCalls \in Nat

VARIABLES
  queue,     \* the stored queue
  tapped,    \* the actions the worker has tapped
  saved,     \* those he was told are saved, in that order
  rest,      \* rest[r]: what run r has left of its snapshot
  call,      \* call[r]: the request r waits for, 0 when there is none
  active,    \* runs under way
  calls,     \* every request ever sent
  recorded,  \* recorded[a]: activity rows with the client_ref of a
  \* History, which nothing reads back:
  blind,     \* blind[r]: saved since run r took its snapshot
  erased,    \* erased from the queue by a write that did not send them
  raced      \* copies of it looked for a replay before either was recorded

clientVars == <<queue, tapped, saved, rest, call, active, blind, erased>>
vars == <<clientVars, calls, recorded, raced>>

CallState == {"sent", "passed", "ok", "rejected", "error"}
Call == [ref : Actions, state : CallState]

-----------------------------------------------------------------------------
(* The stored queue *)

Fits(items) == Cardinality(ToSet(items) \cap Photos) <= Room

\* The members of S in their order: the only rising function onto S.
Rising(S) ==
  {f \in [1..Cardinality(S) -> S] :
     /\ Range(f) = S
     /\ \A m, n \in DOMAIN f : m < n => f[m] < f[n]}

Photoless(items) ==
  {[n \in DOMAIN f |-> items[f[n]]] :
     f \in Rising({i \in DOMAIN items : items[i] \notin Photos})}

\* writeQueue: when the items do not fit, all photos are left out.  (SelectSeq
\* is put by positions: what it leaves of a queue is the one member.)
Written(items) == IF Fits(items) THEN {items} ELSE Photoless(items)

\* Nothing is reported as saved by a write that left something out.
Enqueue(a) ==
  /\ a \notin tapped
  /\ tapped' = tapped \cup {a}
  /\ queue' \in Written(Append(queue, a))
  /\ IF Fits(Append(queue, a))
       THEN /\ saved' = Append(saved, a)
            /\ blind' = [r \in Runs |-> IF r \in active THEN blind[r] \cup {a} ELSE {}]
            /\ UNCHANGED erased
       ELSE /\ erased' = erased \cup (ToSet(Append(queue, a)) \cap Photos)
            /\ UNCHANGED <<saved, blind>>
  /\ UNCHANGED <<rest, call, active, calls, recorded, raced>>

-----------------------------------------------------------------------------
(* A run of processQueue *)

Begin(r) ==
  /\ r \notin active /\ queue # <<>>
  /\ active' = active \cup {r}
  /\ rest' = [rest EXCEPT ![r] = queue]
  /\ UNCHANGED <<queue, tapped, saved, call, calls, recorded, blind, erased, raced>>

Send(r) ==
  /\ r \in active /\ call[r] = 0 /\ rest[r] # <<>>
  /\ Len(calls) < MaxCalls
  /\ calls' = Append(calls, [ref |-> Head(rest[r]), state |-> "sent"])
  /\ call' = [call EXCEPT ![r] = Len(calls) + 1]
  /\ UNCHANGED <<queue, tapped, saved, rest, active, recorded, blind, erased, raced>>

\* Synced, or rejected for good: the run goes on with the next action.
Advance(r) ==
  /\ call[r] # 0 /\ calls[call[r]].state \in {"ok", "rejected"}
  /\ rest' = [rest EXCEPT ![r] = Tail(@)]
  /\ call' = [call EXCEPT ![r] = 0]
  /\ UNCHANGED <<queue, tapped, saved, active, calls, recorded, blind, erased, raced>>

\* Mutant: the failed item is kept, what follows it is forgotten.
KeepFailedOnly(r) == <<Head(rest[r])>>

\* Mutant: the failed item goes to the end of the queue.
RetainedBehind(r) == Append(Tail(rest[r]), Head(rest[r]))

\* What a stopping run writes back: the failed item and all that follows it.
Retained(r) == rest[r]

Leave(r) ==
  /\ active' = active \ {r}
  /\ call' = [call EXCEPT ![r] = 0]
  /\ rest' = [rest EXCEPT ![r] = <<>>]
  /\ blind' = [blind EXCEPT ![r] = {}]
  /\ UNCHANGED <<tapped, saved, calls, recorded, raced>>

\* A run overwrites the stored queue with what it made of its snapshot,
\* whatever was saved or sent since it was taken.
WriteBack(r, items) ==
  /\ queue' \in Written(items)
  /\ erased' = erased \cup (blind[r] \cap ToSet(queue))
  /\ Leave(r)

\* A 401 or 5xx answer.
Stop(r) ==
  /\ call[r] # 0 /\ calls[call[r]].state = "error"
  /\ WriteBack(r, Retained(r))

\* No answer within API_TIMEOUT_MS (ApiError with status 0), or no network:
\* the request or its answer is lost, or still under way.
TimeOut(r) ==
  /\ call[r] # 0
  /\ WriteBack(r, Retained(r))

\* The page is closed or reloaded: nothing is written back.
Abandon(r) ==
  /\ r \in active
  /\ Leave(r)
  /\ UNCHANGED <<queue, erased>>

Finish(r) ==
  /\ r \in active /\ rest[r] = <<>>
  /\ WriteBack(r, <<>>)

-----------------------------------------------------------------------------
(* The server *)

\* Mutant: replays are not looked for.
SeenNever(a) == FALSE

\* A row with this worker's client_ref exists.
Seen(a) == recorded[a] > 0

Settle(n, S, outcome) ==
  /\ calls[n].state \in S
  /\ calls' = [calls EXCEPT ![n].state = outcome]

\* Another copy passed the select and is not recorded yet.
Overtakes(n) ==
  \E m \in DOMAIN calls \ {n} : calls[m] = [ref |-> calls[n].ref, state |-> "passed"]

\* The select before the insert: a replay is answered with the current state.
Check(n) ==
  /\ Settle(n, {"sent"}, IF Seen(calls[n].ref) THEN "ok" ELSE "passed")
  /\ raced' = IF ~Seen(calls[n].ref) /\ Overtakes(n) THEN raced \cup {calls[n].ref} ELSE raced
  /\ UNCHANGED <<clientVars, recorded>>

\* An accept of a job that is no longer ASSIGNED is answered and not recorded.
Ignore(n) ==
  /\ calls[n].ref \in Accepts
  /\ Settle(n, {"sent"}, "ok")
  /\ UNCHANGED <<clientVars, recorded, raced>>

Commit(n) ==
  /\ Settle(n, {"passed"}, "ok")
  /\ recorded' = [recorded EXCEPT ![calls[n].ref] = @ + 1]
  /\ UNCHANGED <<clientVars, raced>>

\* A 4xx answer: not the worker's order, or not a status for this step (the
\* order is looked up before the client_ref is, so also for a replay).
Refuse(n) ==
  /\ Settle(n, {"sent", "passed"}, "rejected")
  /\ UNCHANGED <<clientVars, recorded, raced>>

\* The server fails before it commits.
Break(n) ==
  /\ Settle(n, {"sent", "passed"}, "error")
  /\ UNCHANGED <<clientVars, recorded, raced>>

-----------------------------------------------------------------------------
Init ==
  /\ queue = <<>> /\ tapped = {} /\ saved = <<>>
  /\ rest = [r \in Runs |-> <<>>]
  /\ call = [r \in Runs |-> 0]
  /\ active = {}
  /\ calls = <<>>
  /\ recorded = [a \in Actions |-> 0]
  /\ blind = [r \in Runs |-> {}] /\ erased = {} /\ raced = {}

RunStep(r) ==
  \/ Begin(r) \/ Send(r) \/ Advance(r) \/ Stop(r) \/ TimeOut(r) \/ Abandon(r)
  \/ Finish(r)

ServerStep(n) == Check(n) \/ Ignore(n) \/ Commit(n) \/ Refuse(n) \/ Break(n)

Next ==
  \/ \E a \in Actions : Enqueue(a)
  \/ \E r \in Runs : RunStep(r)
  \/ \E n \in DOMAIN calls : ServerStep(n)

Spec == Init /\ [][Next]_vars

-----------------------------------------------------------------------------
\* Queues hold actions, and a run waits for a request that was sent.
TypeOK ==
  /\ queue \in Seq(Actions) /\ saved \in Seq(Actions)
  /\ rest \in [Runs -> Seq(Actions)]
  /\ call \in [Runs -> 0..Len(calls)]
  /\ active \subseteq Runs
  /\ calls \in Seq(Call)
  /\ recorded \in [Actions -> Nat]
  /\ blind \in [Runs -> SUBSET Actions]
  /\ tapped \subseteq Actions /\ erased \subseteq Actions /\ raced \subseteq Actions

Answered(a) ==
  \E n \in DOMAIN calls : calls[n].ref = a /\ calls[n].state \in {"ok", "rejected"}

\* What the queue's comments promise: the same action is never applied twice.
AppliedOnce == \A a \in Actions : recorded[a] <= 1

\* What the queue's comments promise: an action that was reported as saved is
\* queued, until the server has answered it.
KeptUntilAnswered ==
  \A a \in ToSet(saved) : a \in ToSet(queue) \/ Answered(a)

\* What the code keeps of the first: after any number of timeouts, reloads,
\* server failures and overlapping runs an action is applied again only if two
\* of its copies looked for a replay before either was recorded.
AppliedOnceUnlessRaced == \A a \in Actions : recorded[a] <= 1 \/ a \in raced

\* What the code keeps of the second: a saved action leaves the queue unanswered
\* only when a run that started before it was saved writes its snapshot over it,
\* or a photo squeezes the photos out.  No run forgets a part of its own snapshot,
\* and none that is overtaken by another's writes does worse than to send again.
KeptUnlessErased ==
  \A a \in ToSet(saved) \ erased : a \in ToSet(queue) \/ Answered(a)

\* However runs, taps and late requests interleave, the server records no step
\* of the worker's before it has answered each earlier one that was not erased.
SentInOrder ==
  \A j \in DOMAIN saved : \A i \in 1..(j - 1) :
    recorded[saved[j]] > 0 => Answered(saved[i]) \/ saved[i] \in erased
=============================================================================
