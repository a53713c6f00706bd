---------------------------- MODULE AccountProofs ----------------------------
(***************************************************************************)
(* Theorems about OfflineQueue, Sessions and Administration: what keeps a  *)
(* replay from being applied again, and what was saved from being          *)
(* forgotten or overtaken, for any actions, overlapping runs, taps and     *)
(* losses; what a logout ends and what an expiry does not, for any number  *)
(* of tabs, requests, refreshes and troubles; and that somebody can always *)
(* administer, for any accounts, roles and overlapping requests.           *)
(***************************************************************************)
EXTENDS OfflineQueue, Sessions, Administration, FiniteSetTheorems, SequenceTheorems, TLAPS

-----------------------------------------------------------------------------
(* The offline queue, for any actions, any number of overlapping runs, taps  *)
(* at any time and requests that are answered late, never or twice.          *)

LEMMA QueueFacts ==
  ASSUME NEW q \in Seq(Actions)
  PROVE  /\ Len(q) \in Nat /\ DOMAIN q = 1..Len(q) /\ ToSet(q) \subseteq Actions
         /\ \A i \in 1..Len(q) : q[i] \in ToSet(q)
         /\ \A x \in ToSet(q) : \E i \in 1..Len(q) : q[i] = x
<1>1. Len(q) \in Nat /\ DOMAIN q = 1..Len(q)
  BY LenProperties
<1>2. QED
  BY <1>1, ElementOfSeq DEF ToSet

\* The photos of a queue are finitely many, and fewer when it has less in it.
LEMMA LessFits ==
  ASSUME NEW q \in Seq(Actions), Fits(q), NEW t, ToSet(t) \subseteq ToSet(q)
  PROVE  Fits(t)
<1>1. IsFiniteSet(ToSet(q))
  <2>1. IsFiniteSet(1..Len(q))
    BY QueueFacts, FS_Interval
  <2>2. PICK f : f = [i \in 1..Len(q) |-> q[i]]
    OBVIOUS
  <2>3. f \in Surjection(1..Len(q), ToSet(q))
    BY <2>2, QueueFacts DEF Surjection
  <2>4. QED
    BY <2>1, <2>3, FS_Surjection
<1>2. IsFiniteSet(ToSet(q) \cap Photos) /\ ToSet(t) \cap Photos \subseteq ToSet(q) \cap Photos
  BY <1>1, FS_Subset
<1>3. /\ Cardinality(ToSet(t) \cap Photos) <= Cardinality(ToSet(q) \cap Photos)
      /\ Cardinality(ToSet(t) \cap Photos) \in Nat /\ Cardinality(ToSet(q) \cap Photos) \in Nat
  BY <1>2, FS_Subset, FS_CardinalityType
<1>4. QED
  BY <1>3, LimitsAssumption DEF Fits

\* b was saved before a.
Before(b, a) ==
  \E j \in DOMAIN saved : \E i \in 1..(j - 1) : saved[i] = b /\ saved[j] = a

\* Nothing is owed to b any more.
Done(b) == Answered(b) \/ b \in erased

\* What was saved before a member of q is done, or comes before it in q.
Ordered(q) ==
  \A n \in 1..Len(q) : \A b \in Actions :
    Before(b, q[n]) => Done(b) \/ \E m \in 1..(n - 1) : q[m] = b

\* q is a queue that holds all that is owed, but for what is in X.
Sound(q, X) ==
  /\ q \in Seq(Actions) /\ ToSet(q) \subseteq tapped /\ Fits(q) /\ Ordered(q)
  /\ \A b \in ToSet(saved) : Done(b) \/ b \in ToSet(q) \/ b \in X

Due(a) == a \in tapped /\ \A b \in Actions : Before(b, a) => Done(b)

RunSound(r) ==
  /\ r \in active => Sound(rest[r], blind[r])
  /\ call[r] # 0 => r \in active /\ rest[r] # <<>> /\ calls[call[r]].ref = Head(rest[r])

\* The stored queue holds all that is owed, and what a run has left of its
\* snapshot all but what was saved behind its back, both in order; whatever was
\* sent was due, and only what was sent is recorded.
KeptInv ==
  /\ TypeOK /\ ToSet(saved) \subseteq tapped
  /\ Sound(queue, {})
  /\ \A r \in Runs : RunSound(r)
  /\ \A n \in 1..Len(calls) : Due(calls[n].ref)
  /\ \A a \in Actions : recorded[a] > 0 => \E n \in 1..Len(calls) : calls[n].ref = a

\* Requests are only added, and an answer is never taken back.
AnswersStay ==
  \A n \in 1..Len(calls) :
    /\ n \in 1..Len(calls') /\ calls'[n].ref = calls[n].ref
    /\ calls[n].state \in {"ok", "rejected"} => calls'[n].state = calls[n].state

LEMMA AnsweredStays ==
  ASSUME TypeOK, calls' \in Seq(Call), AnswersStay, NEW a, Answered(a)
  PROVE  Answered(a)'
<1>1. DOMAIN calls = 1..Len(calls) /\ DOMAIN calls' = 1..Len(calls')
  BY LenProperties DEF TypeOK
<1>2. PICK n \in DOMAIN calls : calls[n].ref = a /\ calls[n].state \in {"ok", "rejected"}
  BY DEF Answered
<1>3. n \in DOMAIN calls' /\ calls'[n].ref = a /\ calls'[n].state \in {"ok", "rejected"}
  BY <1>1, <1>2 DEF AnswersStay
<1>4. QED
  BY <1>3 DEF Answered

\* A step that saves nothing takes nothing back.
LEMMA SoundStays ==
  ASSUME TypeOK, calls' \in Seq(Call), AnswersStay, saved' = saved,
         erased \subseteq erased', tapped \subseteq tapped'
  PROVE  /\ \A b : Done(b) => Done(b)'
         /\ \A b, a : Before(b, a)' <=> Before(b, a)
         /\ \A q, X : Sound(q, X) => Sound(q, X)'
         /\ \A a : Due(a) => Due(a)'
<1>1. \A b : Done(b) => Done(b)'
  BY AnsweredStays DEF Done
<1>2. \A b, a : Before(b, a)' <=> Before(b, a)
  BY DEF Before
<1>3. \A q, X : Sound(q, X) => Sound(q, X)'
  BY <1>1, <1>2 DEF Sound, Ordered, Fits
<1>4. \A a : Due(a) => Due(a)'
  BY <1>1, <1>2 DEF Due
<1>5. QED
  BY <1>1, <1>2, <1>3, <1>4

LEMMA KeptStart == Init => KeptInv
<1> SUFFICES ASSUME Init PROVE KeptInv
  OBVIOUS
<1>1. queue = <<>> /\ saved = <<>> /\ calls = <<>> /\ Len(saved) = 0 /\ Len(calls) = 0 /\ tapped = {}
      /\ ToSet(saved) = {} /\ ToSet(queue) = {}
  BY DEF Init, ToSet
<1>2. TypeOK
  BY <1>1 DEF Init, TypeOK
<1>3. Sound(queue, {})
  <2>1. Fits(queue)
    <3>1. ToSet(queue) \cap Photos = {}
      BY <1>1
    <3>2. QED
      BY <3>1, FS_EmptySet, LimitsAssumption DEF Fits
  <2>2. QED
    BY <1>1, <2>1 DEF Sound, Ordered
<1>4. QED
  BY <1>1, <1>2, <1>3 DEF Init, KeptInv, RunSound

\* A step that saves nothing.
LEMMA KeptStep ==
  ASSUME KeptInv, TypeOK', saved' = saved, AnswersStay, erased \subseteq erased',
         tapped \subseteq tapped', Sound(queue, {})',
         \A r \in Runs : /\ r \in active' => Sound(rest[r], blind[r])'
                         /\ call'[r] # 0 => r \in active' /\ rest'[r] # <<>> /\ calls'[call'[r]].ref = Head(rest'[r]),
         \A n \in 1..Len(calls') : n \in 1..Len(calls) \/ Due(calls'[n].ref),
         \A a \in Actions : recorded'[a] > 0 => recorded[a] > 0 \/ \E n \in 1..Len(calls) : calls[n].ref = a
  PROVE  KeptInv'
<1>1. calls' \in Seq(Call) /\ TypeOK
  BY DEF KeptInv, TypeOK
<1>2. \A n \in 1..Len(calls') : Due(calls[n].ref)'
  <2> SUFFICES ASSUME NEW n \in 1..Len(calls') PROVE Due(calls[n].ref)'
    OBVIOUS
  <2>1. Due(calls'[n].ref)
    BY DEF KeptInv, AnswersStay
  <2>2. PICK a : a = calls'[n].ref
    OBVIOUS
  <2>3. Due(a)'
    BY <1>1, <2>1, <2>2, SoundStays
  <2>4. QED
    BY <2>2, <2>3 DEF Due
<1>3. \A a \in Actions : recorded'[a] > 0 => \E n \in 1..Len(calls') : calls'[n].ref = a
  BY DEF KeptInv, AnswersStay
<1>4. \A r \in Runs : RunSound(r)'
  BY DEF RunSound
<1>5. Sound(queue, {})' /\ ToSet(saved') \subseteq tapped'
  BY DEF KeptInv
<1>6. QED
  BY <1>2, <1>3, <1>4, <1>5 DEF KeptInv

\* The same, by a run that leaves the others as they are.
LEMMA KeptByRun ==
  ASSUME KeptInv, TypeOK', AnswersStay, UNCHANGED <<saved, tapped, recorded>>,
         erased \subseteq erased', Sound(queue, {})', NEW r \in Runs,
         \A s \in Runs : s # r => /\ rest'[s] = rest[s] /\ call'[s] = call[s]
                                  /\ blind'[s] = blind[s] /\ (s \in active' <=> s \in active),
         r \in active' => Sound(rest[r], blind[r])',
         call'[r] # 0 => r \in active' /\ rest'[r] # <<>> /\ calls'[call'[r]].ref = Head(rest'[r]),
         \A n \in 1..Len(calls') : n \in 1..Len(calls) \/ Due(calls'[n].ref)
  PROVE  KeptInv'
<1>1. calls \in Seq(Call) /\ calls' \in Seq(Call) /\ TypeOK /\ Len(calls) \in Nat
  BY LenProperties DEF KeptInv, TypeOK
<1>2. ASSUME NEW s \in Runs
      PROVE  /\ s \in active' => Sound(rest[s], blind[s])'
             /\ call'[s] # 0 => s \in active' /\ rest'[s] # <<>> /\ calls'[call'[s]].ref = Head(rest'[s])
  <2>1. CASE s = r
    <3>1. s \in active' => Sound(rest[s], blind[s])'
      BY <2>1
    <3>2. QED
      BY <2>1, <3>1
  <2>2. CASE s # r
    <3>1. RunSound(s) /\ call[s] \in 0..Len(calls)
      BY <1>1 DEF KeptInv, TypeOK
    <3>2. s \in active' => Sound(rest[s], blind[s])'
      <4> SUFFICES ASSUME s \in active' PROVE Sound(rest[s], blind[s])'
        OBVIOUS
      <4>1. PICK q, X : q = rest[s] /\ X = blind[s]
        OBVIOUS
      <4>2. Sound(q, X) /\ q = rest'[s] /\ X = blind'[s]
        BY <2>2, <3>1, <4>1 DEF RunSound
      <4>3. Sound(q, X)'
        BY <1>1, <4>2, SoundStays
      <4>4. QED
        BY <4>2, <4>3 DEF Sound, Ordered, Fits
    <3>3. call'[s] # 0 => s \in active' /\ rest'[s] # <<>> /\ calls'[call'[s]].ref = Head(rest'[s])
      <4>1. call[s] # 0 => call[s] \in 1..Len(calls)
        BY <1>1, <3>1
      <4>2. QED
        BY <2>2, <3>1, <4>1 DEF RunSound, AnswersStay
    <3>4. QED
      BY <3>2, <3>3
  <2>3. QED
    BY <2>1, <2>2
<1>3. QED
  BY <1>2, KeptStep

\* What is at the head of a queue is due.
LEMMA HeadIsDue ==
  ASSUME NEW q, NEW X, Sound(q, X), q # <<>>
  PROVE  /\ Due(Head(q)) /\ Head(q) \in Actions
         /\ Tail(q) \in Seq(Actions) /\ Len(Tail(q)) = Len(q) - 1 /\ Len(q) \in Nat
         /\ \A i \in 1..(Len(q) - 1) : Tail(q)[i] = q[i + 1]
<1>1. q \in Seq(Actions)
  BY DEF Sound
<1>2. Len(q) \in Nat /\ Len(q) >= 1
  BY <1>1, EmptySeq, LenProperties
<1>3. Head(q) = q[1] /\ q[1] \in Actions /\ q[1] \in ToSet(q)
  BY <1>1, <1>2, HeadTailProperties, ElementOfSeq, QueueFacts
<1>4. Due(Head(q))
  BY <1>2, <1>3 DEF Sound, Ordered, Due
<1>5. QED
  BY <1>1, <1>2, <1>3, <1>4, HeadTailProperties

\* A run whose first action is answered goes on with the others.
LEMMA TailIsSound ==
  ASSUME NEW q, NEW X, Sound(q, X), q # <<>>, Answered(Head(q))
  PROVE  Sound(Tail(q), X)
<1>1. /\ q \in Seq(Actions) /\ Len(q) \in Nat /\ Head(q) = q[1]
      /\ Tail(q) \in Seq(Actions) /\ Len(Tail(q)) = Len(q) - 1
      /\ \A i \in 1..(Len(q) - 1) : Tail(q)[i] = q[i + 1]
  BY HeadIsDue, HeadTailProperties DEF Sound
<1>2. Len(q) >= 1
  BY <1>1, EmptySeq
<1>3. ToSet(Tail(q)) \subseteq ToSet(q)
  <2> SUFFICES ASSUME NEW x \in ToSet(Tail(q)) PROVE x \in ToSet(q)
    OBVIOUS
  <2>1. PICK i \in 1..Len(Tail(q)) : Tail(q)[i] = x
    BY <1>1, QueueFacts
  <2>2. i + 1 \in 1..Len(q) /\ q[i + 1] = x
    BY <1>1, <2>1
  <2>3. QED
    BY <1>1, <2>2, QueueFacts
<1>4. Fits(Tail(q))
  BY <1>1, <1>3, LessFits DEF Sound
<1>5. Ordered(Tail(q))
  <2> SUFFICES ASSUME NEW n \in 1..Len(Tail(q)), NEW b \in Actions, Before(b, Tail(q)[n]), ~Done(b)
               PROVE  \E m \in 1..(n - 1) : Tail(q)[m] = b
    BY DEF Ordered
  <2>1. n + 1 \in 1..Len(q) /\ Tail(q)[n] = q[n + 1] /\ n \in Nat
    BY <1>1
  <2>2. PICK m \in 1..n : q[m] = b
    <3>1. Before(b, q[n + 1])
      BY <2>1
    <3>2. \E m \in 1..((n + 1) - 1) : q[m] = b
      BY <2>1, <3>1 DEF Sound, Ordered
    <3>3. QED
      BY <2>1, <3>2
  <2>3. m # 1
    BY <1>1, <2>2 DEF Done
  <2>4. m - 1 \in 1..(n - 1) /\ m - 1 \in 1..(Len(q) - 1) /\ (m - 1) + 1 = m
    BY <1>1, <2>1, <2>2, <2>3
  <2>5. QED
    BY <1>1, <2>2, <2>4
<1>6. \A b \in ToSet(saved) : Done(b) \/ b \in ToSet(Tail(q)) \/ b \in X
  <2> SUFFICES ASSUME NEW b \in ToSet(saved), ~Done(b), b \notin X PROVE b \in ToSet(Tail(q))
    OBVIOUS
  <2>1. PICK i \in 1..Len(q) : q[i] = b
    BY <1>1, QueueFacts DEF Sound
  <2>2. i # 1
    BY <1>1, <2>1 DEF Done
  <2>3. i - 1 \in 1..(Len(q) - 1) /\ (i - 1) + 1 = i
    BY <1>1, <2>1, <2>2
  <2>4. Tail(q)[i - 1] = b /\ i - 1 \in 1..Len(Tail(q))
    BY <1>1, <2>1, <2>3
  <2>5. QED
    BY <1>1, <2>4, QueueFacts
<1>7. QED
  BY <1>1, <1>3, <1>4, <1>5, <1>6 DEF Sound

LEMMA KeptRun ==
  ASSUME KeptInv, NEW r \in Runs, RunStep(r)
  PROVE  KeptInv'
<1>1. /\ TypeOK /\ calls \in Seq(Call) /\ Len(calls) \in Nat /\ RunSound(r)
      /\ rest \in [Runs -> Seq(Actions)] /\ call \in [Runs -> 0..Len(calls)]
      /\ Sound(queue, {}) /\ blind \in [Runs -> SUBSET Actions]
  BY LenProperties DEF KeptInv, TypeOK
<1>2. AnswersStay /\ UNCHANGED <<saved, tapped, recorded>> /\ erased \subseteq erased' /\ calls' \in Seq(Call)
      /\ UNCHANGED raced
  <2>1. CASE Send(r)
    <3>1. PICK c : c = [ref |-> Head(rest[r]), state |-> "sent"]
      OBVIOUS
    <3>2. c \in Call /\ calls' = Append(calls, c)
      BY <1>1, <2>1, <3>1, HeadIsDue DEF Send, RunSound, Call, CallState
    <3>3. calls' \in Seq(Call) /\ Len(calls') = Len(calls) + 1 /\ \A n \in 1..Len(calls) : calls'[n] = calls[n]
      BY <1>1, <3>2, AppendProperties
    <3>4. QED
      BY <1>1, <2>1, <3>3 DEF Send, AnswersStay
  <2>2. CASE ~Send(r)
    BY <1>1, <2>2 DEF RunStep, Begin, Advance, Stop, TimeOut, Abandon, Finish, WriteBack, Leave, AnswersStay
  <2>3. QED
    BY <2>1, <2>2
<1>3. \A q, X : Sound(q, X) => Sound(q, X)'
  BY <1>1, <1>2, SoundStays
<1>4. CASE Begin(r)
  <2>1. rest'[r] = queue /\ call'[r] = 0
    <3>1. call[r] = 0
      BY <1>1, <1>4 DEF Begin, RunSound
    <3>2. QED
      BY <1>1, <1>4, <3>1 DEF Begin
  <2>2. TypeOK'
    BY <1>1, <1>4 DEF Begin, TypeOK
  <2>3. Sound(queue, {})'
    BY <1>1, <1>4 DEF Begin, Sound, Ordered, Fits, Done, Before, Answered
  <2>4. PICK q, X : q = queue /\ X = blind[r]
    OBVIOUS
  <2>5. Sound(q, {}) /\ Sound(q, X)
    BY <1>1, <2>4 DEF Sound
  <2>6. Sound(q, X)' /\ rest'[r] = q /\ blind'[r] = X
    BY <1>3, <1>4, <2>1, <2>4, <2>5 DEF Begin
  <2>7. Sound(rest[r], blind[r])'
    BY <2>6 DEF Sound, Ordered, Fits
  <2>8. QED
    BY <1>1, <1>2, <1>4, <2>1, <2>2, <2>3, <2>7, KeptByRun DEF Begin
<1>5. CASE Send(r)
  <2>1. PICK a : a = Head(rest[r])
    OBVIOUS
  <2>2. Sound(rest[r], blind[r]) /\ Due(a) /\ a \in Actions
    BY <1>1, <1>5, <2>1, HeadIsDue DEF Send, RunSound
  <2>3. PICK c : c = [ref |-> a, state |-> "sent"]
    OBVIOUS
  <2>4. c \in Call /\ calls' = Append(calls, c)
    BY <1>5, <2>1, <2>2, <2>3 DEF Send, Call, CallState
  <2>5. /\ Len(calls') = Len(calls) + 1 /\ calls'[Len(calls) + 1] = c
        /\ \A n \in 1..Len(calls) : calls'[n] = calls[n]
    BY <1>1, <2>4, AppendProperties
  <2>6. /\ call' = [call EXCEPT ![r] = Len(calls) + 1]
        /\ UNCHANGED <<queue, rest, active, blind, erased>> /\ r \in active /\ rest[r] # <<>>
    BY <1>5 DEF Send
  <2>7. call' \in [Runs -> 0..Len(calls')] /\ call'[r] = Len(calls) + 1
    BY <1>1, <2>5, <2>6
  <2>8. TypeOK'
    BY <1>1, <1>2, <2>6, <2>7 DEF TypeOK
  <2>9. \A n \in 1..Len(calls') : n \in 1..Len(calls) \/ Due(calls'[n].ref)
    BY <1>1, <2>2, <2>3, <2>5
  <2>10. calls'[call'[r]].ref = Head(rest'[r])
    BY <2>1, <2>3, <2>5, <2>6, <2>7
  <2>11. PICK q, t, X : q = queue /\ t = rest[r] /\ X = blind[r]
    OBVIOUS
  <2>12. Sound(q, {})' /\ Sound(t, X)'
    BY <1>1, <1>3, <2>2, <2>11
  <2>13. Sound(queue, {})' /\ Sound(rest[r], blind[r])'
    BY <2>6, <2>11, <2>12 DEF Sound, Ordered, Fits
  <2>14. QED
    BY <1>1, <1>2, <2>6, <2>8, <2>9, <2>10, <2>13, KeptByRun
<1>6. CASE Advance(r)
  <2>1. /\ call[r] # 0 /\ calls[call[r]].state \in {"ok", "rejected"} /\ rest' = [rest EXCEPT ![r] = Tail(rest[r])]
        /\ call' = [call EXCEPT ![r] = 0] /\ UNCHANGED <<queue, active, calls, blind, erased>>
    BY <1>6 DEF Advance
  <2>2. r \in active /\ Sound(rest[r], blind[r]) /\ rest[r] # <<>> /\ Answered(Head(rest[r]))
    <3>1. call[r] \in DOMAIN calls
      BY <1>1, <2>1, LenProperties
    <3>2. QED
      BY <1>1, <2>1, <3>1 DEF RunSound, Answered
  <2>3. Sound(Tail(rest[r]), blind[r]) /\ Tail(rest[r]) \in Seq(Actions)
    BY <2>2, TailIsSound, HeadIsDue
  <2>4. /\ rest' \in [Runs -> Seq(Actions)] /\ rest'[r] = Tail(rest[r])
        /\ call' \in [Runs -> 0..Len(calls)] /\ call'[r] = 0
    BY <1>1, <2>1, <2>3
  <2>5. TypeOK'
    BY <1>1, <1>2, <2>1, <2>4 DEF TypeOK
  <2>6. PICK q, t, X : q = queue /\ t = Tail(rest[r]) /\ X = blind[r]
    OBVIOUS
  <2>7. Sound(q, {})' /\ Sound(t, X)'
    BY <1>1, <1>3, <2>3, <2>6
  <2>8. queue' = q /\ rest'[r] = t /\ blind'[r] = X
    BY <2>1, <2>4, <2>6
  <2>9. Sound(queue, {})'
    BY <2>7, <2>8 DEF Sound, Ordered, Fits
  <2>10. Sound(rest[r], blind[r])'
    BY <2>7, <2>8 DEF Sound, Ordered, Fits
  <2>11. QED
    BY <1>1, <1>2, <2>1, <2>4, <2>5, <2>9, <2>10, KeptByRun
<1>7. ASSUME Leave(r), erased' \subseteq Actions, queue' \in Seq(Actions), Sound(queue, {})'
      PROVE  KeptInv'
  <2>1. r \notin active' /\ call'[r] = 0 /\ rest' \in [Runs -> Seq(Actions)] /\ call' \in [Runs -> 0..Len(calls')]
        /\ active' \subseteq Runs /\ blind' \in [Runs -> SUBSET Actions] /\ calls' = calls
    <3>1. <<>> \in Seq(Actions) /\ 0 \in 0..Len(calls)
      BY <1>1
    <3>2. QED
      BY <1>1, <1>7, <3>1 DEF Leave, TypeOK
  <2>2. TypeOK'
    BY <1>1, <1>2, <1>7, <2>1 DEF TypeOK
  <2>3. \A s \in Runs : s # r => /\ rest'[s] = rest[s] /\ call'[s] = call[s]
                                 /\ blind'[s] = blind[s] /\ (s \in active' <=> s \in active)
    BY <1>1, <1>7 DEF Leave
  <2>4. \A n \in 1..Len(calls') : n \in 1..Len(calls)
    BY <2>1
  <2>5. QED
    BY <1>1, <1>2, <1>7, <2>1, <2>2, <2>3, <2>4, KeptByRun
<1>8. CASE Stop(r) \/ TimeOut(r) \/ Finish(r)
  <2>1. r \in active /\ WriteBack(r, rest[r])
    BY <1>1, <1>8 DEF Stop, TimeOut, Finish, Retained, RunSound
  <2>2. Sound(rest[r], blind[r])
    BY <1>1, <2>1 DEF RunSound
  <2>3. queue' = rest[r] /\ erased' = erased \cup (blind[r] \cap ToSet(queue)) /\ Leave(r)
    BY <2>1, <2>2 DEF WriteBack, Written, Sound
  <2>4. queue' \in Seq(Actions) /\ erased' \subseteq Actions
    BY <1>1, <2>3 DEF TypeOK
  <2>5. PICK q, t, X : q = queue /\ t = rest[r] /\ X = blind[r]
    OBVIOUS
  <2>6. Sound(q, {})' /\ Sound(t, X)'
    BY <1>1, <1>3, <2>2, <2>5
  <2>7. \A b \in ToSet(saved') : Done(b)' \/ b \in ToSet(t)
    <3> SUFFICES ASSUME NEW b \in ToSet(saved'), ~Done(b)', b \notin ToSet(t) PROVE FALSE
      OBVIOUS
    <3>1. b \in X /\ b \in ToSet(q)
      BY <2>6 DEF Sound
    <3>2. b \in erased'
      BY <2>3, <2>5, <3>1
    <3>3. QED
      BY <3>2 DEF Done
  <2>8. Sound(queue, {})'
    BY <2>3, <2>5, <2>6, <2>7 DEF Sound, Ordered, Fits
  <2>9. QED
    BY <1>7, <2>3, <2>4, <2>8
<1>9. CASE Abandon(r)
  <2>1. queue' = queue /\ Leave(r) /\ erased' = erased
    BY <1>9 DEF Abandon
  <2>2. PICK q : q = queue
    OBVIOUS
  <2>3. Sound(q, {})'
    BY <1>1, <1>3, <2>2
  <2>4. Sound(queue, {})'
    BY <2>1, <2>2, <2>3 DEF Sound, Ordered, Fits
  <2>5. QED
    BY <1>1, <1>7, <2>1, <2>4 DEF TypeOK
<1>10. QED
  BY <1>4, <1>5, <1>6, <1>8, <1>9 DEF RunStep

LEMMA KeptServer ==
  ASSUME KeptInv, NEW n \in DOMAIN calls, ServerStep(n)
  PROVE  KeptInv'
<1>1. /\ TypeOK /\ calls \in Seq(Call) /\ Len(calls) \in Nat /\ n \in 1..Len(calls) /\ calls[n] \in Call
      /\ recorded \in [Actions -> Nat]
  BY LenProperties, ElementOfSeq DEF KeptInv, TypeOK
<1>2. PICK to \in CallState : calls' = [calls EXCEPT ![n] = [calls[n] EXCEPT !.state = to]]
  BY DEF ServerStep, Check, Ignore, Commit, Refuse, Break, Settle, CallState
<1>3. calls[n].state \notin {"ok", "rejected"} /\ UNCHANGED clientVars
  <2>1. \E S \in {{"sent"}, {"passed"}, {"sent", "passed"}} : calls[n].state \in S
    BY DEF ServerStep, Check, Ignore, Commit, Refuse, Break, Settle
  <2>2. UNCHANGED clientVars
    BY DEF ServerStep, Check, Ignore, Commit, Refuse, Break
  <2>3. QED
    BY <2>1, <2>2
<1>4. UNCHANGED <<queue, tapped, saved, rest, call, active, blind, erased>>
  BY <1>3 DEF clientVars
<1>5. PICK c : c = [calls[n] EXCEPT !.state = to]
  OBVIOUS
<1>6. c \in Call /\ c.ref = calls[n].ref /\ calls[n].ref \in Actions
  BY <1>1, <1>5 DEF Call
<1>7. /\ calls' \in Seq(Call) /\ Len(calls') = Len(calls)
      /\ \A m \in 1..Len(calls) : calls'[m] = IF m = n THEN c ELSE calls[m]
  BY <1>1, <1>2, <1>5, <1>6, ExceptSeq
<1>8. AnswersStay /\ \A m \in 1..Len(calls) : calls'[m].ref = calls[m].ref
  BY <1>3, <1>6, <1>7 DEF AnswersStay
<1>9. /\ recorded' \in [Actions -> Nat] /\ raced' \subseteq Actions
      /\ \A a \in Actions : recorded'[a] > 0 => recorded[a] > 0 \/ calls[n].ref = a
  <2>1. CASE Commit(n)
    BY <1>1, <2>1 DEF Commit, Call, TypeOK
  <2>2. CASE ~Commit(n)
    BY <1>1, <1>6, <2>2 DEF ServerStep, Check, Ignore, Refuse, Break, TypeOK
  <2>3. QED
    BY <2>1, <2>2
<1>10. TypeOK'
  BY <1>1, <1>4, <1>7, <1>9 DEF TypeOK
<1>11. \A q, X : Sound(q, X) => Sound(q, X)'
  BY <1>1, <1>4, <1>7, <1>8, SoundStays
<1>12. \A r \in Runs : /\ r \in active' => Sound(rest[r], blind[r])'
                       /\ call'[r] # 0 => r \in active' /\ rest'[r] # <<>> /\ calls'[call'[r]].ref = Head(rest'[r])
  <2> SUFFICES ASSUME NEW r \in Runs
               PROVE  /\ r \in active' => Sound(rest[r], blind[r])'
                      /\ call'[r] # 0 => r \in active' /\ rest'[r] # <<>> /\ calls'[call'[r]].ref = Head(rest'[r])
    OBVIOUS
  <2>1. RunSound(r) /\ call[r] \in 0..Len(calls)
    BY DEF KeptInv, TypeOK
  <2>2. PICK q, X : q = rest[r] /\ X = blind[r]
    OBVIOUS
  <2>3. r \in active' => Sound(q, X)'
    BY <1>4, <1>11, <2>1, <2>2 DEF RunSound
  <2>4. r \in active' => Sound(rest[r], blind[r])'
    BY <1>4, <2>2, <2>3 DEF Sound, Ordered, Fits
  <2>5. call[r] # 0 => call[r] \in 1..Len(calls)
    BY <1>1, <2>1
  <2>6. QED
    BY <1>4, <1>8, <2>1, <2>4, <2>5 DEF RunSound
<1>13. Sound(queue, {})'
  <2>1. PICK q : q = queue
    OBVIOUS
  <2>2. Sound(q, {})'
    BY <1>11, <2>1 DEF KeptInv
  <2>3. QED
    BY <1>4, <2>1, <2>2 DEF Sound, Ordered, Fits
<1>14. QED
  BY <1>1, <1>4, <1>7, <1>8, <1>9, <1>10, <1>12, <1>13, KeptStep

\* What leaving the photos out makes of a queue: the others, in their order.
LEMMA PhotolessFacts ==
  ASSUME NEW items \in Seq(Actions), NEW t \in Photoless(items)
  PROVE  /\ t \in Seq(Actions)
         /\ ToSet(t) = ToSet(items) \ Photos
         /\ \A n \in 1..Len(t) : \E k \in 1..Len(items) :
              /\ t[n] = items[k]
              /\ \A i \in 1..(k - 1) : items[i] \notin Photos => \E m \in 1..(n - 1) : t[m] = items[i]
<1>1. PICK S : S = {i \in DOMAIN items : items[i] \notin Photos}
  OBVIOUS
<1>2. PICK f \in Rising(S) : t = [n \in DOMAIN f |-> items[f[n]]]
  BY <1>1 DEF Photoless
<1>3. /\ Len(items) \in Nat /\ DOMAIN items = 1..Len(items) /\ S \subseteq 1..Len(items)
      /\ \A i \in 1..Len(items) : items[i] \in Actions
  BY <1>1, QueueFacts, ElementOfSeq
<1>4. Cardinality(S) \in Nat
  <2>1. IsFiniteSet(1..Len(items))
    BY <1>3, FS_Interval
  <2>2. QED
    BY <1>3, <2>1, FS_Subset, FS_CardinalityType
<1>5. /\ DOMAIN f = 1..Cardinality(S) /\ \A n \in DOMAIN f : f[n] \in S
      /\ \A i \in S : \E n \in DOMAIN f : f[n] = i
      /\ \A m, n \in DOMAIN f : m < n => f[m] < f[n]
  BY <1>2 DEF Rising, Range
<1>6. t \in Seq(Actions) /\ Len(t) = Cardinality(S) /\ \A n \in 1..Len(t) : t[n] = items[f[n]] /\ f[n] \in S
  <2>1. t \in [1..Cardinality(S) -> Actions]
    BY <1>2, <1>3, <1>5
  <2>2. t \in Seq(Actions) /\ Len(t) = Cardinality(S)
    BY <1>4, <2>1, SeqDef, LenProperties
  <2>3. QED
    BY <1>2, <1>5, <2>2
<1>7. ToSet(t) = ToSet(items) \ Photos
  <2>1. ASSUME NEW x \in ToSet(t) PROVE x \in ToSet(items) \ Photos
    <3>1. PICK n \in 1..Len(t) : t[n] = x
      BY <1>6, QueueFacts
    <3>2. x = items[f[n]] /\ f[n] \in 1..Len(items) /\ items[f[n]] \notin Photos
      BY <1>1, <1>3, <1>6, <3>1
    <3>3. QED
      BY <3>2, QueueFacts
  <2>2. ASSUME NEW x \in ToSet(items) \ Photos PROVE x \in ToSet(t)
    <3>1. PICK i \in 1..Len(items) : items[i] = x
      BY QueueFacts
    <3>2. PICK n \in DOMAIN f : f[n] = i
      BY <1>1, <1>3, <1>5, <2>2, <3>1
    <3>3. n \in 1..Len(t) /\ t[n] = x
      BY <1>5, <1>6, <3>1, <3>2
    <3>4. QED
      BY <1>6, <3>3, QueueFacts
  <2>3. QED
    BY <2>1, <2>2
<1>8. ASSUME NEW n \in 1..Len(t)
      PROVE  \E k \in 1..Len(items) :
               /\ t[n] = items[k]
               /\ \A i \in 1..(k - 1) : items[i] \notin Photos => \E m \in 1..(n - 1) : t[m] = items[i]
  <2>1. PICK k : k = f[n]
    OBVIOUS
  <2>2. k \in 1..Len(items) /\ t[n] = items[k]
    BY <1>3, <1>6, <2>1
  <2>3. ASSUME NEW i \in 1..(k - 1), items[i] \notin Photos PROVE \E m \in 1..(n - 1) : t[m] = items[i]
    <3>1. i \in S
      BY <1>1, <1>3, <2>2, <2>3
    <3>2. PICK m \in DOMAIN f : f[m] = i
      BY <1>5, <3>1
    <3>3. m \in Nat /\ n \in DOMAIN f /\ n \in Nat /\ m \in 1..Len(t)
      BY <1>4, <1>5, <1>6
    <3>4. ~(n <= m)
      <4>1. n = m => i = k
        BY <2>1, <3>2
      <4>2. n < m => k < i
        BY <1>5, <2>1, <3>2, <3>3
      <4>3. i < k /\ i \in Nat /\ k \in Nat
        BY <2>2
      <4>4. QED
        BY <3>3, <4>1, <4>2, <4>3
    <3>5. m \in 1..(n - 1) /\ t[m] = items[i]
      BY <1>6, <3>2, <3>3, <3>4
    <3>6. QED
      BY <3>5
  <2>4. QED
    BY <2>2, <2>3
<1>9. QED
  BY <1>6, <1>7, <1>8

\* A tap whose photo does not fit: it is not saved, and the photos are left out.
LEMMA KeptOverflow ==
  ASSUME KeptInv, NEW a \in Actions, Enqueue(a), ~Fits(Append(queue, a))
  PROVE  KeptInv'
<1>1. PICK q, t : q = Append(queue, a) /\ t = queue'
  OBVIOUS
<1>2. /\ TypeOK /\ queue \in Seq(Actions) /\ Sound(queue, {}) /\ calls \in Seq(Call)
      /\ ToSet(saved) \subseteq tapped /\ tapped \subseteq Actions
  BY DEF KeptInv, TypeOK
<1>3. /\ a \notin tapped /\ tapped' = tapped \cup {a} /\ t \in Photoless(q)
      /\ erased' = erased \cup (ToSet(q) \cap Photos)
      /\ UNCHANGED <<saved, blind, rest, call, active, calls, recorded, raced>>
  BY <1>1 DEF Enqueue, Written
<1>4. /\ q \in Seq(Actions) /\ Len(q) = Len(queue) + 1 /\ Len(queue) \in Nat
      /\ q[Len(queue) + 1] = a /\ \A i \in 1..Len(queue) : q[i] = queue[i]
  BY <1>1, <1>2, AppendProperties, LenProperties
<1>5. /\ t \in Seq(Actions) /\ ToSet(t) = ToSet(q) \ Photos
      /\ \A n \in 1..Len(t) : \E k \in 1..Len(q) :
           /\ t[n] = q[k]
           /\ \A i \in 1..(k - 1) : q[i] \notin Photos => \E m \in 1..(n - 1) : t[m] = q[i]
  BY <1>3, <1>4, PhotolessFacts
<1>6. ToSet(q) = ToSet(queue) \cup {a} /\ ToSet(q) \subseteq Actions
  <2>1. ASSUME NEW x \in ToSet(q) PROVE x \in ToSet(queue) \cup {a}
    <3>1. PICK i \in 1..Len(q) : q[i] = x
      BY <1>4, QueueFacts
    <3>2. i = Len(queue) + 1 \/ i \in 1..Len(queue)
      BY <1>4
    <3>3. QED
      BY <1>2, <1>4, <3>1, <3>2, QueueFacts
  <2>2. a \in ToSet(q)
    <3>1. Len(queue) + 1 \in 1..Len(q)
      BY <1>4
    <3>2. QED
      BY <1>4, <3>1, QueueFacts
  <2>3. ASSUME NEW x \in ToSet(queue) PROVE x \in ToSet(q)
    <3>1. PICK i \in 1..Len(queue) : queue[i] = x
      BY <1>2, QueueFacts
    <3>2. i \in 1..Len(q) /\ q[i] = x
      BY <1>4, <3>1
    <3>3. QED
      BY <1>4, <3>2, QueueFacts
  <2>4. QED
    BY <1>4, <2>1, <2>2, <2>3, QueueFacts
<1>7. TypeOK'
  BY <1>1, <1>2, <1>3, <1>5, <1>6 DEF TypeOK
<1>8. AnswersStay
  BY <1>3 DEF AnswersStay
<1>9. /\ \A b : Done(b) => Done(b)'
      /\ \A b, x : Before(b, x)' <=> Before(b, x)
      /\ \A s, X : Sound(s, X) => Sound(s, X)'
  BY <1>2, <1>3, <1>8, SoundStays
<1>10. Ordered(t)'
  <2> SUFFICES ASSUME NEW n \in 1..Len(t), NEW b \in Actions, Before(b, t[n])', ~Done(b)'
               PROVE  \E m \in 1..(n - 1) : t[m] = b
    BY DEF Ordered
  <2>1. PICK k \in 1..Len(q) : /\ t[n] = q[k]
                               /\ \A i \in 1..(k - 1) : q[i] \notin Photos => \E m \in 1..(n - 1) : t[m] = q[i]
    BY <1>5
  <2>2. Before(b, q[k]) /\ ~Done(b)
    <3>1. Before(b, t[n])
      BY <1>9
    <3>2. QED
      BY <1>9, <2>1, <3>1
  <2>3. k \in 1..Len(queue)
    <3>1. q[k] \in ToSet(saved)
      BY <2>2 DEF Before, ToSet
    <3>2. q[k] # a
      BY <1>2, <1>3, <3>1
    <3>3. QED
      BY <1>4, <3>2
  <2>4. PICK i \in 1..(k - 1) : queue[i] = b
    <3>1. Before(b, queue[k])
      BY <1>4, <2>2, <2>3
    <3>2. QED
      BY <1>2, <2>2, <2>3, <3>1 DEF Sound, Ordered
  <2>5. i \in 1..Len(queue) /\ q[i] = b
    BY <1>4, <2>3, <2>4
  <2>6. b \notin Photos
    <3>1. b \in ToSet(queue)
      BY <1>2, <2>5, <2>4, QueueFacts
    <3>2. QED
      BY <1>3, <1>6, <3>1 DEF Done
  <2>7. QED
    BY <2>1, <2>5, <2>6
<1>11. Fits(t)
  <2>1. ToSet(t) \cap Photos = {}
    BY <1>5
  <2>2. QED
    BY <2>1, FS_EmptySet, LimitsAssumption DEF Fits
<1>12. \A b \in ToSet(saved') : Done(b)' \/ b \in ToSet(t)
  <2> SUFFICES ASSUME NEW b \in ToSet(saved), ~Done(b)' PROVE b \in ToSet(t)
    BY <1>3
  <2>1. b \in ToSet(queue) /\ ~Done(b)
    BY <1>2, <1>9 DEF Sound
  <2>2. b \notin Photos
    BY <1>3, <1>6, <2>1 DEF Done
  <2>3. QED
    BY <1>5, <1>6, <2>1, <2>2
<1>13. Sound(queue, {})'
  <2>1. ToSet(t) \subseteq tapped'
    BY <1>2, <1>3, <1>5, <1>6 DEF Sound
  <2>2. Sound(t, {})'
    BY <1>5, <1>10, <1>11, <1>12, <2>1 DEF Sound, Fits
  <2>3. QED
    BY <1>1, <2>2 DEF Sound, Ordered, Fits
<1>14. \A r \in Runs : /\ r \in active' => Sound(rest[r], blind[r])'
                       /\ call'[r] # 0 => r \in active' /\ rest'[r] # <<>> /\ calls'[call'[r]].ref = Head(rest'[r])
  <2> SUFFICES ASSUME NEW r \in Runs
               PROVE  /\ r \in active' => Sound(rest[r], blind[r])'
                      /\ call'[r] # 0 => r \in active' /\ rest'[r] # <<>> /\ calls'[call'[r]].ref = Head(rest'[r])
    OBVIOUS
  <2>1. RunSound(r)
    BY DEF KeptInv
  <2>2. PICK s, X : s = rest[r] /\ X = blind[r]
    OBVIOUS
  <2>3. r \in active' => Sound(s, X)'
    BY <1>3, <1>9, <2>1, <2>2 DEF RunSound
  <2>4. r \in active' => Sound(rest[r], blind[r])'
    BY <1>3, <2>2, <2>3 DEF Sound, Ordered, Fits
  <2>5. QED
    BY <1>3, <2>1, <2>4 DEF RunSound
<1>15. QED
  BY <1>2, <1>3, <1>7, <1>8, <1>13, <1>14, KeptStep

\* Nothing else saves: the action is put behind the queue and behind what was saved.
LEMMA KeptEnqueue ==
  ASSUME KeptInv, NEW a \in Actions, Enqueue(a), Fits(Append(queue, a))
  PROVE  KeptInv'
<1>1. /\ TypeOK /\ queue \in Seq(Actions) /\ saved \in Seq(Actions) /\ Sound(queue, {})
      /\ Len(queue) \in Nat /\ Len(saved) \in Nat /\ DOMAIN saved = 1..Len(saved)
      /\ ToSet(saved) \subseteq tapped /\ tapped \subseteq Actions
  BY LenProperties DEF KeptInv, TypeOK
<1>2. /\ a \notin tapped /\ tapped' = tapped \cup {a} /\ queue' = Append(queue, a) /\ saved' = Append(saved, a)
      /\ blind' = [r \in Runs |-> IF r \in active THEN blind[r] \cup {a} ELSE {}]
      /\ UNCHANGED <<erased, rest, call, active, calls, recorded, raced>>
  BY DEF Enqueue, Written
<1>3. /\ queue' \in Seq(Actions) /\ Len(queue') = Len(queue) + 1
      /\ queue'[Len(queue) + 1] = a /\ \A i \in 1..Len(queue) : queue'[i] = queue[i]
      /\ saved' \in Seq(Actions) /\ Len(saved') = Len(saved) + 1 /\ DOMAIN saved' = 1..(Len(saved) + 1)
      /\ saved'[Len(saved) + 1] = a /\ \A i \in 1..Len(saved) : saved'[i] = saved[i]
  BY <1>1, <1>2, AppendProperties, LenProperties
<1>4. ToSet(queue') = ToSet(queue) \cup {a} /\ ToSet(saved') = ToSet(saved) \cup {a}
  <2>1. ASSUME NEW s \in Seq(Actions), NEW t \in Seq(Actions), Len(t) = Len(s) + 1, t[Len(s) + 1] = a,
               \A i \in 1..Len(s) : t[i] = s[i]
        PROVE  ToSet(t) = ToSet(s) \cup {a}
    <3>1. Len(s) \in Nat
      BY LenProperties
    <3>2. ASSUME NEW x \in ToSet(t) PROVE x \in ToSet(s) \cup {a}
      <4>1. PICK i \in 1..Len(t) : t[i] = x
        BY QueueFacts
      <4>2. i = Len(s) + 1 \/ i \in 1..Len(s)
        BY <2>1, <3>1
      <4>3. QED
        BY <2>1, <4>1, <4>2, QueueFacts
    <3>3. a \in ToSet(t)
      <4>1. Len(s) + 1 \in 1..Len(t)
        BY <2>1, <3>1
      <4>2. QED
        BY <2>1, <4>1, QueueFacts
    <3>4. ASSUME NEW x \in ToSet(s) PROVE x \in ToSet(t)
      <4>1. PICK i \in 1..Len(s) : s[i] = x
        BY QueueFacts
      <4>2. i \in 1..Len(t) /\ t[i] = x
        BY <2>1, <3>1, <4>1
      <4>3. QED
        BY <4>2, QueueFacts
    <3>5. QED
      BY <3>2, <3>3, <3>4
  <2>2. QED
    BY <1>1, <1>3, <2>1
<1>5. ASSUME NEW b PROVE Done(b)' <=> Done(b)
  BY <1>2 DEF Done, Answered
<1>6. ASSUME NEW b, NEW x, x # a PROVE Before(b, x)' => Before(b, x)
  <2> SUFFICES ASSUME Before(b, x)' PROVE Before(b, x)
    OBVIOUS
  <2>1. PICK j \in DOMAIN saved' : \E i \in 1..(j - 1) : saved'[i] = b /\ saved'[j] = x
    BY DEF Before
  <2>2. j \in 1..Len(saved)
    BY <1>1, <1>3, <1>6, <2>1
  <2>3. QED
    BY <1>1, <1>3, <2>1, <2>2 DEF Before
<1>7. ASSUME NEW b, Before(b, a)' PROVE b \in ToSet(saved)
  <2>1. PICK j \in DOMAIN saved' : \E i \in 1..(j - 1) : saved'[i] = b /\ saved'[j] = a
    BY <1>7 DEF Before
  <2>2. PICK i \in 1..(j - 1) : saved'[i] = b
    BY <2>1
  <2>3. i \in 1..Len(saved) /\ saved[i] = b
    BY <1>1, <1>3, <2>2
  <2>4. QED
    BY <1>1, <2>3, QueueFacts
<1>8. ASSUME NEW q, NEW X, Sound(q, X)
      PROVE  /\ q \in Seq(Actions) /\ ToSet(q) \subseteq tapped' /\ Fits(q)' /\ Ordered(q)'
             /\ \A b \in ToSet(saved') : Done(b)' \/ b \in ToSet(q) \/ b \in X \cup {a}
  <2>1. q \in Seq(Actions) /\ ToSet(q) \subseteq tapped' /\ Fits(q)' /\ \A n \in 1..Len(q) : q[n] # a
    BY <1>2, <1>8, QueueFacts DEF Sound, Fits
  <2>2. Ordered(q)'
    <3> SUFFICES ASSUME NEW n \in 1..Len(q), NEW b \in Actions, Before(b, q[n])'
                 PROVE  Done(b)' \/ \E m \in 1..(n - 1) : q[m] = b
      BY DEF Ordered
    <3>1. Before(b, q[n])
      BY <1>6, <2>1
    <3>2. QED
      BY <1>5, <1>8, <3>1 DEF Sound, Ordered
  <2>3. QED
    BY <1>4, <1>5, <1>8, <2>1, <2>2 DEF Sound
<1>9. Sound(queue, {})'
  <2>1. PICK q, t : q = queue /\ t = queue'
    OBVIOUS
  <2>2. Ordered(t)'
    <3> SUFFICES ASSUME NEW n \in 1..Len(t), NEW b \in Actions, Before(b, t[n])', ~Done(b)'
                 PROVE  \E m \in 1..(n - 1) : t[m] = b
      BY DEF Ordered
    <3>1. CASE n = Len(queue) + 1
      <4>1. Before(b, a)'
        BY <1>3, <2>1, <3>1
      <4>2. b \in ToSet(queue)
        BY <1>1, <1>5, <1>7, <4>1 DEF Sound
      <4>3. PICK m \in 1..Len(queue) : queue[m] = b
        BY <1>1, <4>2, QueueFacts
      <4>4. m \in 1..(n - 1) /\ t[m] = b
        <5>1. t[m] = queue[m]
          BY <1>3, <2>1
        <5>2. m \in 1..(n - 1)
          BY <1>1, <3>1
        <5>3. QED
          BY <4>3, <5>1, <5>2
      <4>5. QED
        BY <4>4
    <3>2. CASE n # Len(queue) + 1
      <4>1. n \in 1..Len(queue) /\ t[n] = q[n]
        BY <1>1, <1>3, <2>1, <3>2
      <4>2. Before(b, q[n])'
        BY <4>1
      <4>3. PICK m \in 1..(n - 1) : q[m] = b
        BY <1>1, <1>8, <2>1, <4>1, <4>2 DEF Ordered
      <4>4. m \in 1..Len(queue)
        BY <1>1, <4>1
      <4>5. t[m] = q[m]
        BY <1>3, <2>1, <4>4
      <4>6. QED
        BY <4>3, <4>5
    <3>3. QED
      BY <3>1, <3>2
  <2>3. Fits(t)
    BY <1>2, <2>1
  <2>4. \A b \in ToSet(saved') : Done(b)' \/ b \in ToSet(t)
    BY <1>1, <1>4, <1>5, <2>1 DEF Sound
  <2>5. t \in Seq(Actions) /\ ToSet(t) \subseteq tapped'
    BY <1>1, <1>2, <1>3, <1>4, <2>1 DEF Sound
  <2>6. Sound(t, {})'
    BY <2>2, <2>3, <2>4, <2>5 DEF Sound, Fits
  <2>7. QED
    BY <2>1, <2>6 DEF Sound, Ordered, Fits
<1>10. ASSUME NEW r \in Runs PROVE RunSound(r)'
  <2>1. RunSound(r)
    BY DEF KeptInv
  <2>2. r \in active' => Sound(rest[r], blind[r])'
    <3> SUFFICES ASSUME r \in active PROVE Sound(rest[r], blind[r])'
      BY <1>2
    <3>1. PICK q, X : q = rest[r] /\ X = blind[r]
      OBVIOUS
    <3>2. Sound(q, X) /\ rest'[r] = q /\ blind'[r] = X \cup {a}
      BY <1>2, <2>1, <3>1 DEF RunSound
    <3>3. Sound(q, X \cup {a})'
      BY <1>8, <3>2 DEF Sound
    <3>4. QED
      BY <3>2, <3>3 DEF Sound, Ordered, Fits
  <2>3. QED
    BY <1>2, <2>1, <2>2 DEF RunSound
<1>11. ASSUME NEW n \in 1..Len(calls') PROVE Due(calls[n].ref)'
  <2>1. PICK x : x = calls[n].ref
    OBVIOUS
  <2>2. Due(x) /\ x # a /\ calls'[n].ref = x
    BY <1>2, <2>1 DEF KeptInv, Due
  <2>3. Due(x)'
    BY <1>2, <1>5, <1>6, <2>2 DEF Due
  <2>4. QED
    BY <2>2, <2>3 DEF Due
<1>12. TypeOK'
  <2>1. blind' \in [Runs -> SUBSET Actions]
    BY <1>1, <1>2 DEF TypeOK
  <2>2. QED
    BY <1>1, <1>2, <1>3, <2>1 DEF TypeOK
<1>13. QED
  BY <1>1, <1>2, <1>4, <1>9, <1>10, <1>11, <1>12 DEF KeptInv

LEMMA KeptPromises == KeptInv => KeptUnlessErased /\ SentInOrder
<1> SUFFICES ASSUME KeptInv PROVE KeptUnlessErased /\ SentInOrder
  OBVIOUS
<1>1. /\ saved \in Seq(Actions) /\ DOMAIN saved = 1..Len(saved) /\ Len(saved) \in Nat
      /\ recorded \in [Actions -> Nat]
  BY LenProperties DEF KeptInv, TypeOK
<1>2. KeptUnlessErased
  BY DEF KeptInv, KeptUnlessErased, Sound, Done
<1>3. ASSUME NEW j \in DOMAIN saved, NEW i \in 1..(j - 1), recorded[saved[j]] > 0
      PROVE  Answered(saved[i]) \/ saved[i] \in erased
  <2>1. saved[j] \in Actions /\ saved[i] \in Actions /\ Before(saved[i], saved[j])
    BY <1>1, ElementOfSeq DEF Before
  <2>2. PICK n \in 1..Len(calls) : calls[n].ref = saved[j]
    BY <1>3, <2>1 DEF KeptInv
  <2>3. Due(saved[j])
    BY <2>2 DEF KeptInv
  <2>4. QED
    BY <2>1, <2>3 DEF Due, Done
<1>4. QED
  BY <1>2, <1>3 DEF SentInOrder

\* The inductive invariant of the queue: the stored queue holds all that was saved
\* and neither answered nor erased, a run's snapshot all of that but what was saved
\* behind its back, both in order, and what was sent was due.  No run, tap or late
\* answer breaks it.
THEOREM QueueIsSound == Spec => []KeptInv
<1>1. KeptInv /\ [Next]_vars => KeptInv'
  <2> SUFFICES ASSUME KeptInv, [Next]_vars PROVE KeptInv'
    OBVIOUS
  <2>1. CASE UNCHANGED vars
    <3>1. UNCHANGED <<queue, tapped, saved, rest, call, active, blind, erased, calls, recorded, raced>>
      BY <2>1 DEF vars, clientVars
    <3>2. \A b : Done(b)' <=> Done(b)
      BY <3>1 DEF Done, Answered
    <3>3. \A b, a : Before(b, a)' <=> Before(b, a)
      BY <3>1 DEF Before
    <3>4. TypeOK'
      BY <3>1 DEF KeptInv, TypeOK
    <3>5. Sound(queue, {})'
      BY <3>1, <3>2, <3>3 DEF KeptInv, Sound, Ordered, Fits
    <3>6. ASSUME NEW r \in Runs PROVE RunSound(r)'
      <4>1. RunSound(r)
        BY DEF KeptInv
      <4>2. r \in active => Sound(rest[r], blind[r])'
        BY <3>1, <3>2, <3>3, <4>1 DEF RunSound, Sound, Ordered, Fits
      <4>3. QED
        BY <3>1, <4>1, <4>2 DEF RunSound
    <3>7. \A n \in 1..Len(calls') : Due(calls[n].ref)'
      BY <3>1, <3>2, <3>3 DEF KeptInv, Due
    <3>8. QED
      BY <3>1, <3>4, <3>5, <3>6, <3>7 DEF KeptInv
  <2>2. ASSUME NEW a \in Actions, Enqueue(a) PROVE KeptInv'
    BY <2>2, KeptEnqueue, KeptOverflow
  <2>3. QED
    BY <2>1, <2>2, KeptRun, KeptServer DEF Next
<1>2. QED
  BY KeptStart, <1>1, PTL DEF Spec

\* What the worker was told is saved stays queued until the server has answered it,
\* unless a run writes a snapshot taken before it was saved over it, or a photo that
\* does not fit squeezes it out: no run forgets a part of its own snapshot, and a
\* write over a newer queue loses nothing that the run knew of.
THEOREM NothingSavedIsForgotten == Spec => []KeptUnlessErased
<1>1. KeptInv => KeptUnlessErased
  BY KeptPromises
<1>2. QED
  BY <1>1, QueueIsSound, PTL

\* The server records no step before it has answered each earlier one that was not
\* erased, however many runs overlap, whatever is tapped beside them and however many
\* requests are lost, refused or outlive the client's patience.
THEOREM StepsAreSentInOrder == Spec => []SentInOrder
<1>1. KeptInv => SentInOrder
  BY KeptPromises
<1>2. QED
  BY <1>1, QueueIsSound, PTL

-----------------------------------------------------------------------------
(* What is applied, and how often *)

PassedFor(n, a) == calls[n].ref = a /\ calls[n].state = "passed"

\* Of an action whose copies never met, one copy at most has passed the select,
\* and only while nothing is recorded.
OnceInv ==
  \A a \in Actions \ raced :
    /\ recorded[a] <= 1
    /\ \A n \in 1..Len(calls) : PassedFor(n, a) =>
         /\ recorded[a] = 0
         /\ \A m \in 1..Len(calls) : PassedFor(m, a) => m = n

\* A step in which no request passes the select.
LEMMA OnceQuiet ==
  ASSUME OnceInv, recorded' = recorded, raced' = raced,
         \A n \in 1..Len(calls') : calls'[n].state = "passed" => n \in 1..Len(calls) /\ calls'[n] = calls[n]
  PROVE  OnceInv'
BY DEF OnceInv, PassedFor

LEMMA OnceRun ==
  ASSUME KeptInv, OnceInv, NEW r \in Runs, RunStep(r)
  PROVE  OnceInv'
<1>1. calls \in Seq(Call) /\ Len(calls) \in Nat /\ rest \in [Runs -> Seq(Actions)] /\ RunSound(r)
  BY LenProperties DEF KeptInv, TypeOK
<1>2. CASE Send(r)
  <2>1. PICK c : c = [ref |-> Head(rest[r]), state |-> "sent"]
    OBVIOUS
  <2>2. c \in Call /\ calls' = Append(calls, c) /\ c.state = "sent"
    BY <1>1, <1>2, <2>1, HeadIsDue DEF Send, RunSound, Call, CallState
  <2>3. Len(calls') = Len(calls) + 1 /\ calls'[Len(calls) + 1] = c /\ \A n \in 1..Len(calls) : calls'[n] = calls[n]
    BY <1>1, <2>2, AppendProperties
  <2>4. \A n \in 1..Len(calls') : calls'[n].state = "passed" => n \in 1..Len(calls) /\ calls'[n] = calls[n]
    BY <1>1, <2>2, <2>3
  <2>5. QED
    BY <1>2, <2>4, OnceQuiet DEF Send
<1>3. CASE ~Send(r)
  <2>1. UNCHANGED <<calls, recorded, raced>>
    BY <1>3 DEF RunStep, Begin, Advance, Stop, TimeOut, Abandon, Finish, WriteBack, Leave
  <2>2. QED
    BY <2>1, OnceQuiet
<1>4. QED
  BY <1>2, <1>3

LEMMA OnceServer ==
  ASSUME KeptInv, OnceInv, NEW n \in DOMAIN calls, ServerStep(n)
  PROVE  OnceInv'
<1>1. /\ calls \in Seq(Call) /\ Len(calls) \in Nat /\ n \in 1..Len(calls) /\ calls[n] \in Call
      /\ recorded \in [Actions -> Nat] /\ raced \subseteq Actions /\ DOMAIN calls = 1..Len(calls)
      /\ \A m \in 1..Len(calls) : calls[m] \in Call
  BY LenProperties, ElementOfSeq DEF KeptInv, TypeOK
<1>2. PICK to \in CallState : /\ calls' = [calls EXCEPT ![n] = [calls[n] EXCEPT !.state = to]]
                              /\ to = "passed" => Check(n) /\ ~Seen(calls[n].ref)
  BY DEF ServerStep, Check, Ignore, Commit, Refuse, Break, Settle, CallState
<1>3. PICK c, a : c = [calls[n] EXCEPT !.state = to] /\ a = calls[n].ref
  OBVIOUS
<1>4. c \in Call /\ c.ref = a /\ c.state = to /\ a \in Actions
  BY <1>1, <1>3 DEF Call
<1>5. /\ Len(calls') = Len(calls)
      /\ \A m \in 1..Len(calls) : calls'[m] = IF m = n THEN c ELSE calls[m]
  BY <1>1, <1>2, <1>3, <1>4, ExceptSeq
<1>6. CASE Commit(n)
  <2>1. calls[n].state = "passed" /\ to = "ok" /\ recorded' = [recorded EXCEPT ![a] = recorded[a] + 1] /\ raced' = raced
    <3>1. calls[n].state = "passed" /\ calls'[n].state = "ok"
      BY <1>1, <1>6 DEF Commit, Settle
    <3>2. QED
      BY <1>3, <1>4, <1>5, <1>6, <3>1, <1>1 DEF Commit
  <2>2. ASSUME NEW b \in Actions \ raced, b = a
        PROVE  recorded'[b] <= 1 /\ \A m \in 1..Len(calls') : ~PassedFor(m, b)'
    <3>1. PassedFor(n, a)
      BY <1>3, <2>1 DEF PassedFor
    <3>2. recorded[a] = 0 /\ \A m \in 1..Len(calls) : PassedFor(m, a) => m = n
      BY <1>1, <2>2, <3>1 DEF OnceInv
    <3>3. QED
      BY <1>1, <1>4, <1>5, <2>1, <2>2, <3>2 DEF PassedFor
  <2>3. ASSUME NEW b \in Actions \ raced, b # a
        PROVE  recorded'[b] = recorded[b] /\ \A m \in 1..Len(calls') : PassedFor(m, b)' <=> PassedFor(m, b)
    BY <1>1, <1>3, <1>4, <1>5, <2>1, <2>3 DEF PassedFor
  <2>4. QED
    BY <1>5, <2>1, <2>2, <2>3 DEF OnceInv
<1>7. CASE ~Commit(n) /\ to # "passed"
  <2>1. recorded' = recorded /\ raced \subseteq raced'
    BY <1>7 DEF ServerStep, Check, Ignore, Refuse, Break
  <2>2. \A m \in 1..Len(calls'), b \in Actions : PassedFor(m, b)' => PassedFor(m, b)
    BY <1>4, <1>5, <1>7 DEF PassedFor
  <2>3. QED
    BY <1>5, <2>1, <2>2 DEF OnceInv
<1>8. CASE ~Commit(n) /\ to = "passed"
  <2>1. /\ recorded' = recorded /\ recorded[a] = 0
        /\ raced' = IF Overtakes(n) THEN raced \cup {a} ELSE raced
    BY <1>1, <1>2, <1>3, <1>4, <1>8 DEF Check, Seen
  <2>2. \A m \in 1..Len(calls'), b \in Actions : PassedFor(m, b)' => PassedFor(m, b) \/ (m = n /\ b = a)
    BY <1>4, <1>5, <1>8 DEF PassedFor
  <2>3. ASSUME NEW b \in Actions \ raced', b = a, NEW m \in 1..Len(calls), m # n, PassedFor(m, a) PROVE FALSE
    <3>1. calls[m] = [ref |-> a, state |-> "passed"]
      BY <1>1, <2>3 DEF PassedFor, Call
    <3>2. Overtakes(n)
      BY <1>1, <1>3, <2>3, <3>1 DEF Overtakes
    <3>3. QED
      BY <2>1, <2>3, <3>2
  <2>4. QED
    BY <1>5, <2>1, <2>2, <2>3 DEF OnceInv
<1>9. QED
  BY <1>6, <1>7, <1>8

\* An action whose answer was lost is sent again, after any number of timeouts, reloads,
\* server failures and overlapping runs, and recorded once: twice only if two of its
\* copies both looked for a replay before either was recorded.
THEOREM ReplaysAreAppliedOnce == Spec => []AppliedOnceUnlessRaced
<1>1. Init => OnceInv
  BY DEF Init, OnceInv
<1>2. KeptInv /\ OnceInv /\ [Next]_vars => OnceInv'
  <2> SUFFICES ASSUME KeptInv, OnceInv, [Next]_vars PROVE OnceInv'
    OBVIOUS
  <2>1. ASSUME NEW a \in Actions, Enqueue(a) PROVE OnceInv'
    BY <2>1, OnceQuiet DEF Enqueue
  <2>2. CASE UNCHANGED vars
    BY <2>2, OnceQuiet DEF vars
  <2>3. QED
    BY <2>1, <2>2, OnceRun, OnceServer DEF Next
<1>3. OnceInv => AppliedOnceUnlessRaced
  BY DEF OnceInv, AppliedOnceUnlessRaced
<1>4. QED
  BY <1>1, <1>2, <1>3, QueueIsSound, PTL DEF Spec

-----------------------------------------------------------------------------
(* Sessions *)

Pair == 1..issued
RefreshAt == {"sent", "read", "granted", "refused"}
SomeRefresh == [at : RefreshAt, token : Pair]
SomeFetch == [at : {"waiting", "sent", "refused"}, tab : Tabs, token : 0..issued, again : BOOLEAN]
SomeLogout == [at : {"posted"}, token : Pair, login : Pair, met : BOOLEAN]

SessionTypeOK ==
  /\ issued \in 0..MaxPairs /\ troubles \in 0..MaxTroubles
  /\ fresh \subseteq Pair /\ valid \subseteq Pair /\ over \subseteq Pair
  /\ chain \in [1..MaxPairs -> 0..MaxPairs] /\ \A p \in Pair : chain[p] \in Pair
  /\ enabled \in BOOLEAN /\ disturbed \subseteq Disturbances
  /\ stored \in 0..issued /\ access \in [Tabs -> 0..issued]
  /\ refresh \in [Tabs -> SomeRefresh \cup {NoRefresh}]
  /\ orphan \in SomeRefresh \cup {NoRefresh}
  /\ fetches \in [Fetches -> SomeFetch \cup {NoFetch}]
  /\ leaving \in SomeLogout \cup {NoLogout}

\* The pair p is the only one of its login that may be valid.
Alone(p) == \A q \in valid : chain[q] = chain[p] => q = p

\* While nothing but its own refreshes has touched a login, one refresh is under
\* way at most, and a login has one valid pair: what is stored, or what the
\* refresh was sent or granted.
OneRefresh ==
  "refresh" \notin disturbed =>
    /\ orphan = NoRefresh
    /\ \A t, u \in Tabs : refresh[t] # NoRefresh /\ refresh[u] # NoRefresh => t = u
    /\ \A t \in Tabs : refresh[t] # NoRefresh => Alone(refresh[t].token)
    /\ ~Refreshing /\ stored # 0 => Alone(stored)

\* A logout that met no refresh revokes the only valid pair of its login.
LeavesNothing ==
  leaving # NoLogout =>
    /\ "leave" \in disturbed
    /\ ~leaving.met =>
         ~Meets /\ stored = 0 /\ \A p \in valid : chain[p] = leaving.login => p = leaving.token

\* Nobody holds a token of a login that is over.
OverIsOver ==
  /\ stored # 0 => chain[stored] \notin over
  /\ \A t \in Tabs : refresh[t] # NoRefresh => chain[refresh[t].token] \notin over
  /\ orphan # NoRefresh => chain[orphan.token] \notin over

\* An undisturbed session: what is stored is valid, until its refresh is granted.
SignedIn ==
  disturbed = {} /\ issued # 0 =>
    /\ enabled /\ stored # 0
    /\ ~Refreshing => stored \in valid
    /\ \A t \in Tabs : refresh[t] # NoRefresh =>
         \/ refresh[t].at \in {"sent", "read"} /\ refresh[t].token = stored /\ stored \in valid
         \/ refresh[t].at = "granted" /\ refresh[t].token \in valid

TokenInv == OneRefresh /\ LeavesNothing /\ OverIsOver /\ SignedIn /\ LogoutEnds
SessionInv == SessionTypeOK /\ TokenInv

-----------------------------------------------------------------------------
(* Types of a session *)

LEMMA NoneIsNone ==
  /\ NoRefresh.at = "none" /\ NoRefresh \notin SomeRefresh
  /\ NoFetch.at = "idle" /\ NoFetch \notin SomeFetch
  /\ NoLogout.at = "none" /\ NoLogout \notin SomeLogout
BY DEF NoRefresh, SomeRefresh, RefreshAt, NoFetch, SomeFetch, NoLogout, SomeLogout

\* More pairs, more values.
LEMMA PairsGrow ==
  ASSUME SessionTypeOK, issued' = issued + 1, issued < MaxPairs
  PROVE  /\ issued' \in 0..MaxPairs /\ issued' \in Pair' /\ issued' \notin Pair /\ Pair \subseteq Pair'
         /\ SomeRefresh \subseteq SomeRefresh' /\ SomeFetch \subseteq SomeFetch'
         /\ SomeLogout \subseteq SomeLogout' /\ 0..issued \subseteq 0..issued'
<1>1. issued \in Nat /\ MaxPairs \in Nat
  BY SessionAssumption DEF SessionTypeOK
<1>2. issued' \in 0..MaxPairs /\ Pair \subseteq Pair' /\ 0..issued \subseteq 0..issued'
      /\ issued' \in Pair' /\ issued' \notin Pair
  BY <1>1 DEF Pair
<1>3. QED
  BY <1>2 DEF SomeRefresh, SomeFetch, SomeLogout

\* A new pair: what was, is of a type still.
LEMMA IssueType ==
  ASSUME SessionTypeOK, NEW root \in {0} \cup Pair, Issue(root), enabled' = enabled,
         NEW t \in {0} \cup Pair, valid' = (valid \ {t}) \cup {issued'}
  PROVE  /\ issued' \in 0..MaxPairs /\ fresh' \subseteq Pair' /\ valid' \subseteq Pair'
         /\ chain' \in [1..MaxPairs -> 0..MaxPairs] /\ \A p \in Pair' : chain'[p] \in Pair'
         /\ enabled' \in BOOLEAN /\ issued' \in Pair' /\ issued' \notin Pair /\ Pair \subseteq Pair'
         /\ SomeRefresh \subseteq SomeRefresh' /\ SomeFetch \subseteq SomeFetch'
         /\ SomeLogout \subseteq SomeLogout' /\ 0..issued \subseteq 0..issued'
         /\ \A p \in Pair : chain'[p] = chain[p]
         /\ chain'[issued'] = IF root = 0 THEN issued' ELSE root
         /\ Pair' = Pair \cup {issued'}
<1>1. issued' = issued + 1 /\ issued < MaxPairs /\ issued \in Nat /\ MaxPairs \in Nat
  BY SessionAssumption DEF Issue, SessionTypeOK
<1>2. /\ issued' \in 0..MaxPairs /\ issued' \in Pair' /\ issued' \notin Pair /\ Pair \subseteq Pair'
      /\ SomeRefresh \subseteq SomeRefresh' /\ SomeFetch \subseteq SomeFetch'
      /\ SomeLogout \subseteq SomeLogout' /\ 0..issued \subseteq 0..issued'
  BY <1>1, PairsGrow
<1>3. Pair' = Pair \cup {issued'} /\ issued' \in 1..MaxPairs /\ Pair \subseteq 1..MaxPairs
  BY <1>1 DEF Pair
<1> DEFINE r == IF root = 0 THEN issued + 1 ELSE root
<1>4. chain' = [chain EXCEPT ![issued'] = r]
  BY <1>1 DEF Issue
<1>5. r \in 0..MaxPairs /\ r \in Pair' /\ r = IF root = 0 THEN issued' ELSE root
  BY <1>1, <1>2, <1>3
<1> HIDE DEF r
<1>6. /\ chain' \in [1..MaxPairs -> 0..MaxPairs]
      /\ \A p \in 1..MaxPairs : chain'[p] = IF p = issued' THEN r ELSE chain[p]
  BY <1>3, <1>4, <1>5 DEF SessionTypeOK
<1>7. /\ \A p \in Pair : chain'[p] = chain[p] /\ chain[p] \in Pair
      /\ chain'[issued'] = r
  BY <1>2, <1>3, <1>6 DEF SessionTypeOK
<1>8. fresh' \subseteq Pair' /\ valid' \subseteq Pair'
  BY <1>1, <1>2 DEF Issue, SessionTypeOK
<1>9. enabled' \in BOOLEAN
  BY DEF SessionTypeOK
<1>10. QED
  BY <1>2, <1>3, <1>5, <1>6, <1>7, <1>8, <1>9

LEMMA AskType ==
  ASSUME SessionTypeOK, NEW c \in Fetches, NEW t \in Tabs, NEW again \in BOOLEAN, Ask(c, t, again),
         issued' = issued
  PROVE  /\ fetches' \in [Fetches -> SomeFetch' \cup {NoFetch}]
         /\ refresh' \in [Tabs -> SomeRefresh' \cup {NoRefresh}]
         /\ orphan' = orphan /\ disturbed' \subseteq Disturbances
<1>1. [at |-> "waiting", tab |-> t, token |-> 0, again |-> again] \in SomeFetch
  BY SessionAssumption DEF SomeFetch, SessionTypeOK
<1>2. stored # 0 => [at |-> "sent", token |-> stored] \in SomeRefresh
  BY SessionAssumption DEF SomeRefresh, RefreshAt, Pair, SessionTypeOK
<1>3. SomeFetch' = SomeFetch /\ SomeRefresh' = SomeRefresh
  BY DEF SomeFetch, SomeRefresh, Pair
<1>4. fetches' \in [Fetches -> SomeFetch \cup {NoFetch}]
  BY <1>1 DEF Ask, SessionTypeOK
<1>5. refresh' \in [Tabs -> SomeRefresh \cup {NoRefresh}]
  BY <1>2 DEF Ask, SessionTypeOK
<1>6. orphan' = orphan
  BY DEF Ask, Joined
<1>7. disturbed' \subseteq Disturbances
  BY DEF Ask, SessionTypeOK, Disturbances
<1>8. QED
  BY <1>3, <1>4, <1>5, <1>6, <1>7

LEMMA ResumeType ==
  ASSUME SessionTypeOK, NEW t \in Tabs, NEW token \in 0..issued, Resume(t, token),
         issued' = issued
  PROVE  /\ fetches' \in [Fetches -> SomeFetch' \cup {NoFetch}]
         /\ refresh' \in [Tabs -> SomeRefresh' \cup {NoRefresh}]
         /\ access' \in [Tabs -> 0..issued'] /\ stored' \in 0..issued'
<1>1. SomeFetch' = SomeFetch /\ SomeRefresh' = SomeRefresh
  BY DEF SomeFetch, SomeRefresh, Pair
<1>2. ASSUME NEW c \in Fetches
      PROVE  (IF c \notin Waiting(t) THEN fetches[c]
              ELSE IF token = 0 THEN NoFetch ELSE [fetches[c] EXCEPT !.at = "sent", !.token = token])
                \in SomeFetch \cup {NoFetch}
  <2>1. c \in Waiting(t) => fetches[c] \in SomeFetch
    BY NoneIsNone DEF Waiting, SessionTypeOK
  <2>2. c \in Waiting(t) => [fetches[c] EXCEPT !.at = "sent", !.token = token] \in SomeFetch
    BY <2>1 DEF SomeFetch
  <2>3. QED
    BY <2>2 DEF SessionTypeOK
<1>3. fetches' \in [Fetches -> SomeFetch \cup {NoFetch}]
  BY <1>2 DEF Resume
<1>4. refresh' \in [Tabs -> SomeRefresh \cup {NoRefresh}]
  BY DEF Resume, SessionTypeOK
<1>5. access' \in [Tabs -> 0..issued'] /\ stored' \in 0..issued'
  BY DEF Resume, SessionTypeOK
<1>6. QED
  BY <1>1, <1>3, <1>4, <1>5

LEMMA SamePairs ==
  ASSUME issued' = issued
  PROVE  Pair' = Pair /\ SomeFetch' = SomeFetch /\ SomeRefresh' = SomeRefresh /\ SomeLogout' = SomeLogout
BY DEF Pair, SomeFetch, SomeRefresh, SomeLogout

LEMMA TroubleType ==
  ASSUME SessionTypeOK, Trouble
  PROVE  troubles' \in 0..MaxTroubles
BY SessionAssumption DEF SessionTypeOK, Trouble

LEMMA TabType ==
  ASSUME SessionTypeOK, NEW t \in Tabs,
         \/ Login(t) \/ Logout(t) \/ Reload(t)
         \/ RefreshAnswered(t) \/ RefreshLost(t) \/ ReadRefresh(t) \/ CommitRefresh(t)
         \/ \E c \in Fetches : Fetch(c, t)
  PROVE  SessionTypeOK'
<1>0. refresh[t] # NoRefresh => refresh[t] \in SomeRefresh /\ refresh[t].token \in Pair
  BY DEF SessionTypeOK, SomeRefresh
<1>1. CASE Login(t)
  <2>1. 0 \in {0} \cup Pair /\ valid' = (valid \ {0}) \cup {issued'}
    BY <1>1 DEF Login, Pair, SessionTypeOK
  <2>2. disturbed' \subseteq Disturbances
    BY <1>1 DEF Login, Disturbances
  <2>3. enabled' = enabled /\ Issue(0)
    BY <1>1 DEF Login
  <2>4. /\ issued' \in 0..MaxPairs /\ fresh' \subseteq Pair' /\ valid' \subseteq Pair'
        /\ chain' \in [1..MaxPairs -> 0..MaxPairs] /\ \A p \in Pair' : chain'[p] \in Pair'
        /\ enabled' \in BOOLEAN /\ issued' \in Pair' /\ Pair \subseteq Pair'
        /\ SomeRefresh \subseteq SomeRefresh' /\ SomeFetch \subseteq SomeFetch'
        /\ SomeLogout \subseteq SomeLogout' /\ 0..issued \subseteq 0..issued'
    BY <2>1, <2>3, IssueType
  <2>5. issued' \in 0..issued'
    BY <2>4
  <2>6. access' \in [Tabs -> 0..issued']
    BY <1>1, <2>4, <2>5 DEF Login, SessionTypeOK
  <2>7. QED
    BY <1>1, <2>2, <2>4, <2>5, <2>6 DEF Login, SessionTypeOK
<1>2. CASE Logout(t)
  <2>1. issued' = issued /\ stored \in Pair
    BY <1>2, SessionAssumption DEF Logout, book, SessionTypeOK, Pair
  <2>2. (Meets \/ "refresh" \in disturbed) \in BOOLEAN
    BY DEF Meets, Refreshing
  <2>3. leaving' \in SomeLogout
    <3>1. \A met \in BOOLEAN :
            [at |-> "posted", token |-> LogoutToken, login |-> chain[stored], met |-> met] \in SomeLogout
      BY <2>1 DEF SomeLogout, SessionTypeOK, LogoutToken
    <3>2. QED
      BY <1>2, <2>2, <3>1 DEF Logout
  <2>4. 0 \in 0..issued
    BY <2>1 DEF SessionTypeOK
  <2>5. QED
    BY <1>2, <2>1, <2>3, <2>4, SamePairs DEF Logout, SessionTypeOK, book, Disturbances
<1>3. CASE Reload(t)
  <2>1. issued' = issued /\ 0 \in 0..issued
    BY <1>3 DEF Reload, book, SessionTypeOK
  <2>2. orphan' \in SomeRefresh \cup {NoRefresh}
    BY <1>3 DEF Reload, SessionTypeOK
  <2>3. /\ fetches' \in [Fetches -> SomeFetch \cup {NoFetch}]
        /\ refresh' \in [Tabs -> SomeRefresh \cup {NoRefresh}]
        /\ access' \in [Tabs -> 0..issued]
    BY <1>3, <2>1 DEF Reload, SessionTypeOK
  <2>4. disturbed' \subseteq Disturbances /\ troubles' \in 0..MaxTroubles
    BY <1>3, TroubleType DEF Reload, SessionTypeOK, Disturbances
  <2>5. QED
    BY <1>3, <2>1, <2>2, <2>3, <2>4, SamePairs DEF Reload, SessionTypeOK, book
<1>4. CASE RefreshAnswered(t)
  <2>1. PICK token \in 0..issued : Resume(t, token)
    <3>1. 0 \in 0..issued /\ Pair \subseteq 0..issued
      BY DEF SessionTypeOK, Pair
    <3>2. refresh[t] # NoRefresh
      BY <1>4, NoneIsNone DEF RefreshAnswered
    <3>3. QED
      BY <1>0, <1>4, <3>1, <3>2 DEF RefreshAnswered
  <2>2. issued' = issued
    BY <1>4 DEF RefreshAnswered, book
  <2>3. /\ fetches' \in [Fetches -> SomeFetch' \cup {NoFetch}]
        /\ refresh' \in [Tabs -> SomeRefresh' \cup {NoRefresh}]
        /\ access' \in [Tabs -> 0..issued'] /\ stored' \in 0..issued'
    BY <2>1, <2>2, ResumeType
  <2>4. QED
    BY <1>4, <2>2, <2>3, SamePairs DEF RefreshAnswered, SessionTypeOK, book
<1>5. CASE RefreshLost(t)
  <2>1. 0 \in 0..issued /\ issued' = issued /\ Resume(t, 0)
    BY <1>5 DEF RefreshLost, SessionTypeOK, book
  <2>2. /\ fetches' \in [Fetches -> SomeFetch' \cup {NoFetch}]
        /\ refresh' \in [Tabs -> SomeRefresh' \cup {NoRefresh}]
        /\ access' \in [Tabs -> 0..issued'] /\ stored' \in 0..issued'
    BY <2>1, ResumeType
  <2>3. orphan' \in SomeRefresh \cup {NoRefresh}
    BY <1>0, <1>5 DEF RefreshLost, SessionTypeOK
  <2>4. disturbed' \subseteq Disturbances /\ troubles' \in 0..MaxTroubles
    BY <1>5, TroubleType DEF RefreshLost, SessionTypeOK, Disturbances
  <2>5. QED
    BY <1>5, <2>1, <2>2, <2>3, <2>4, SamePairs DEF RefreshLost, SessionTypeOK, book
<1>6. CASE ReadRefresh(t)
  <2>1. refresh[t] \in SomeRefresh /\ issued' = issued
    BY <1>0, <1>6, NoneIsNone DEF ReadRefresh, book
  <2>2. Reads(refresh[t]) \in SomeRefresh
    BY <2>1 DEF Reads, SomeRefresh, RefreshAt
  <2>3. QED
    BY <1>6, <2>1, <2>2, SamePairs DEF ReadRefresh, SessionTypeOK, book
<1>7. CASE CommitRefresh(t)
  <2>1. refresh[t].token \in Pair /\ chain[refresh[t].token] \in Pair
    BY <1>0, <1>7, NoneIsNone DEF CommitRefresh, SessionTypeOK
  <2>2. /\ Issue(chain[refresh[t].token]) /\ enabled' = enabled
        /\ valid' = (valid \ {refresh[t].token}) \cup {issued'}
    BY <1>7 DEF CommitRefresh, Rotate
  <2>3. /\ issued' \in 0..MaxPairs /\ fresh' \subseteq Pair' /\ valid' \subseteq Pair'
        /\ chain' \in [1..MaxPairs -> 0..MaxPairs] /\ \A p \in Pair' : chain'[p] \in Pair'
        /\ enabled' \in BOOLEAN /\ issued' \in Pair' /\ Pair \subseteq Pair'
        /\ SomeRefresh \subseteq SomeRefresh' /\ SomeFetch \subseteq SomeFetch'
        /\ SomeLogout \subseteq SomeLogout' /\ 0..issued \subseteq 0..issued'
    BY <2>1, <2>2, IssueType
  <2>4. [at |-> "granted", token |-> issued'] \in SomeRefresh'
    BY <2>3 DEF SomeRefresh, RefreshAt
  <2>5. refresh' \in [Tabs -> SomeRefresh' \cup {NoRefresh}]
    BY <1>7, <2>3, <2>4 DEF CommitRefresh, SessionTypeOK
  <2>6. /\ access' \in [Tabs -> 0..issued'] /\ stored' \in 0..issued'
        /\ fetches' \in [Fetches -> SomeFetch' \cup {NoFetch}]
        /\ orphan' \in SomeRefresh' \cup {NoRefresh} /\ leaving' \in SomeLogout' \cup {NoLogout}
        /\ over' \subseteq Pair'
    BY <1>7, <2>3 DEF CommitRefresh, SessionTypeOK
  <2>7. QED
    BY <1>7, <2>3, <2>5, <2>6 DEF CommitRefresh, SessionTypeOK
<1>8. ASSUME NEW c \in Fetches, Fetch(c, t)
      PROVE  SessionTypeOK'
  <2>1. issued' = issued
    BY <1>8 DEF Fetch, book
  <2>2. /\ fetches' \in [Fetches -> SomeFetch' \cup {NoFetch}]
        /\ refresh' \in [Tabs -> SomeRefresh' \cup {NoRefresh}]
        /\ orphan' = orphan /\ disturbed' \subseteq Disturbances
    <3>1. CASE access[t] # 0
      <4>1. [at |-> "sent", tab |-> t, token |-> access[t], again |-> FALSE] \in SomeFetch
        BY DEF SomeFetch, SessionTypeOK
      <4>2. QED
        BY <1>8, <2>1, <3>1, <4>1, SamePairs DEF Fetch, SessionTypeOK
    <3>2. CASE access[t] = 0
      BY <1>8, <2>1, <3>2, AskType DEF Fetch
    <3>3. QED
      BY <3>1, <3>2
  <2>3. QED
    BY <1>8, <2>1, <2>2, SamePairs DEF Fetch, SessionTypeOK, book
<1>9. QED
  BY <1>1, <1>2, <1>3, <1>4, <1>5, <1>6, <1>7, <1>8

LEMMA RequestType ==
  ASSUME SessionTypeOK, NEW c \in Fetches, Refused(c) \/ RestoreFails(c) \/ Serve(c)
  PROVE  SessionTypeOK'
<1>0. fetches[c].at # "idle" => fetches[c] \in SomeFetch /\ fetches[c].tab \in Tabs
  BY NoneIsNone DEF SessionTypeOK, SomeFetch
<1>1. issued' = issued /\ 0 \in 0..issued
  <2>1. issued' = issued
    BY DEF Refused, RestoreFails, Serve, book
  <2>2. QED
    BY <2>1, SessionAssumption DEF SessionTypeOK
<1>2. CASE Refused(c)
  <2> DEFINE t == fetches[c].tab
  <2>1. t \in Tabs
    BY <1>0, <1>2 DEF Refused
  <2>2. access' \in [Tabs -> 0..issued]
    BY <1>1, <1>2 DEF Refused, SessionTypeOK
  <2>3. /\ fetches' \in [Fetches -> SomeFetch' \cup {NoFetch}]
        /\ refresh' \in [Tabs -> SomeRefresh' \cup {NoRefresh}]
        /\ orphan' = orphan /\ disturbed' \subseteq Disturbances
    <3>1. CASE fetches[c].again
      BY <1>1, <1>2, <3>1, SamePairs DEF Refused, SessionTypeOK
    <3>2. CASE ~fetches[c].again
      <4>1. Ask(c, t, TRUE)
        BY <1>2, <3>2 DEF Refused
      <4> HIDE DEF t
      <4>2. QED
        BY <1>1, <2>1, <4>1, AskType
    <3>3. QED
      BY <3>1, <3>2
  <2>4. QED
    BY <1>1, <1>2, <2>2, <2>3, SamePairs DEF Refused, SessionTypeOK, book
<1>3. CASE RestoreFails(c)
  <2>1. disturbed' \subseteq Disturbances /\ troubles' \in 0..MaxTroubles
    BY <1>3, TroubleType DEF RestoreFails, SessionTypeOK, Disturbances
  <2>2. QED
    BY <1>1, <1>3, <2>1, SamePairs DEF RestoreFails, SessionTypeOK, book
<1>4. CASE Serve(c)
  <2>1. [fetches[c] EXCEPT !.at = "refused"] \in SomeFetch
    BY <1>0, <1>4 DEF Serve, SomeFetch
  <2>2. fetches' \in [Fetches -> SomeFetch \cup {NoFetch}]
    BY <1>4, <2>1 DEF Serve, SessionTypeOK
  <2>3. QED
    BY <1>1, <1>4, <2>2, SamePairs DEF Serve, SessionTypeOK, book
<1>5. QED
  BY <1>2, <1>3, <1>4

LEMMA ServerType ==
  ASSUME SessionTypeOK,
         \/ ReadOrphan \/ CommitOrphan \/ CommitLogout \/ LoseLogout
         \/ Expire \/ SetActive \/ ResetPassword
  PROVE  SessionTypeOK'
<1>0. orphan # NoRefresh => orphan \in SomeRefresh /\ orphan.token \in Pair
  BY DEF SessionTypeOK, SomeRefresh
<1>1. CASE ReadOrphan
  <2>1. orphan \in SomeRefresh /\ issued' = issued
    BY <1>0, <1>1, NoneIsNone DEF ReadOrphan, book
  <2>2. Reads(orphan) \in SomeRefresh
    BY <2>1 DEF Reads, SomeRefresh, RefreshAt
  <2>3. QED
    BY <1>1, <2>1, <2>2, SamePairs DEF ReadOrphan, SessionTypeOK, book
<1>2. CASE CommitOrphan
  <2>1. orphan.token \in Pair /\ chain[orphan.token] \in Pair
    BY <1>0, <1>2, NoneIsNone DEF CommitOrphan, SessionTypeOK
  <2>2. /\ Issue(chain[orphan.token]) /\ enabled' = enabled
        /\ valid' = (valid \ {orphan.token}) \cup {issued'}
    BY <1>2 DEF CommitOrphan, Rotate
  <2>3. /\ issued' \in 0..MaxPairs /\ fresh' \subseteq Pair' /\ valid' \subseteq Pair'
        /\ chain' \in [1..MaxPairs -> 0..MaxPairs] /\ \A p \in Pair' : chain'[p] \in Pair'
        /\ enabled' \in BOOLEAN /\ issued' \in Pair' /\ Pair \subseteq Pair'
        /\ SomeRefresh \subseteq SomeRefresh' /\ SomeFetch \subseteq SomeFetch'
        /\ SomeLogout \subseteq SomeLogout' /\ 0..issued \subseteq 0..issued'
    BY <2>1, <2>2, IssueType
  <2>4. /\ access' \in [Tabs -> 0..issued'] /\ stored' \in 0..issued'
        /\ fetches' \in [Fetches -> SomeFetch' \cup {NoFetch}]
        /\ refresh' \in [Tabs -> SomeRefresh' \cup {NoRefresh}]
        /\ leaving' \in SomeLogout' \cup {NoLogout} /\ over' \subseteq Pair'
    BY <1>2, <2>3 DEF CommitOrphan, SessionTypeOK
  <2>5. QED
    BY <1>2, <2>3, <2>4 DEF CommitOrphan, SessionTypeOK
<1>3. CASE CommitLogout
  <2>1. leaving.login \in Pair /\ issued' = issued
    BY <1>3, NoneIsNone DEF CommitLogout, SessionTypeOK, SomeLogout
  <2>2. QED
    BY <1>3, <2>1, SamePairs DEF CommitLogout, SessionTypeOK
<1>4. CASE LoseLogout
  BY <1>4, SamePairs, TroubleType DEF LoseLogout, SessionTypeOK, book
<1>5. CASE Expire
  BY <1>5, SamePairs DEF Expire, SessionTypeOK
<1>6. CASE SetActive
  BY <1>6, SamePairs, TroubleType DEF SetActive, SessionTypeOK, Disturbances
<1>7. CASE ResetPassword
  BY <1>7, SamePairs, TroubleType DEF ResetPassword, SessionTypeOK, Disturbances
<1>8. QED
  BY <1>1, <1>2, <1>3, <1>4, <1>5, <1>6, <1>7

-----------------------------------------------------------------------------
(* The tokens of a session *)

LEMMA TokensKept ==
  ASSUME TokenInv,
         UNCHANGED <<issued, valid, chain, enabled, stored, refresh, orphan, leaving, over, disturbed>>
  PROVE  TokenInv'
BY DEF TokenInv, OneRefresh, LeavesNothing, OverIsOver, SignedIn, LogoutEnds, Alone, Refreshing, Meets

\* Refreshes may end and what is stored may be forgotten, once that is a disturbance.
LEMMA TokensForgotten ==
  ASSUME SessionTypeOK, TokenInv,
         UNCHANGED <<issued, valid, chain, leaving, over>>,
         \A t \in Tabs : refresh'[t] \in {refresh[t], NoRefresh},
         orphan' \in {orphan, NoRefresh} \cup {refresh[t] : t \in Tabs},
         stored' \in {stored, 0}, disturbed \subseteq disturbed', disturbed' # {},
         "refresh" \in disturbed' \/ (refresh' = refresh /\ orphan' = orphan)
  PROVE  TokenInv'
<1> USE DEF TokenInv
<1>1. OneRefresh'
  <2>1. CASE "refresh" \in disturbed'
    BY <2>1 DEF OneRefresh
  <2>2. CASE "refresh" \notin disturbed'
    BY <2>2 DEF OneRefresh, Alone, Refreshing
  <2>3. QED
    BY <2>1, <2>2
<1>2. Meets' => Meets
  BY DEF Meets, Refreshing
<1>3. LeavesNothing'
  BY <1>2 DEF LeavesNothing
<1>4. OverIsOver'
  BY DEF OverIsOver
<1>5. SignedIn' /\ LogoutEnds'
  BY DEF SignedIn, LogoutEnds
<1>6. QED
  BY <1>1, <1>3, <1>4, <1>5

LEMMA AskTokens ==
  ASSUME SessionTypeOK, TokenInv, NEW c \in Fetches, NEW t \in Tabs, NEW again, Ask(c, t, again),
         UNCHANGED <<issued, valid, chain, enabled, stored, leaving, over>>
  PROVE  TokenInv'
<1> USE DEF TokenInv
<1>1. CASE Joined(t) \/ stored = 0
  BY <1>1, TokensKept DEF Ask
<1>2. CASE ~Joined(t) /\ stored # 0
  <2> DEFINE r == [at |-> "sent", token |-> stored]
  <2>1. /\ refresh[t] = NoRefresh /\ orphan' = orphan
        /\ refresh' = [refresh EXCEPT ![t] = r]
        /\ disturbed' = disturbed \cup {d \in {"refresh"} : orphan # NoRefresh \/ \E u \in Tabs \ {t} : refresh[u] # NoRefresh}
    BY <1>2 DEF Ask, Joined
  <2>2. r.at = "sent" /\ r.token = stored /\ r # NoRefresh
    BY DEF NoRefresh
  <2> HIDE DEF r
  <2>3. refresh' \in [Tabs -> {r} \cup SomeRefresh \cup {NoRefresh}]
        /\ \A u \in Tabs : refresh'[u] = IF u = t THEN r ELSE refresh[u]
    BY <2>1 DEF SessionTypeOK
  <2>4. "refresh" \notin disturbed' =>
          "refresh" \notin disturbed /\ orphan = NoRefresh /\ \A u \in Tabs \ {t} : refresh[u] = NoRefresh
    BY <2>1
  <2>5. disturbed \subseteq disturbed'
    BY <2>1
  <2>6. OneRefresh'
    <3>1. CASE "refresh" \in disturbed'
      BY <3>1 DEF OneRefresh
    <3>2. CASE "refresh" \notin disturbed'
      <4>1. ~Refreshing
        BY <2>1, <2>4, <3>2 DEF Refreshing
      <4>2. Alone(stored)
        BY <1>2, <2>4, <3>2, <4>1 DEF OneRefresh
      <4>3. \A u \in Tabs : refresh'[u] # NoRefresh => u = t
        BY <2>3, <2>4, <3>2
      <4>4. Alone(refresh[t].token)'
        BY <2>2, <2>3, <4>2 DEF Alone
      <4>5. Refreshing'
        BY <2>2, <2>3 DEF Refreshing
      <4>6. QED
        BY <2>1, <2>4, <3>2, <4>3, <4>4, <4>5 DEF OneRefresh
    <3>3. QED
      BY <3>1, <3>2
  <2>7. LeavesNothing'
    BY <1>2, <2>5 DEF LeavesNothing
  <2>8. OverIsOver'
    BY <1>2, <2>1, <2>2, <2>3 DEF OverIsOver
  <2>9. SignedIn'
    <3>1. ASSUME disturbed' = {}, issued # 0
          PROVE  enabled /\ stored \in valid /\ \A u \in Tabs : refresh'[u] # NoRefresh => refresh'[u] = r
      <4>1. disturbed = {} /\ "refresh" \notin disturbed'
        BY <2>5, <3>1
      <4>2. ~Refreshing
        BY <2>1, <2>4, <4>1 DEF Refreshing
      <4>3. enabled /\ stored \in valid
        BY <3>1, <4>1, <4>2 DEF SignedIn
      <4>4. QED
        BY <2>3, <2>4, <4>1, <4>3
    <3>2. QED
      BY <1>2, <2>2, <3>1 DEF SignedIn, Refreshing
  <2>10. LogoutEnds'
    BY DEF LogoutEnds
  <2>11. QED
    BY <2>6, <2>7, <2>8, <2>9, <2>10
<1>3. QED
  BY <1>1, <1>2

LEMMA LoginTokens ==
  ASSUME SessionInv, NEW t \in Tabs, Login(t)
  PROVE  TokenInv'
<1> USE DEF SessionInv, TokenInv
<1>1. 0 \in {0} \cup Pair /\ valid' = (valid \ {0}) \cup {issued'}
  BY DEF Login, Pair, SessionTypeOK
<1>2. enabled' = enabled /\ Issue(0)
  BY DEF Login
<1>3. /\ issued' \in Pair' /\ issued' \notin Pair
      /\ \A p \in Pair : chain'[p] = chain[p] /\ chain[p] \in Pair
      /\ chain'[issued'] = issued'
  BY <1>1, <1>2, IssueType DEF SessionTypeOK
<1>4. /\ stored' = issued' /\ valid' = valid \cup {issued'} /\ enabled
      /\ disturbed' = IF Meets THEN {"refresh"} ELSE {}
      /\ refresh' = refresh /\ orphan' = orphan /\ leaving' = leaving /\ over' = over
      /\ leaving = NoLogout
  BY DEF Login
<1>5. valid \subseteq Pair /\ over \subseteq Pair
  BY DEF SessionTypeOK
<1>6. Alone(issued)'
  BY <1>3, <1>4, <1>5 DEF Alone
<1>7. "refresh" \notin disturbed' => orphan = NoRefresh /\ \A u \in Tabs : refresh[u] = NoRefresh
  BY <1>4 DEF Meets, Refreshing
<1>8. OneRefresh'
  BY <1>4, <1>6, <1>7 DEF OneRefresh, Refreshing
<1>9. LeavesNothing'
  BY <1>4 DEF LeavesNothing
<1>10. OverIsOver'
  <2>1. \A u \in Tabs : refresh[u] # NoRefresh => refresh[u].token \in Pair
    BY DEF SessionTypeOK, SomeRefresh
  <2>2. orphan # NoRefresh => orphan.token \in Pair
    BY DEF SessionTypeOK, SomeRefresh
  <2>3. QED
    BY <1>3, <1>4, <1>5, <2>1, <2>2 DEF OverIsOver
<1>11. SignedIn'
  <2>1. issued' # 0
    BY <1>3, SessionAssumption DEF Pair, SessionTypeOK
  <2>2. QED
    BY <1>2, <1>4, <1>7, <2>1 DEF SignedIn, Refreshing
<1>12. LogoutEnds'
  BY <1>3, <1>4, <1>5 DEF LogoutEnds
<1>13. QED
  BY <1>8, <1>9, <1>10, <1>11, <1>12

LEMMA LogoutTokens ==
  ASSUME SessionInv, NEW t \in Tabs, Logout(t)
  PROVE  TokenInv'
<1> USE DEF SessionInv, TokenInv
<1>1. /\ stored # 0 /\ stored' = 0 /\ disturbed' = disturbed \cup {"leave"}
      /\ leaving' = [at |-> "posted", token |-> stored, login |-> chain[stored],
                     met |-> Meets \/ "refresh" \in disturbed]
      /\ issued' = issued /\ valid' = valid /\ chain' = chain /\ enabled' = enabled
      /\ refresh' = refresh /\ orphan' = orphan /\ over' = over
  BY DEF Logout, LogoutToken, book
<1>2. /\ leaving'.token = stored /\ leaving'.login = chain[stored]
      /\ leaving'.met = (Meets \/ "refresh" \in disturbed)
  BY <1>1
<1>3. LeavesNothing'
  <2>1. ASSUME ~leaving'.met
        PROVE  ~Meets /\ Alone(stored)
    BY <1>1, <1>2, <2>1 DEF OneRefresh, Meets
  <2>2. QED
    BY <1>1, <1>2, <2>1 DEF LeavesNothing, Meets, Refreshing, Alone
<1>4. OneRefresh' /\ OverIsOver' /\ SignedIn' /\ LogoutEnds'
  BY <1>1 DEF OneRefresh, OverIsOver, SignedIn, LogoutEnds, Alone, Refreshing
<1>5. QED
  BY <1>3, <1>4

LEMMA AnsweredTokens ==
  ASSUME SessionInv, NEW t \in Tabs, RefreshAnswered(t)
  PROVE  TokenInv'
<1> USE DEF SessionInv, TokenInv
<1> DEFINE token == IF refresh[t].at = "granted" THEN refresh[t].token ELSE 0
<1>1. /\ refresh[t].at \in {"granted", "refused"} /\ refresh[t] # NoRefresh /\ refresh[t] \in SomeRefresh
      /\ refresh' = [refresh EXCEPT ![t] = NoRefresh] /\ stored' = token
      /\ UNCHANGED <<issued, valid, chain, enabled, orphan, leaving, over, disturbed>>
  BY NoneIsNone DEF RefreshAnswered, Resume, book, SessionTypeOK
<1> HIDE DEF token
<1>2. \A u \in Tabs : refresh'[u] = IF u = t THEN NoRefresh ELSE refresh[u]
  BY <1>1 DEF SessionTypeOK
<1>3. token = 0 \/ (refresh[t].at = "granted" /\ token = refresh[t].token)
  BY DEF token
<1>4. OneRefresh'
  <2>1. CASE "refresh" \in disturbed
    BY <1>1, <2>1 DEF OneRefresh
  <2>2. CASE "refresh" \notin disturbed
    <3>1. Alone(refresh[t].token) /\ orphan = NoRefresh /\ \A u \in Tabs : refresh'[u] = NoRefresh
      BY <1>1, <1>2, <2>2 DEF OneRefresh
    <3>2. QED
      BY <1>1, <1>3, <3>1 DEF OneRefresh, Alone
  <2>3. QED
    BY <2>1, <2>2
<1>5. LeavesNothing'
  BY <1>1 DEF LeavesNothing, Meets, Refreshing
<1>6. OverIsOver'
  BY <1>1, <1>2, <1>3 DEF OverIsOver
<1>7. SignedIn'
  <2>1. ASSUME disturbed = {}, issued # 0
        PROVE  enabled /\ token # 0 /\ token \in valid /\ \A u \in Tabs : refresh'[u] = NoRefresh
    <3>1. refresh[t].at = "granted" /\ refresh[t].token \in valid /\ enabled
      BY <1>1, <2>1 DEF SignedIn
    <3>2. token \in valid /\ token # 0
      BY <3>1, SessionAssumption DEF token, SessionTypeOK, Pair
    <3>3. \A u \in Tabs : refresh'[u] = NoRefresh
      BY <1>1, <1>2, <2>1 DEF OneRefresh
    <3>4. QED
      BY <3>1, <3>2, <3>3
  <2>2. QED
    BY <1>1, <2>1 DEF SignedIn, Refreshing
<1>8. LogoutEnds'
  BY <1>1 DEF LogoutEnds
<1>9. QED
  BY <1>4, <1>5, <1>6, <1>7, <1>8

LEMMA LostTokens ==
  ASSUME SessionInv, NEW t \in Tabs, RefreshLost(t) \/ Reload(t)
  PROVE  TokenInv'
<1> USE DEF SessionInv
<1>1. CASE RefreshLost(t)
  <2>1. /\ UNCHANGED <<issued, valid, chain, leaving, over>>
        /\ \A u \in Tabs : refresh'[u] \in {refresh[u], NoRefresh}
        /\ orphan' \in {orphan, NoRefresh} \cup {refresh[u] : u \in Tabs}
        /\ stored' = 0 /\ disturbed' = disturbed \cup {"refresh"}
    BY <1>1 DEF RefreshLost, Resume, book, SessionTypeOK
  <2>2. QED
    BY <2>1, TokensForgotten
<1>2. CASE Reload(t)
  <2>1. /\ UNCHANGED <<issued, valid, chain, enabled, stored, leaving, over>>
        /\ refresh' = [refresh EXCEPT ![t] = NoRefresh]
        /\ orphan' = IF refresh[t].at \in {"sent", "read"} THEN refresh[t] ELSE orphan
        /\ disturbed' = disturbed \cup {d \in {"refresh"} : refresh[t] # NoRefresh}
    BY <1>2 DEF Reload, book
  <2>2. CASE refresh[t] = NoRefresh
    <3>1. refresh' = refresh /\ orphan' = orphan /\ disturbed' = disturbed
      BY <2>1, <2>2, NoneIsNone DEF SessionTypeOK
    <3>2. QED
      BY <2>1, <3>1, TokensKept
  <2>3. CASE refresh[t] # NoRefresh
    <3>1. /\ disturbed' = disturbed \cup {"refresh"}
          /\ \A u \in Tabs : refresh'[u] \in {refresh[u], NoRefresh}
          /\ orphan' \in {orphan, NoRefresh} \cup {refresh[u] : u \in Tabs}
      BY <2>1, <2>3 DEF SessionTypeOK
    <3>2. QED
      BY <2>1, <3>1, TokensForgotten
  <2>4. QED
    BY <2>2, <2>3
<1>3. QED
  BY <1>1, <1>2

LEMMA ReadTokens ==
  ASSUME SessionInv, NEW t \in Tabs, ReadRefresh(t)
  PROVE  TokenInv'
<1> USE DEF SessionInv, TokenInv
<1> DEFINE r == Reads(refresh[t])
<1>1. /\ refresh[t].at = "sent" /\ refresh[t] # NoRefresh /\ refresh[t] \in SomeRefresh
      /\ refresh' = [refresh EXCEPT ![t] = r]
      /\ UNCHANGED <<issued, valid, chain, enabled, stored, orphan, leaving, over, disturbed>>
  BY NoneIsNone DEF ReadRefresh, book, SessionTypeOK
<1>2. /\ r.token = refresh[t].token /\ r # NoRefresh
      /\ r.at = IF refresh[t].token \in valid /\ enabled THEN "read" ELSE "refused"
  BY <1>1 DEF Reads, SomeRefresh, NoRefresh
<1> HIDE DEF r
<1>3. \A u \in Tabs : refresh'[u] = IF u = t THEN r ELSE refresh[u]
  BY <1>1 DEF SessionTypeOK
<1>4. Refreshing' <=> Refreshing
  BY <1>1, <1>2, <1>3 DEF Refreshing
<1>5. OneRefresh'
  BY <1>1, <1>2, <1>3, <1>4 DEF OneRefresh, Alone
<1>6. LeavesNothing'
  BY <1>1, <1>4 DEF LeavesNothing, Meets
<1>7. OverIsOver'
  BY <1>1, <1>2, <1>3 DEF OverIsOver
<1>8. SignedIn'
  <2>1. ASSUME disturbed = {}, issued # 0
        PROVE  /\ enabled /\ stored # 0 /\ ~Refreshing => stored \in valid
               /\ \A u \in Tabs \ {t} : refresh[u] = NoRefresh
               /\ r.at = "read" /\ r.token = stored /\ stored \in valid
    BY <1>1, <1>2, <2>1 DEF SignedIn, OneRefresh
  <2>2. QED
    BY <1>1, <1>3, <1>4, <2>1 DEF SignedIn
<1>9. LogoutEnds'
  BY <1>1 DEF LogoutEnds
<1>10. QED
  BY <1>5, <1>6, <1>7, <1>8, <1>9

\* A refresh revokes what it was sent and adds a pair to the same login.
LEMMA RotateTokens ==
  ASSUME SessionInv, NEW token \in Pair, Rotate(token), enabled' = enabled,
         chain[token] \notin over, over' = over
  PROVE  /\ issued' \in Pair' /\ issued' \notin Pair /\ chain'[issued'] = chain[token]
         /\ \A p \in Pair : chain'[p] = chain[p]
         /\ valid' = (valid \ {token}) \cup {issued'} /\ issued # 0 /\ issued' # 0
         /\ LogoutEnds'
         /\ Alone(token) => Alone(issued)'
         /\ stored # 0 => chain'[stored] = chain[stored]
         /\ \A t \in Tabs : refresh[t] # NoRefresh =>
              refresh[t].token \in Pair /\ chain'[refresh[t].token] = chain[refresh[t].token]
<1> USE DEF SessionInv, TokenInv
<1>1. chain[token] \in Pair /\ Issue(chain[token]) /\ valid' = (valid \ {token}) \cup {issued'}
  BY DEF Rotate, SessionTypeOK
<1>2. /\ issued' \in Pair' /\ issued' \notin Pair /\ valid \subseteq Pair
      /\ \A p \in Pair : chain'[p] = chain[p]
      /\ chain'[issued'] = chain[token]
  <2>1. chain[token] # 0
    BY <1>1, SessionAssumption DEF Pair, SessionTypeOK
  <2>2. QED
    BY <1>1, <2>1, IssueType DEF SessionTypeOK
<1>3. LogoutEnds'
  BY <1>1, <1>2 DEF LogoutEnds
<1>4. Alone(token) => Alone(issued)'
  BY <1>1, <1>2 DEF Alone
<1>5. issued # 0 /\ issued' # 0
  BY <1>2, SessionAssumption DEF Pair, SessionTypeOK
<1>6. stored # 0 => stored \in Pair
  BY SessionAssumption DEF SessionTypeOK, Pair
<1>7. \A t \in Tabs : refresh[t] # NoRefresh => refresh[t].token \in Pair
  BY DEF SessionTypeOK, SomeRefresh
<1>8. QED
  BY <1>1, <1>2, <1>3, <1>4, <1>5, <1>6, <1>7

LEMMA CommitTokens ==
  ASSUME SessionInv, NEW t \in Tabs, CommitRefresh(t)
  PROVE  TokenInv'
<1> USE DEF SessionInv, TokenInv
<1> DEFINE token == refresh[t].token
<1>1. /\ refresh[t] # NoRefresh /\ token \in Pair /\ refresh[t].at = "read" /\ Rotate(token)
      /\ UNCHANGED <<enabled, stored, orphan, leaving, over, disturbed>>
      /\ chain[token] \notin over
  BY NoneIsNone DEF CommitRefresh, SessionTypeOK, SomeRefresh, OverIsOver
<1>2. /\ issued' \in Pair' /\ issued' \notin Pair /\ chain'[issued'] = chain[token]
      /\ \A p \in Pair : chain'[p] = chain[p]
      /\ valid' = (valid \ {token}) \cup {issued'} /\ issued # 0 /\ issued' # 0
      /\ LogoutEnds'
      /\ Alone(token) => Alone(issued)'
      /\ stored # 0 => chain'[stored] = chain[stored]
      /\ \A u \in Tabs : refresh[u] # NoRefresh =>
           refresh[u].token \in Pair /\ chain'[refresh[u].token] = chain[refresh[u].token]
  BY <1>1, RotateTokens
<1>3. PICK r : r = [at |-> "granted", token |-> issued']
  OBVIOUS
<1>4. r.at = "granted" /\ r.token = issued' /\ r # NoRefresh
  BY <1>3 DEF NoRefresh
<1>5. \A u \in Tabs : refresh'[u] = IF u = t THEN r ELSE refresh[u]
  BY <1>3 DEF CommitRefresh, SessionTypeOK
<1>6. OneRefresh'
  <2>1. CASE "refresh" \in disturbed
    BY <1>1, <2>1 DEF OneRefresh
  <2>2. CASE "refresh" \notin disturbed
    <3>1. orphan = NoRefresh /\ Alone(token) /\ \A u \in Tabs : refresh'[u] # NoRefresh => u = t
      BY <1>1, <1>5, <2>2 DEF OneRefresh
    <3>2. Alone(refresh[t].token)'
      BY <1>2, <1>4, <1>5, <3>1 DEF Alone
    <3>3. Refreshing'
      BY <1>4, <1>5 DEF Refreshing
    <3>4. QED
      BY <1>1, <3>1, <3>2, <3>3 DEF OneRefresh
  <2>3. QED
    BY <2>1, <2>2
<1>7. LeavesNothing'
  BY <1>1 DEF LeavesNothing, Meets, Refreshing
<1>8. OverIsOver'
  <2>1. orphan # NoRefresh => orphan.token \in Pair
    BY DEF SessionTypeOK, SomeRefresh
  <2>2. QED
    BY <1>1, <1>2, <1>4, <1>5, <2>1 DEF OverIsOver
<1>9. SignedIn'
  <2>1. ASSUME disturbed = {}
        PROVE  enabled /\ stored # 0 /\ \A u \in Tabs \ {t} : refresh[u] = NoRefresh
    BY <1>1, <1>2, <2>1 DEF SignedIn, OneRefresh
  <2>2. Refreshing'
    BY <1>4, <1>5 DEF Refreshing
  <2>3. QED
    BY <1>1, <1>2, <1>4, <1>5, <2>1, <2>2 DEF SignedIn
<1>10. QED
  BY <1>2, <1>6, <1>7, <1>8, <1>9

LEMMA OrphanTokens ==
  ASSUME SessionInv, ReadOrphan \/ CommitOrphan
  PROVE  TokenInv'
<1> USE DEF SessionInv, TokenInv
<1>1. CASE ReadOrphan
  <2>1. /\ orphan # NoRefresh /\ orphan \in SomeRefresh
        /\ UNCHANGED <<issued, valid, chain, enabled, stored, refresh, leaving, over, disturbed>>
    BY <1>1, NoneIsNone DEF ReadOrphan, book, SessionTypeOK
  <2>2. orphan' = NoRefresh \/ orphan'.token = orphan.token
    BY <1>1, <2>1 DEF ReadOrphan, Reads, SomeRefresh
  <2>3. "refresh" \in disturbed
    BY <2>1 DEF OneRefresh
  <2>4. QED
    BY <2>1, <2>2, <2>3 DEF OneRefresh, LeavesNothing, Meets, Refreshing, OverIsOver, SignedIn, LogoutEnds
<1>2. CASE CommitOrphan
  <2>1. /\ orphan # NoRefresh /\ orphan.token \in Pair /\ Rotate(orphan.token) /\ orphan' = NoRefresh
        /\ UNCHANGED <<enabled, stored, refresh, leaving, over, disturbed>>
        /\ chain[orphan.token] \notin over /\ "refresh" \in disturbed
    BY <1>2, NoneIsNone DEF CommitOrphan, SessionTypeOK, SomeRefresh, OverIsOver, OneRefresh
  <2>2. /\ LogoutEnds'
        /\ stored # 0 => chain'[stored] = chain[stored]
        /\ \A u \in Tabs : refresh[u] # NoRefresh => chain'[refresh[u].token] = chain[refresh[u].token]
    BY <2>1, RotateTokens
  <2>3. QED
    BY <2>1, <2>2 DEF OneRefresh, LeavesNothing, Meets, OverIsOver, SignedIn
<1>3. QED
  BY <1>1, <1>2

LEMMA EndTokens ==
  ASSUME SessionInv, CommitLogout \/ LoseLogout \/ SetActive \/ ResetPassword
  PROVE  TokenInv'
<1> USE DEF SessionInv, TokenInv
<1>1. CASE CommitLogout
  <2>1. /\ leaving # NoLogout /\ leaving' = NoLogout /\ valid' = valid \ {leaving.token}
        /\ over' = IF leaving.met THEN over ELSE over \cup {leaving.login}
        /\ UNCHANGED <<issued, chain, enabled, stored, refresh, orphan, disturbed>>
    BY <1>1, NoneIsNone DEF CommitLogout
  <2>2. OneRefresh' /\ LeavesNothing' /\ SignedIn'
    BY <2>1 DEF OneRefresh, Alone, Refreshing, LeavesNothing, SignedIn
  <2>3. OverIsOver'
    BY <2>1 DEF OverIsOver, LeavesNothing, Meets, Refreshing
  <2>4. LogoutEnds'
    BY <2>1 DEF LogoutEnds, LeavesNothing
  <2>5. QED
    BY <2>2, <2>3, <2>4
<1>2. CASE LoseLogout
  <2>1. /\ leaving' = NoLogout
        /\ UNCHANGED <<issued, valid, chain, enabled, stored, refresh, orphan, over, disturbed>>
    BY <1>2 DEF LoseLogout, book
  <2>2. QED
    BY <2>1 DEF OneRefresh, Alone, Refreshing, LeavesNothing, OverIsOver, SignedIn, LogoutEnds
<1>3. CASE SetActive
  <2>1. /\ disturbed' = disturbed \cup {"account"}
        /\ UNCHANGED <<issued, valid, chain, stored, refresh, orphan, leaving, over>>
    BY <1>3 DEF SetActive
  <2>2. QED
    BY <2>1 DEF OneRefresh, Alone, Refreshing, LeavesNothing, Meets, OverIsOver, SignedIn, LogoutEnds
<1>4. CASE ResetPassword
  <2>1. /\ disturbed' = disturbed \cup {"account"} /\ valid' = {}
        /\ UNCHANGED <<issued, chain, stored, refresh, orphan, leaving, over>>
    BY <1>4 DEF ResetPassword
  <2>2. QED
    BY <2>1 DEF OneRefresh, Alone, Refreshing, LeavesNothing, Meets, OverIsOver, SignedIn, LogoutEnds
<1>5. QED
  BY <1>1, <1>2, <1>3, <1>4

LEMMA RequestTokens ==
  ASSUME SessionInv, NEW c \in Fetches,
         Refused(c) \/ RestoreFails(c) \/ Serve(c) \/ \E t \in Tabs : Fetch(c, t)
  PROVE  TokenInv'
<1> USE DEF SessionInv
<1>1. CASE Refused(c)
  <2>1. UNCHANGED <<issued, valid, chain, enabled, stored, leaving, over>>
    BY <1>1 DEF Refused, book
  <2>2. CASE fetches[c].again
    BY <1>1, <2>1, <2>2, TokensKept DEF Refused
  <2>3. CASE ~fetches[c].again
    <3>1. PICK t : t = fetches[c].tab
      OBVIOUS
    <3>2. t \in Tabs /\ Ask(c, t, TRUE)
      BY <1>1, <2>3, <3>1, NoneIsNone DEF Refused, SessionTypeOK, SomeFetch
    <3>3. QED
      BY <2>1, <3>2, AskTokens
  <2>4. QED
    BY <2>2, <2>3
<1>2. CASE RestoreFails(c)
  <2>1. /\ UNCHANGED <<issued, valid, chain, enabled, refresh, orphan, leaving, over>>
        /\ stored' = 0 /\ disturbed' = disturbed \cup {"leave"}
    BY <1>2 DEF RestoreFails, book
  <2>2. QED
    BY <2>1, TokensForgotten
<1>3. CASE Serve(c)
  BY <1>3, TokensKept DEF Serve, book
<1>4. ASSUME NEW t \in Tabs, Fetch(c, t)
      PROVE  TokenInv'
  <2>1. UNCHANGED <<issued, valid, chain, enabled, stored, leaving, over>>
    BY <1>4 DEF Fetch, book
  <2>2. CASE access[t] # 0
    BY <1>4, <2>1, <2>2, TokensKept DEF Fetch
  <2>3. CASE access[t] = 0
    BY <1>4, <2>1, <2>3, AskTokens DEF Fetch
  <2>4. QED
    BY <2>2, <2>3
<1>5. QED
  BY <1>1, <1>2, <1>3, <1>4

LEMMA SessionStart == SessionInit => SessionInv
<1> SUFFICES ASSUME SessionInit PROVE SessionInv
  OBVIOUS
<1>1. /\ issued = 0 /\ fresh = {} /\ valid = {} /\ chain = [p \in 1..MaxPairs |-> 0] /\ enabled = TRUE
      /\ stored = 0 /\ access = [t \in Tabs |-> 0]
      /\ refresh = [t \in Tabs |-> NoRefresh] /\ orphan = NoRefresh
      /\ fetches = [c \in Fetches |-> NoFetch]
      /\ leaving = NoLogout /\ over = {} /\ troubles = 0 /\ disturbed = {}
  BY DEF SessionInit
<1>2. SessionTypeOK
  <2>1. 0 \in 0..MaxPairs /\ 0 \in 0..MaxTroubles /\ 0 \in 0..issued
    BY <1>1, SessionAssumption
  <2>2. Pair = {}
    BY <1>1 DEF Pair
  <2>3. QED
    BY <1>1, <2>1, <2>2 DEF SessionTypeOK
<1>3. TokenInv
  BY <1>1 DEF TokenInv, OneRefresh, LeavesNothing, OverIsOver, SignedIn, LogoutEnds
<1>4. QED
  BY <1>2, <1>3 DEF SessionInv

LEMMA SessionStep == SessionInv /\ [SessionNext]_sessionVars => SessionInv'
<1> SUFFICES ASSUME SessionInv, [SessionNext]_sessionVars PROVE SessionInv'
  OBVIOUS
<1>1. SessionTypeOK'
  <2>1. CASE SessionNext
    BY <2>1, TabType, RequestType, ServerType DEF SessionNext, SessionInv
  <2>2. CASE UNCHANGED sessionVars
    BY <2>2, SamePairs DEF sessionVars, SessionInv, SessionTypeOK
  <2>3. QED
    BY <2>1, <2>2
<1>2. TokenInv'
  <2>1. CASE Expire \/ UNCHANGED sessionVars
    BY <2>1, TokensKept DEF Expire, sessionVars, SessionInv
  <2>2. CASE SessionNext /\ ~Expire
    BY <2>2, LoginTokens, LogoutTokens, LostTokens, AnsweredTokens, ReadTokens, CommitTokens,
       OrphanTokens, EndTokens, RequestTokens DEF SessionNext
  <2>3. QED
    BY <2>1, <2>2
<1>3. QED
  BY <1>1, <1>2 DEF SessionInv

\* The types of a session and what its inductive invariant adds to them: a login
\* that only its own refreshes have touched has one refresh under way and one
\* valid pair, and nobody holds a token of a login that is over.
THEOREM SessionIsSound == SessionSpec => []SessionInv
BY SessionStart, SessionStep, PTL DEF SessionSpec

\* Whatever the interleaving of tabs, refreshes and lost requests, nothing issued
\* since a login is valid once a logout of it reached the server.
THEOREM LogoutsAreFinal == SessionSpec => []LogoutEnds
<1>1. SessionInv => LogoutEnds
  BY DEF SessionInv, TokenInv
<1>2. QED
  BY <1>1, SessionIsSound, PTL

\* However many requests meet the expiry of an access token, a session that
\* nothing else touched goes on.
THEOREM ExpiryThrowsNobodyOut == SessionSpec => []NobodyIsThrownOut
<1>1. SessionInv => NobodyIsThrownOut
  BY DEF SessionInv, TokenInv, SignedIn, NobodyIsThrownOut, Refreshing
<1>2. QED
  BY <1>1, SessionIsSound, PTL

-----------------------------------------------------------------------------
(* Administration *)

AccountJob == [on : Accounts, was : Row \cup {Absent}, will : Row]
EntityJob == [on : Entities, was : [is : Switch], will : [is : {"on", "off"}]]

\* What a request under way is, and that the account it is about has not gone.
JobsOK ==
  /\ IsFiniteSet(jobs) /\ edits + Cardinality(jobs) <= MaxEdits + MaxJobs
  /\ \A j \in jobs :
       \/ j \in AccountJob /\ (j.was # Absent => account[j.on] # Absent)
       \/ j \in EntityJob

\* Until two requests that deprive somebody overlap, one is under way at most,
\* and it leaves another super administrator.
Spared(u) == \E a \in Accounts : a # u /\ Authorized(a)
SomebodyIsLeft ==
  ~duel =>
    /\ \E u \in Accounts : Authorized(u)
    /\ \A d \in jobs : Deprives(d) => Spared(d.on) /\ \A e \in jobs : Deprives(e) => e = d

Held(role) == \E u \in Accounts : account[u].active /\ account[u].role = role
Backed(u, was, will) ==
  will.active /\ will.role # "CITIZEN" =>
    On(will.role) \/ u \in revived \/ (was # Absent /\ ~was.active)

\* Until requests overlap, the one under way knows the row as it is, and neither
\* gives an account a disabled role nor disables a role that is held.
RolesAreOn ==
  ~overlapped =>
    /\ \A u \in Accounts \ revived :
         account[u].active /\ account[u].role # "CITIZEN" => On(account[u].role)
    /\ \A j \in jobs :
         /\ jobs = {j}
         /\ j.on \in Accounts => j.was = account[j.on] /\ Backed(j.on, j.was, j.will)
         /\ j.on \in Entities =>
              /\ j.was.is = state[j.on]
              /\ j.on \in Roles /\ j.will.is = "off" => ~Held(j.on)

AdminInv == AdminTypeOK /\ JobsOK /\ SomebodyIsLeft /\ RolesAreOn

\* What a request may ask of an account, and of what can be switched off.
FairEdit(u, will) ==
  /\ Open /\ u \in Accounts /\ will \in Row
  /\ Deprives([on |-> u, was |-> account[u], will |-> will]) => Spared(u)
  /\ ~overlapped => Backed(u, account[u], will)
FairTurn(e, will) ==
  /\ Open /\ e \in Entities /\ will \in {"on", "off"}
  /\ e \in Roles /\ will = "off" => ~Held(e)

LEMMA AbsentIsNoRow == Absent \notin Row /\ Absent.active = FALSE /\ Absent.role \notin Roles
<1>1. Nil \notin Roles
  BY AdministrationAssumption DEF Entities
<1>2. QED
  BY <1>1 DEF Absent, Row

\* Every request on an account is fair: it names roles that are enabled, and an
\* administrator takes nothing from himself.
LEMMA EditsAreFair ==
  ASSUME AdminInv, NEW a \in Accounts, NEW u \in Accounts, NEW to \in BOOLEAN,
         \/ CreateUser(a, u) \/ UpdateUser(a, u) \/ SetUserActive(a, u, to)
         \/ UpdateFieldWorker(a, u) \/ UpdateRepresentative(a, u) \/ Register(u)
  PROVE  \E will \in Row : FairEdit(u, will) /\ Edit(u, will)
<1> DEFINE Fair == \E will \in Row : FairEdit(u, will) /\ Edit(u, will)
<1>1. account[u] \in Row \cup {Absent} /\ (Exists(u) => account[u] \in Row)
  BY DEF AdminInv, AdminTypeOK, Exists
<1>2. Exists(u) /\ ~overlapped /\ account[u].active /\ account[u].role # "CITIZEN"
      => On(account[u].role) \/ u \in revived
  BY DEF AdminInv, RolesAreOn
<1>3. CASE CreateUser(a, u)
  <2>1. PICK role \in Roles, ward \in Districts \cup {Nil}, crew \in Departments \cup {Nil} :
          /\ On(role)
          /\ Edit(u, [role |-> role, active |-> TRUE, ward |-> ward,
                      crew |-> IF role = "FIELD_WORKER" THEN crew ELSE Nil,
                      seat |-> IF role = "WARD_REPRESENTATIVE" THEN ward ELSE Nil])
    BY <1>3 DEF CreateUser
  <2> DEFINE will == [role |-> role, active |-> TRUE, ward |-> ward,
                      crew |-> IF role = "FIELD_WORKER" THEN crew ELSE Nil,
                      seat |-> IF role = "WARD_REPRESENTATIVE" THEN ward ELSE Nil]
  <2>2. will \in Row
    BY DEF Row
  <2>3. Open /\ account[u] = Absent
    BY <1>3 DEF CreateUser, Asks, Exists
  <2>4. FairEdit(u, will)
    BY <2>1, <2>2, <2>3 DEF FairEdit, Deprives, Backed
  <2>5. QED
    BY <2>1, <2>2, <2>4
<1>4. CASE Register(u)
  <2>1. PICK w \in Districts :
          Edit(u, [role |-> "CITIZEN", active |-> TRUE, ward |-> w, crew |-> Nil, seat |-> Nil])
    BY <1>4 DEF Register
  <2> DEFINE will == [role |-> "CITIZEN", active |-> TRUE, ward |-> w, crew |-> Nil, seat |-> Nil]
  <2>2. will \in Row
    BY AdministrationAssumption DEF Row
  <2>3. Open /\ account[u] = Absent
    BY <1>4 DEF Register, Exists
  <2>4. FairEdit(u, will)
    BY <2>2, <2>3 DEF FairEdit, Deprives, Backed
  <2>5. QED
    BY <2>1, <2>2, <2>4
<1>5. CASE UpdateUser(a, u)
  <2> DEFINE was == account[u]
  <2>0. Open /\ Exists(u) /\ Authorized(a) /\ was \in Row
    BY <1>1, <1>5 DEF UpdateUser, Asks
  <2>1. PICK change \in Change :
          /\ change.role \notin {Unset, was.role} => MayGet(a, u, change.role)
          /\ was.role = "SUPER_ADMIN" => change.active # FALSE
          /\ Edit(u,
               [role |-> IF change.role = Unset THEN was.role ELSE change.role,
                active |-> IF change.active = Unset THEN was.active ELSE change.active,
                ward |-> IF change.ward = Unset THEN was.ward ELSE change.ward,
                crew |-> IF change.crew # Unset /\ (was.crew # Nil \/ was.role = "FIELD_WORKER")
                         THEN change.crew ELSE was.crew,
                seat |-> IF change.ward \in Districts /\ was.role = "WARD_REPRESENTATIVE"
                         THEN change.ward ELSE was.seat])
    BY <1>5 DEF UpdateUser
  <2> DEFINE will ==
               [role |-> IF change.role = Unset THEN was.role ELSE change.role,
                active |-> IF change.active = Unset THEN was.active ELSE change.active,
                ward |-> IF change.ward = Unset THEN was.ward ELSE change.ward,
                crew |-> IF change.crew # Unset /\ (was.crew # Nil \/ was.role = "FIELD_WORKER")
                         THEN change.crew ELSE was.crew,
                seat |-> IF change.ward \in Districts /\ was.role = "WARD_REPRESENTATIVE"
                         THEN change.ward ELSE was.seat]
  <2>2. will \in Row
    BY <2>0 DEF Row, Change
  <2>3. Deprives([on |-> u, was |-> was, will |-> will]) => Spared(u)
    <3>1. a = u => will.role = "SUPER_ADMIN" /\ will.active
      BY <2>0, <2>1 DEF Authorized, MayGet, Row, Change
    <3>2. QED
      BY <2>0, <3>1 DEF Deprives, Spared
  <2>4. ~overlapped => Backed(u, was, will)
    <3>1. was # Absent
      BY <2>0 DEF Exists
    <3>2. will.role = was.role \/ On(will.role)
      BY <2>1 DEF MayGet
    <3>3. QED
      BY <1>2, <2>0, <3>1, <3>2 DEF Backed
  <2>5. FairEdit(u, will)
    BY <2>0, <2>2, <2>3, <2>4 DEF FairEdit
  <2>6. QED
    BY <2>1, <2>2, <2>5
<1>6. CASE SetUserActive(a, u, to)
  <2> DEFINE will == [account[u] EXCEPT !.active = to]
  <2>1. /\ Open /\ Authorized(a) /\ Edit(u, will) /\ account[u] \in Row /\ account[u] # Absent
        /\ ~to => u # a
    BY <1>1, <1>6 DEF SetUserActive, Asks, Exists
  <2>2. will \in Row /\ will.role = account[u].role /\ will.active = to
    BY <2>1 DEF Row
  <2>3. Deprives([on |-> u, was |-> account[u], will |-> will]) => Spared(u)
    BY <2>1, <2>2 DEF Deprives, Spared
  <2>4. ~overlapped => Backed(u, account[u], will)
    BY <1>2, <2>1, <2>2 DEF Backed, Exists
  <2>5. FairEdit(u, will)
    BY <2>1, <2>2, <2>3, <2>4 DEF FairEdit
  <2>6. QED
    BY <2>1, <2>2, <2>5
<1>7. CASE UpdateFieldWorker(a, u) \/ UpdateRepresentative(a, u)
  <2>1. Open /\ account[u] \in Row /\ account[u] # Absent
    BY <1>1, <1>7 DEF UpdateFieldWorker, UpdateRepresentative, Asks, Absent
  <2>2. PICK will \in Row :
          /\ Edit(u, will) /\ will.role = account[u].role /\ will.active = account[u].active
    <3>1. CASE UpdateFieldWorker(a, u)
      <4>1. PICK d \in Departments : Edit(u, [account[u] EXCEPT !.crew = d])
        BY <3>1 DEF UpdateFieldWorker
      <4>2. [account[u] EXCEPT !.crew = d] \in Row
        BY <2>1 DEF Row
      <4>3. QED
        BY <2>1, <4>1, <4>2 DEF Row
    <3>2. CASE UpdateRepresentative(a, u)
      <4>1. PICK w \in Districts : Edit(u, [account[u] EXCEPT !.seat = w])
        BY <3>2 DEF UpdateRepresentative
      <4>2. [account[u] EXCEPT !.seat = w] \in Row
        BY <2>1 DEF Row
      <4>3. QED
        BY <2>1, <4>1, <4>2 DEF Row
    <3>3. QED
      BY <1>7, <3>1, <3>2
  <2>3. ~Deprives([on |-> u, was |-> account[u], will |-> will])
    BY <2>2 DEF Deprives
  <2>4. ~overlapped => Backed(u, account[u], will)
    BY <1>2, <2>1, <2>2 DEF Backed, Exists
  <2>5. FairEdit(u, will)
    BY <2>1, <2>3, <2>4 DEF FairEdit
  <2>6. QED
    BY <2>2, <2>5
<1>8. QED
  BY <1>3, <1>4, <1>5, <1>6, <1>7

\* Nothing that is switched off is a role somebody holds.
LEMMA TurnsAreFair ==
  ASSUME NEW a \in Accounts,
         \/ \E r \in Roles : CreateRole(a, r) \/ UpdateRole(a, r)
         \/ \E w \in Districts : CreateWard(a, w) \/ UpdateWard(a, w)
         \/ \E d \in Departments : CreateDepartment(a, d) \/ UpdateDepartment(a, d)
         \/ \E c \in Categories : CreateComplaintCategory(a, c) \/ UpdateComplaintCategory(a, c)
         \/ \E k \in Weights : CreatePriorityWeight(a, k) \/ UpdatePriorityWeight(a, k)
         \/ \E s \in Settings : UpdateConfig(a, s) \/ ClearConfig(a, s)
  PROVE  \E e \in Entities, will \in {"on", "off"} : FairTurn(e, will) /\ Turn(e, will)
<1>1. CASE \E r \in Roles : CreateRole(a, r) \/ UpdateRole(a, r)
  <2>1. PICK r \in Roles : CreateRole(a, r) \/ UpdateRole(a, r)
    BY <1>1
  <2>2. r \in Entities
    BY DEF Entities
  <2>3. CASE Turn(r, "on") /\ Open
    <3>1. FairTurn(r, "on")
      BY <2>2, <2>3 DEF FairTurn, Switch
    <3>2. QED
      BY <2>2, <2>3, <3>1 DEF Switch
  <2>4. CASE Turn(r, "off") /\ Open /\ Vacant(r)
    <3>1. FairTurn(r, "off")
      BY <2>2, <2>4 DEF FairTurn, Switch, Vacant, Held
    <3>2. QED
      BY <2>2, <2>4, <3>1 DEF Switch
  <2>5. QED
    BY <2>1, <2>3, <2>4 DEF CreateRole, Create, UpdateRole, Asks
<1>2. CASE ~ \E r \in Roles : CreateRole(a, r) \/ UpdateRole(a, r)
  <2>1. PICK e \in Districts \cup Departments \cup Categories \cup Weights \cup Settings :
          Create(a, e) \/ Toggle(a, e) \/ Override(a, e, "on") \/ Override(a, e, "off")
    BY <1>2 DEF CreateWard, UpdateWard, CreateDepartment, UpdateDepartment,
       CreateComplaintCategory, UpdateComplaintCategory, CreatePriorityWeight,
       UpdatePriorityWeight, UpdateConfig, ClearConfig
  <2>2. e \in Entities /\ e \notin Roles
    BY AdministrationAssumption DEF Entities
  <2>3. PICK will \in {"on", "off"} : Turn(e, will) /\ Open
    BY <2>1 DEF Create, Toggle, Override, Asks
  <2>4. will \in Switch /\ FairTurn(e, will)
    BY <2>2, <2>3 DEF FairTurn, Switch
  <2>5. QED
    BY <2>2, <2>3, <2>4
<1>3. QED
  BY <1>1, <1>2


LEMMA OneMoreJob ==
  ASSUME IsFiniteSet(jobs), NEW job, job \notin jobs, jobs' = jobs \cup {job}, Open,
         AdminTypeOK, edits' = edits
  PROVE  IsFiniteSet(jobs') /\ edits' + Cardinality(jobs') <= MaxEdits + MaxJobs
<1>1. Cardinality(jobs) \in Nat
  BY FS_CardinalityType
<1>2. IsFiniteSet(jobs \cup {job}) /\ Cardinality(jobs \cup {job}) = Cardinality(jobs) + 1
  BY FS_AddElement
<1>3. edits \in Nat /\ MaxEdits \in Nat /\ MaxJobs \in Nat
  BY AdministrationAssumption DEF AdminTypeOK
<1>4. QED
  BY <1>1, <1>2, <1>3 DEF Open

LEMMA OneJobLess ==
  ASSUME IsFiniteSet(jobs), NEW job \in jobs, jobs' = jobs \ {job}, edits' = edits + 1,
         edits \in Nat, edits + Cardinality(jobs) <= MaxEdits + MaxJobs
  PROVE  /\ IsFiniteSet(jobs') /\ edits' + Cardinality(jobs') <= MaxEdits + MaxJobs
         /\ edits' \in 0..(MaxEdits + MaxJobs)
<1>1. Cardinality(jobs) \in Nat
  BY FS_CardinalityType
<1>2. /\ IsFiniteSet(jobs \ {job}) /\ Cardinality(jobs \ {job}) = Cardinality(jobs) - 1
      /\ Cardinality(jobs \ {job}) \in Nat
  BY FS_RemoveElement, FS_CardinalityType
<1>3. MaxEdits \in Nat /\ MaxJobs \in Nat
  BY AdministrationAssumption
<1>4. QED
  BY <1>1, <1>2, <1>3

LEMMA NoJobIsBoth == ASSUME NEW j PROVE ~(j \in AccountJob /\ j \in EntityJob)
BY AdministrationAssumption DEF AccountJob, EntityJob

\* A fair edit gets under way.
LEMMA EditSubmitted ==
  ASSUME AdminInv, NEW u, NEW will, FairEdit(u, will), Edit(u, will)
  PROVE  AdminInv'
<1> DEFINE job == [on |-> u, was |-> account[u], will |-> will]
<1>0. /\ job \notin jobs /\ jobs' = jobs \cup {job} /\ Open
      /\ account' = account /\ state' = state /\ edits' = edits /\ revived' = revived
      /\ overlapped' = (overlapped \/ jobs # {})
      /\ duel' = (duel \/ (Deprives(job) /\ \E j \in jobs : Deprives(j)))
  BY DEF FairEdit, Edit, Submit
<1>1. job \in AccountJob /\ (job.was # Absent => account[job.on] # Absent) /\ job \notin EntityJob
  <2>1. job \in AccountJob
    BY DEF FairEdit, AccountJob, AdminInv, AdminTypeOK
  <2>2. QED
    BY <2>1, NoJobIsBoth
<1>2. AdminTypeOK'
  BY <1>0 DEF AdminInv, AdminTypeOK
<1>3. JobsOK'
  <2>1. IsFiniteSet(jobs') /\ edits' + Cardinality(jobs') <= MaxEdits + MaxJobs
    BY <1>0, OneMoreJob DEF AdminInv, JobsOK
  <2>2. QED
    BY <1>0, <1>1, <2>1 DEF AdminInv, JobsOK
<1>4. SomebodyIsLeft'
  <2> SUFFICES ASSUME ~duel'
               PROVE  /\ \E w \in Accounts : Authorized(w)
                      /\ \A d \in jobs' : Deprives(d) => Spared(d.on) /\ \A e \in jobs' : Deprives(e) => e = d
    BY <1>0 DEF SomebodyIsLeft, Authorized, Spared, Deprives
  <2>1. ~duel /\ (Deprives(job) => \A j \in jobs : ~Deprives(j))
    BY <1>0
  <2>2. Deprives(job) => Spared(job.on)
    BY DEF FairEdit
  <2> HIDE DEF job
  <2>3. QED
    BY <1>0, <2>1, <2>2 DEF AdminInv, SomebodyIsLeft
<1>5. RolesAreOn'
  <2> SUFFICES ASSUME ~overlapped' PROVE RolesAreOn'
    BY DEF RolesAreOn
  <2>1. ~overlapped /\ jobs = {}
    BY <1>0
  <2>2. jobs' = {job} /\ job.on \in Accounts /\ job.on \notin Entities
    BY <1>0, <2>1, AdministrationAssumption DEF FairEdit
  <2>3. job.was = account[job.on] /\ Backed(job.on, job.was, job.will)
    BY <2>1 DEF FairEdit
  <2> HIDE DEF job
  <2>4. QED
    BY <1>0, <2>1, <2>2, <2>3 DEF AdminInv, RolesAreOn, Backed, On, Held
<1>6. QED
  BY <1>2, <1>3, <1>4, <1>5 DEF AdminInv

\* A fair turn gets under way.
LEMMA TurnSubmitted ==
  ASSUME AdminInv, NEW e, NEW will, FairTurn(e, will), Turn(e, will)
  PROVE  AdminInv'
<1> DEFINE job == [on |-> e, was |-> [is |-> state[e]], will |-> [is |-> will]]
<1>0. /\ job \notin jobs /\ jobs' = jobs \cup {job} /\ Open
      /\ account' = account /\ state' = state /\ edits' = edits /\ revived' = revived
      /\ overlapped' = (overlapped \/ jobs # {}) /\ duel' = duel
  BY DEF FairTurn, Turn, Submit
<1>1. job \in EntityJob /\ job.on \notin Accounts
  <2>1. job \in EntityJob
    BY DEF FairTurn, EntityJob, AdminInv, AdminTypeOK
  <2>2. QED
    BY <2>1, AdministrationAssumption DEF EntityJob
<1>2. AdminTypeOK'
  BY <1>0 DEF AdminInv, AdminTypeOK
<1>3. JobsOK'
  <2>1. IsFiniteSet(jobs') /\ edits' + Cardinality(jobs') <= MaxEdits + MaxJobs
    BY <1>0, OneMoreJob DEF AdminInv, JobsOK
  <2>2. QED
    BY <1>0, <1>1, <2>1 DEF AdminInv, JobsOK
<1>4. SomebodyIsLeft'
  <2>1. ~Deprives(job)
    BY <1>1 DEF Deprives
  <2> HIDE DEF job
  <2>2. QED
    BY <1>0, <2>1 DEF AdminInv, SomebodyIsLeft, Authorized, Spared, Deprives
<1>5. RolesAreOn'
  <2> SUFFICES ASSUME ~overlapped' PROVE RolesAreOn'
    BY DEF RolesAreOn
  <2>1. ~overlapped /\ jobs = {} /\ jobs' = {job}
    BY <1>0
  <2>2. job.was.is = state[job.on] /\ (job.on \in Roles /\ job.will.is = "off" => ~Held(job.on))
    BY DEF FairTurn
  <2> HIDE DEF job
  <2>3. QED
    BY <1>0, <1>1, <2>1, <2>2 DEF AdminInv, RolesAreOn, Backed, On, Held
<1>6. QED
  BY <1>2, <1>3, <1>4, <1>5 DEF AdminInv

\* What a commit leaves of an account: still a row, and of an account that nobody
\* else wrote what was asked.
LEMMA ColumnsWritten ==
  ASSUME NEW now \in Row \cup {Absent}, NEW job \in AccountJob, job.was # Absent => now # Absent,
         ~(job.was = Absent /\ now # Absent)
  PROVE  /\ Columns(now, job) \in Row
         /\ Columns(now, job).role = IF job.will.role = job.was.role THEN now.role ELSE job.will.role
         /\ Columns(now, job).active =
              IF job.will.active = job.was.active THEN now.active ELSE job.will.active
         /\ job.was = now => Columns(now, job) = job.will
<1>1. DOMAIN now = {"role", "active", "ward", "crew", "seat"}
  BY DEF Row, Absent
<1>2. job.will \in Row /\ job.was \in Row \cup {Absent}
  BY DEF AccountJob
<1>3. now = Absent => job.was = Absent
  OBVIOUS
<1>4. Columns(now, job) = [c \in {"role", "active", "ward", "crew", "seat"} |->
                             IF job.will[c] = job.was[c] THEN now[c] ELSE job.will[c]]
  BY <1>1 DEF Columns
<1>5. job.was = now => Columns(now, job) = job.will
  BY <1>2, <1>4 DEF Row
<1>6. Columns(now, job) \in Row
  <2>1. CASE now = Absent
    BY <1>2, <1>3, <1>5, <2>1
  <2>2. CASE now \in Row
    BY <1>2, <1>4, <2>2 DEF Row
  <2>3. QED
    BY <2>1, <2>2
<1>7. QED
  BY <1>4, <1>5, <1>6


LEMMA CommitTypes ==
  ASSUME AdminInv, NEW job \in jobs, CommitEdit(job)
  PROVE  AdminTypeOK' /\ JobsOK' /\ \A u \in Accounts : Exists(u) => Exists(u)'
<1>0. jobs' = jobs \ {job} /\ edits' = edits + 1 /\ overlapped' = overlapped /\ duel' = duel
  BY DEF CommitEdit
<1>1. /\ IsFiniteSet(jobs') /\ edits' + Cardinality(jobs') <= MaxEdits + MaxJobs
      /\ edits' \in 0..(MaxEdits + MaxJobs)
  BY <1>0, OneJobLess DEF AdminInv, AdminTypeOK, JobsOK
<1>2. (job \in AccountJob /\ (job.was # Absent => account[job.on] # Absent)) \/ job \in EntityJob
  BY DEF AdminInv, JobsOK
<1>3. /\ account' \in [Accounts -> Row \cup {Absent}] /\ revived' \subseteq Accounts
      /\ \A u \in Accounts : Exists(u) => Exists(u)'
  <2>1. CASE account' = account /\ revived' = revived
    BY <2>1 DEF AdminInv, AdminTypeOK, Exists
  <2>2. CASE /\ ~Collides(job) /\ job.on \in Accounts
             /\ account' = [account EXCEPT ![job.on] = Columns(@, job)]
             /\ revived' \in SUBSET (revived \cup {job.on})
    <3>1. job \in AccountJob /\ (job.was # Absent => account[job.on] # Absent)
      BY <1>2, <2>2, AdministrationAssumption DEF EntityJob
    <3>2. account[job.on] \in Row \cup {Absent} /\ ~(job.was = Absent /\ account[job.on] # Absent)
      BY <2>2 DEF Collides, AdminInv, AdminTypeOK
    <3>3. Columns(account[job.on], job) \in Row
      BY <3>1, <3>2, ColumnsWritten
    <3>4. QED
      BY <2>2, <3>3, AbsentIsNoRow DEF AdminInv, AdminTypeOK, Exists
  <2>3. QED
    BY <2>1, <2>2 DEF CommitEdit
<1>4. state' \in [Entities -> Switch]
  <2>1. CASE state' = state
    BY <2>1 DEF AdminInv, AdminTypeOK
  <2>2. CASE job.on \in Entities /\ state' = [state EXCEPT ![job.on] = job.will.is]
    <3>1. job.will.is \in Switch
      BY <1>2, <2>2, AdministrationAssumption DEF AccountJob, EntityJob, Switch
    <3>2. QED
      BY <2>2, <3>1 DEF AdminInv, AdminTypeOK
  <2>3. QED
    BY <2>1, <2>2 DEF CommitEdit
<1>5. JobsOK'
  <2>1. ASSUME NEW j \in jobs'
        PROVE  (j \in AccountJob /\ (j.was # Absent => account'[j.on] # Absent)) \/ j \in EntityJob
    BY <1>0, <1>3 DEF AdminInv, JobsOK, Exists, AccountJob
  <2>2. QED
    BY <1>1, <2>1 DEF JobsOK
<1>6. QED
  BY <1>0, <1>1, <1>3, <1>4, <1>5 DEF AdminInv, AdminTypeOK

\* Of an account, a commit takes nothing that its request did not mean to take.
LEMMA NothingElseIsTaken ==
  ASSUME AdminInv, NEW job \in jobs, CommitEdit(job), NEW a \in Accounts, Authorized(a),
         a = job.on => ~Deprives(job)
  PROVE  Authorized(a)'
<1>1. CASE account' = account \/ a # job.on
  BY <1>1 DEF CommitEdit, AdminInv, AdminTypeOK, Authorized
<1>2. CASE /\ ~Collides(job) /\ a = job.on
           /\ account' = [account EXCEPT ![job.on] = Columns(@, job)]
  <2>1. job \in AccountJob /\ account[a] \in Row \cup {Absent}
    BY <1>2, AdministrationAssumption DEF AdminInv, AdminTypeOK, JobsOK, EntityJob
  <2>2. job.was # Absent
    BY <1>2, AbsentIsNoRow DEF Collides, Authorized
  <2>3. job.was \in Row /\ job.will \in Row /\ account[a] # Absent
    BY <2>1, <2>2, AbsentIsNoRow DEF AccountJob, Authorized
  <2>4. /\ account'[a] = Columns(account[a], job)
        /\ account'[a].role = IF job.will.role = job.was.role THEN account[a].role ELSE job.will.role
        /\ account'[a].active =
             IF job.will.active = job.was.active THEN account[a].active ELSE job.will.active
    BY <1>2, <2>1, <2>2, <2>3, ColumnsWritten DEF AdminInv, AdminTypeOK
  <2>5. /\ job.will.role \in {job.was.role, "SUPER_ADMIN"}
        /\ ~(job.was.active /\ ~job.will.active)
    BY <1>2, <2>2 DEF Deprives
  <2>6. job.was.active \in BOOLEAN /\ job.will.active \in BOOLEAN
    BY <2>3 DEF Row
  <2>7. QED
    BY <2>4, <2>5, <2>6 DEF Authorized
<1>3. QED
  BY <1>1, <1>2 DEF CommitEdit

LEMMA CommitLeavesSomebody ==
  ASSUME AdminInv, NEW job \in jobs, CommitEdit(job)
  PROVE  SomebodyIsLeft'
<1> SUFFICES ASSUME ~duel' PROVE SomebodyIsLeft'
  BY DEF SomebodyIsLeft
<1>0. jobs' = jobs \ {job} /\ ~duel
  BY DEF CommitEdit
<1>1. CASE Deprives(job)
  <2>1. \E a \in Accounts : a # job.on /\ Authorized(a)
    BY <1>0, <1>1 DEF AdminInv, SomebodyIsLeft, Spared
  <2>2. \E a \in Accounts : Authorized(a)'
    BY <2>1, NothingElseIsTaken
  <2>3. \A d \in jobs' : ~Deprives(d)
    BY <1>0, <1>1 DEF AdminInv, SomebodyIsLeft
  <2>4. QED
    BY <2>2, <2>3 DEF SomebodyIsLeft, Deprives, Authorized
<1>2. CASE ~Deprives(job)
  <2>1. \A a \in Accounts : Authorized(a) => Authorized(a)'
    BY <1>2, NothingElseIsTaken
  <2>2. \E a \in Accounts : Authorized(a)'
    BY <1>0, <2>1 DEF AdminInv, SomebodyIsLeft
  <2>3. \A d \in jobs' : Deprives(d) =>
          (\E a \in Accounts : a # d.on /\ Authorized(a)') /\ \A e \in jobs' : Deprives(e) => e = d
    BY <1>0, <2>1 DEF AdminInv, SomebodyIsLeft, Spared
  <2>4. QED
    BY <2>2, <2>3 DEF SomebodyIsLeft, Deprives, Authorized, Spared
<1>3. QED
  BY <1>1, <1>2

LEMMA CommitKeepsRolesOn ==
  ASSUME AdminInv, NEW job \in jobs, CommitEdit(job)
  PROVE  RolesAreOn'
<1> SUFFICES ASSUME ~overlapped'
             PROVE  \A u \in Accounts \ revived' :
                      account'[u].active /\ account'[u].role # "CITIZEN" => state'[account'[u].role] = "on"
  <2>1. ~overlapped' => jobs' = {}
    BY DEF CommitEdit, AdminInv, RolesAreOn
  <2>2. QED
    BY <2>1 DEF RolesAreOn, On
<1>0. ~overlapped
  BY DEF CommitEdit
<1>1. CASE Collides(job)
  BY <1>0, <1>1 DEF CommitEdit, AdminInv, RolesAreOn, On
<1>2. CASE ~Collides(job) /\ job.on \in Accounts
  <2> DEFINE now == account[job.on]
  <2>1. /\ account' = [account EXCEPT ![job.on] = Columns(@, job)] /\ state' = state
        /\ revived' = IF Exists(job.on) /\ ~account[job.on].active /\ account'[job.on].active
                      THEN revived \cup {job.on} ELSE revived
    BY <1>2, AdministrationAssumption DEF CommitEdit
  <2>2. job \in AccountJob /\ job.was = now /\ Backed(job.on, now, job.will) /\ now \in Row \cup {Absent}
    BY <1>0, <1>2, AdministrationAssumption DEF AdminInv, AdminTypeOK, RolesAreOn, JobsOK, EntityJob
  <2>3. Columns(now, job) = job.will
    BY <2>2, ColumnsWritten
  <2>4. account'[job.on] = job.will /\ \A u \in Accounts : u # job.on => account'[u] = account[u]
    BY <1>2, <2>1, <2>3 DEF AdminInv, AdminTypeOK
  <2>5. job.on \notin revived' /\ job.will.active /\ job.will.role # "CITIZEN" => On(job.will.role)
    BY <2>1, <2>2, <2>4 DEF Backed, Exists
  <2>6. ASSUME NEW u \in Accounts \ revived', u # job.on, account'[u].active, account'[u].role # "CITIZEN"
        PROVE  On(account[u].role)
    BY <1>0, <2>1, <2>4, <2>6 DEF AdminInv, RolesAreOn
  <2>7. QED
    BY <2>1, <2>4, <2>5, <2>6 DEF On
<1>3. CASE ~Collides(job) /\ job.on \in Entities
  <2>1. account' = account /\ revived' = revived /\ state' = [state EXCEPT ![job.on] = job.will.is]
    BY <1>3, AdministrationAssumption DEF CommitEdit
  <2>2. job \in EntityJob /\ (job.on \in Roles /\ job.will.is = "off" => ~Held(job.on))
    BY <1>0, <1>3, AdministrationAssumption DEF AdminInv, RolesAreOn, JobsOK, AccountJob
  <2>3. job.was.is = state[job.on]
    BY <1>0, <1>3 DEF AdminInv, RolesAreOn
  <2>4. ASSUME NEW u \in Accounts \ revived, account[u].active, account[u].role # "CITIZEN"
        PROVE  state'[account[u].role] = "on"
    <3>1. state[account[u].role] = "on"
      BY <1>0, <2>4 DEF AdminInv, RolesAreOn, On
    <3>2. account[u].role \in Roles /\ account[u].role \in Entities
      BY <2>4, AbsentIsNoRow DEF AdminInv, AdminTypeOK, Row, Entities
    <3>3. account[u].role = job.on => job.will.is # "off"
      BY <2>2, <2>4, <3>2 DEF Held
    <3>4. account[u].role = job.on => job.will.is = "on"
      BY <2>2, <2>3, <3>1, <3>3 DEF EntityJob, Switch
    <3>5. QED
      BY <2>1, <3>1, <3>2, <3>4 DEF AdminInv, AdminTypeOK
  <2>5. QED
    BY <2>1, <2>4
<1>4. QED
  BY <1>1, <1>2, <1>3 DEF CommitEdit

LEMMA AdminStart == AdminInit => AdminInv
<1> SUFFICES ASSUME AdminInit PROVE AdminInv
  OBVIOUS
<1>0. /\ jobs = {} /\ edits = 0 /\ overlapped = FALSE /\ duel = FALSE /\ revived = {}
      /\ account = [u \in Accounts |->
           IF u \in Founders THEN [Absent EXCEPT !.role = "SUPER_ADMIN", !.active = TRUE] ELSE Absent]
      /\ state = [e \in Entities |-> IF e \in Built THEN "on" ELSE "none"]
  BY DEF AdminInit
<1>1. AdminTypeOK
  <2>1. [Absent EXCEPT !.role = "SUPER_ADMIN", !.active = TRUE] \in Row
    BY AdministrationAssumption DEF Absent, Row
  <2>2. 0 \in 0..(MaxEdits + MaxJobs)
    BY AdministrationAssumption
  <2>3. account \in [Accounts -> Row \cup {Absent}] /\ state \in [Entities -> Switch]
    BY <1>0, <2>1 DEF Switch
  <2>4. QED
    BY <1>0, <2>2, <2>3 DEF AdminTypeOK
<1>2. JobsOK
  <2>1. IsFiniteSet(jobs) /\ Cardinality(jobs) = 0
    BY <1>0, FS_EmptySet
  <2>2. QED
    BY <1>0, <2>1, AdministrationAssumption DEF JobsOK
<1>3. SomebodyIsLeft
  <2>1. PICK u \in Founders : u \in Accounts
    BY AdministrationAssumption
  <2>2. Authorized(u)
    BY <1>0, <2>1 DEF Authorized, Absent
  <2>3. QED
    BY <1>0, <2>1, <2>2 DEF SomebodyIsLeft
<1>4. RolesAreOn
  <2>1. ASSUME NEW u \in Accounts, account[u].active PROVE account[u].role = "SUPER_ADMIN"
    BY <1>0, <2>1 DEF Absent
  <2>2. On("SUPER_ADMIN")
    BY <1>0, AdministrationAssumption DEF On, Entities
  <2>3. QED
    BY <1>0, <2>1, <2>2 DEF RolesAreOn
<1>5. QED
  BY <1>1, <1>2, <1>3, <1>4 DEF AdminInv

LEMMA AdminStep == AdminInv /\ [AdminNext]_adminVars => AdminInv'
<1> SUFFICES ASSUME AdminInv, [AdminNext]_adminVars PROVE AdminInv'
  OBVIOUS
<1>1. CASE \E a, u \in Accounts, to \in BOOLEAN :
             \/ CreateUser(a, u) \/ UpdateUser(a, u) \/ SetUserActive(a, u, to)
             \/ UpdateFieldWorker(a, u) \/ UpdateRepresentative(a, u) \/ Register(u)
  BY <1>1, EditsAreFair, EditSubmitted
<1>2. CASE \E a \in Accounts :
       \/ \E r \in Roles : CreateRole(a, r) \/ UpdateRole(a, r)
       \/ \E w \in Districts : CreateWard(a, w) \/ UpdateWard(a, w)
       \/ \E d \in Departments : CreateDepartment(a, d) \/ UpdateDepartment(a, d)
       \/ \E c \in Categories : CreateComplaintCategory(a, c) \/ UpdateComplaintCategory(a, c)
       \/ \E k \in Weights : CreatePriorityWeight(a, k) \/ UpdatePriorityWeight(a, k)
       \/ \E s \in Settings : UpdateConfig(a, s) \/ ClearConfig(a, s)
  BY <1>2, TurnsAreFair, TurnSubmitted
<1>3. CASE \E job \in jobs : CommitEdit(job)
  BY <1>3, CommitTypes, CommitLeavesSomebody, CommitKeepsRolesOn DEF AdminInv
<1>4. CASE UNCHANGED adminVars
  BY <1>4 DEF adminVars, AdminInv, AdminTypeOK, JobsOK, SomebodyIsLeft, RolesAreOn, Spared,
     Authorized, Deprives, Backed, Held, On
<1>5. QED
  <2>1. FALSE \in BOOLEAN
    OBVIOUS
  <2>2. QED
    BY <1>1, <1>2, <1>3, <1>4, <2>1 DEF AdminNext

\* The types of the panel's state and of the requests under way, and what its
\* inductive invariant says of those requests: one that takes something from an
\* account leaves another super administrator, and one alone knows its row as it is.
THEOREM PanelIsSound == AdminSpec => []AdminInv
BY AdminStart, AdminStep, PTL DEF AdminSpec

\* Whoever edits which accounts and roles, in whatever overlap: an active super
\* administrator is left unless two requests that deprived somebody overlapped,
\* and a disabled role is held by nobody it was not left to.
THEOREM SomebodyCanAdminister == AdminSpec => []RolesStaySound
<1>1. AdminInv => RolesStaySound
  BY DEF AdminInv, SomebodyIsLeft, RolesAreOn, RolesStaySound
<1>2. QED
  BY <1>1, PanelIsSound, PTL
=============================================================================
