--------------------------- MODULE SlaMonitorProofs ---------------------------
(***************************************************************************)
(* For any orders, departments, rules, hours and number of overlapping     *)
(* scans, a deadline is the order's own hours after its approval or its    *)
(* creation.  Everybody writes from a copy.  What makes that safe: hours   *)
(* and deadline are first written together, an approval is stamped once,   *)
(* and as long as the row has no deadline every copy agrees with the hours *)
(* the order was drafted with.                                             *)
(***************************************************************************)
EXTENDS SlaMonitor, TLAPS

\* The deadline of the record, counted from this approval or from creation.
Sound(order, approved) ==
  order.due # None =>
    /\ order.hours # None
    /\ order.due \in {Created + order.hours} \cup
         (IF approved = None THEN {} ELSE {approved + order.hours})

\* What a scan holds of a row may be old, but never of another approval.
Copied(o, c) ==
  /\ c.approved \in {None, orders[o].approved}
  /\ Sound(c, c.approved)
  /\ orders[o].due = None /\ orders[o].hours # None => c.hours = orders[o].hours

Copies ==
  \A m \in Scans, o \in Orders :
    /\ scan[m].copy[o] \in Order => Copied(o, scan[m].copy[o])
    /\ o \in scan[m].filled \cup scan[m].locked =>
         scan[m].copy[o] \in Order /\ scan[m].copy[o].due # None

Rows ==
  \A o \in Orders :
    /\ Sound(orders[o], orders[o].approved)
    /\ orders[o].approved # None => orders[o].status # "PENDING_APPROVAL"

\* The drafted hours the officer read are still those of every copy.
Drafted(o, hours) ==
  /\ orders[o].hours = hours
  /\ \A m \in Scans : scan[m].copy[o] \in Order => scan[m].copy[o].hours = hours

Taken ==
  desk # None =>
    /\ desk.copy.due # None => desk.copy.hours # None
    /\ desk.copy.status = "OPEN"
    /\ IF desk.verb = "approve" THEN desk.copy.approved # None /\ orders[desk.order].approved = None
                                ELSE desk.copy.approved = orders[desk.order].approved
    /\ desk.copy.due = None /\ desk.copy.hours # None => Drafted(desk.order, desk.copy.hours)

IInv == TypeOK /\ Copies /\ Rows /\ Taken

-----------------------------------------------------------------------------
LEMMA NoneIsNoNumber == None \notin Nat /\ None \notin Hours /\ None \notin Time /\ Hours \subseteq Nat
                        /\ 0 \in Time /\ Time \subseteq Nat
<1>1. Hours \subseteq Nat /\ None \notin Nat
  BY NoneAssumption, BoundAssumption
<1>2. Time \subseteq Nat /\ 0 \in Time
  BY BoundAssumption DEF Time
<1> QED
  BY <1>1, <1>2

LEMMA RuleIsHours ==
  ASSUME rules \in [Scopes -> Hours \cup {None}], NEW o \in Orders
  PROVE  Resolve(DepartmentOf[o]) \in Hours \cup {None}
BY OrderAssumption DEF Resolve

LEMMA BackfilledIsSound ==
  ASSUME NEW order \in Order, NEW policy \in Hours \cup {None}, Sound(order, order.approved)
  PROVE  /\ Backfilled(order, policy) \in Order
         /\ Backfilled(order, policy).approved = order.approved
         /\ Sound(Backfilled(order, policy), order.approved)
         /\ order.hours # None => Backfilled(order, policy).hours = order.hours
         /\ order.due # None \/ HoursOf(order, policy) # None => Backfilled(order, policy).due # None
<1> DEFINE hours == HoursOf(order, policy)
<1>1. hours \in Hours \cup {None} /\ (order.hours # None => hours = order.hours)
  BY DEF HoursOf, Order
<1>2. CASE order.due # None \/ hours = None
  BY <1>1, <1>2 DEF Backfilled
<1>3. CASE order.due = None /\ hours # None
  <2> DEFINE base == IF order.approved # None THEN order.approved ELSE Created
  <2>1. base \in Nat /\ hours \in Nat /\ hours \in Hours
    BY <1>1, <1>3, NoneIsNoNumber DEF Order, Created
  <2>2. Backfilled(order, policy) = [order EXCEPT !.hours = hours, !.due = base + hours]
    BY <1>3 DEF Backfilled, Base
  <2>3. base + hours \in Nat /\ base + hours # None
    BY <2>1, NoneIsNoNumber
  <2> HIDE DEF base, hours
  <2>4. [order EXCEPT !.hours = hours, !.due = base + hours] \in Order
    BY <2>1, <2>3 DEF Order
  <2>5. /\ Backfilled(order, policy).hours = hours /\ Backfilled(order, policy).due = base + hours
        /\ Backfilled(order, policy).approved = order.approved
    BY <2>2 DEF Order
  <2>6. Sound(Backfilled(order, policy), order.approved)
    BY <2>1, <2>5, NoneIsNoNumber DEF Sound, base
  <2> QED
    BY <1>1, <2>2, <2>3, <2>4, <2>5, <2>6
<1> QED
  BY <1>2, <1>3

LEMMA IdleIsScan ==
  /\ Idle \in Scan /\ \A o \in Orders : Idle.copy[o] = None
  /\ Idle.filled = {} /\ Idle.locked = {}
BY NoneIsNoNumber DEF Idle, Scan, Nothing, Report

LEMMA InitHolds == Init => IInv
<1> SUFFICES ASSUME Init PROVE IInv
  OBVIOUS
<1>1. rules \in [Scopes -> Hours \cup {None}]
  BY DEF Init
<1>2. \A o \in Orders : Resolve(DepartmentOf[o]) \in Hours \cup {None}
  BY <1>1, RuleIsHours
<1>3. orders \in [Orders -> Order] /\ \A o \in Orders : orders[o].due = None /\ orders[o].approved = None
  BY <1>2 DEF Init, Order, OrderStatus
<1>6. TypeOK
  BY <1>1, <1>3, IdleIsScan, NoneIsNoNumber, BoundAssumption DEF Init, TypeOK
<1>7. \A m \in Scans, o \in Orders : scan[m].copy[o] = None /\ scan[m].filled = {} /\ scan[m].locked = {}
  BY IdleIsScan DEF Init
<1>8. Copies
  BY <1>7, NoneIsNoData DEF Copies
<1> QED
  BY <1>3, <1>6, <1>8 DEF IInv, Init, Rows, Taken, Sound

-----------------------------------------------------------------------------
(* Steps of one scan: they leave the orders and the desk alone. *)

\* What a scan may hold without disturbing the others.
Fits(s) ==
  \A o \in Orders :
    /\ s.copy[o] # None => Copied(o, s.copy[o])
    /\ o \in s.filled \cup s.locked => s.copy[o] \in Order /\ s.copy[o].due # None
    /\ desk # None /\ desk.order = o /\ desk.copy.due = None /\ desk.copy.hours # None
         /\ s.copy[o] \in Order => s.copy[o].hours = desk.copy.hours

LEMMA ScanFits == ASSUME IInv, NEW m \in Scans PROVE Fits(scan[m]) /\ scan[m] \in Scan
<1>1. scan[m] \in Scan
  BY DEF IInv, TypeOK
<1>2. \A o \in Orders : scan[m].copy[o] # None => scan[m].copy[o] \in Order
  BY <1>1 DEF Scan
<1> QED
  BY <1>1, <1>2 DEF IInv, Copies, Taken, Drafted, Fits

LEMMA OneScanSteps ==
  ASSUME IInv, NEW m \in Scans, NEW s \in Scan, Fits(s),
         scan' = [scan EXCEPT ![m] = s], UNCHANGED <<time, officeVars>>,
         runs' \in [Scans -> Run \cup {None}], alerts' \subseteq Alert, events' \in 0..MaxEvents
  PROVE  IInv'
<1>1. scan' \in [Scans -> Scan] /\ scan'[m] = s /\ \A k \in Scans \ {m} : scan'[k] = scan[k]
  BY DEF IInv, TypeOK
<1>2. UNCHANGED <<time, orders, desk, rules, staffed>>
  BY DEF officeVars
<1>3. TypeOK'
  BY <1>1, <1>2 DEF IInv, TypeOK
<1>4. \A k \in Scans : Fits(scan'[k])
  BY <1>1, ScanFits
<1>5. Copies'
  BY <1>2, <1>4, NoneIsNoData DEF Copies, Fits, Copied
<1>6. Rows'
  BY <1>2 DEF IInv, Rows
<1>7. Taken'
  <2> SUFFICES ASSUME desk # None, desk.copy.due = None, desk.copy.hours # None
               PROVE  Drafted(desk.order, desk.copy.hours)'
    BY <1>2 DEF IInv, Taken
  <2>1. orders[desk.order].hours = desk.copy.hours
    BY DEF IInv, Taken, Drafted
  <2>2. desk.order \in Orders
    BY DEF IInv, TypeOK, Desk
  <2>3. \A k \in Scans : scan'[k].copy[desk.order] \in Order =>
          scan'[k].copy[desk.order].hours = desk.copy.hours
    BY <1>4, <2>2 DEF Fits
  <2> QED
    BY <1>2, <2>1, <2>3 DEF Drafted
<1> QED
  BY <1>3, <1>5, <1>6, <1>7 DEF IInv

LEMMA BeginSteps ==
  ASSUME IInv, NEW m \in Scans, \E filter \in Filters : Begin(m, filter)
  PROVE  IInv'
<1> PICK filter \in Filters : Begin(m, filter)
  OBVIOUS
<1> DEFINE s == [scan[m] EXCEPT !.pc = "scan", !.filter = filter, !.now = time]
<1>1. s \in Scan /\ Fits(s)
  <2>1. /\ scan[m] \in Scan /\ Fits(scan[m]) /\ time \in Time
    BY ScanFits DEF IInv, TypeOK
  <2>2. s \in Scan
    BY <2>1 DEF Scan
  <2>3. s.copy = scan[m].copy /\ s.filled = scan[m].filled /\ s.locked = scan[m].locked
    BY <2>1 DEF Scan
  <2> QED
    BY <2>1, <2>2, <2>3 DEF Fits
<1>2. NoRun \in Run
  BY DEF NoRun, Run, Report, Nothing
<1>3. /\ runs' \in [Scans -> Run \cup {None}] /\ alerts' \subseteq Alert /\ events' \in 0..MaxEvents
      /\ scan' = [scan EXCEPT ![m] = s] /\ UNCHANGED <<time, officeVars>>
  BY <1>2 DEF Begin, IInv, TypeOK
<1> HIDE DEF s
<1> QED
  BY <1>1, <1>3, OneScanSteps

LEMMA LeaveSteps ==
  ASSUME IInv, NEW m \in Scans, Abort(m)
  PROVE  IInv'
<1>1. Left \in Scan /\ \A o \in Orders : Left.copy[o] = None
  BY IdleIsScan DEF Left, Scan
<1>2. Left.filled = {} /\ Left.locked = {}
  BY IdleIsScan DEF Left, Scan
<1>3. Fits(Left)
  BY <1>1, <1>2, NoneIsNoData DEF Fits
<1>4. events' \in 0..MaxEvents
  BY BoundAssumption DEF Abort, Event, IInv, TypeOK
<1> QED
  BY <1>1, <1>3, <1>4, OneScanSteps DEF Abort, IInv, TypeOK

LEMMA RetrySteps ==
  ASSUME IInv, NEW m \in Scans, Retry(m)
  PROVE  IInv'
<1> PICK kept \in SUBSET scan[m].queued :
      scan' = [scan EXCEPT ![m] = [@ EXCEPT !.pc = "scan", !.attempt = 2, !.queued = kept]]
  BY DEF Retry
<1> DEFINE s == [scan[m] EXCEPT !.pc = "scan", !.attempt = 2, !.queued = kept]
<1>1. s \in Scan /\ Fits(s)
  <2>0. 2 \in 1..2 /\ kept \in SUBSET scan[m].queued
    OBVIOUS
  <2>1. scan[m] \in Scan /\ Fits(scan[m])
    BY ScanFits
  <2>2. s \in Scan
    BY <2>0, <2>1 DEF Scan
  <2>3. s.copy = scan[m].copy /\ s.filled = scan[m].filled /\ s.locked = scan[m].locked
    BY <2>1 DEF Scan
  <2> QED
    BY <2>1, <2>2, <2>3 DEF Fits
<1>2. events' \in 0..MaxEvents
  BY BoundAssumption DEF Retry, Event, IInv, TypeOK
<1>3. /\ scan' = [scan EXCEPT ![m] = s] /\ UNCHANGED <<time, officeVars>>
      /\ runs' \in [Scans -> Run \cup {None}] /\ alerts' \subseteq Alert
  BY DEF Retry, IInv, TypeOK
<1> HIDE DEF s
<1> QED
  BY <1>1, <1>2, <1>3, OneScanSteps

LEMMA EscalateSteps ==
  ASSUME IInv, NEW m \in Scans, Escalate(m)
  PROVE  IInv'
<1> DEFINE late == {x \in Orders : staffed /\ Announces(scan[m].report[x], Previous[x])}
           new == {[run |-> m, order |-> o, kind |-> scan[m].report[o],
                    attempt |-> scan[m].attempt, known |-> Succeeded] : o \in late}
           s == [scan[m] EXCEPT !.pc = "persist", !.locked = @ \cup scan[m].filled,
                                !.staffed = staffed, !.queued = @ \cup new]
<1>1. scan[m] \in Scan /\ Fits(scan[m]) /\ staffed \in BOOLEAN
  BY ScanFits DEF IInv, TypeOK
<1>2. new \subseteq Alert
  <2>1. \A o \in late : scan[m].report[o] \in {"AT_RISK", "BREACHED"}
    BY DEF Announces
  <2>2. Succeeded \in SUBSET Scans /\ scan[m].attempt \in 1..2
    BY <1>1 DEF Succeeded, Scan
  <2> QED
    BY <2>1, <2>2 DEF Alert
<1> HIDE DEF late, new
<1>3. s \in Scan
  BY <1>1, <1>2 DEF Scan
<1>4. /\ s.copy = scan[m].copy /\ s.filled = scan[m].filled
      /\ s.locked = scan[m].locked \cup scan[m].filled
  BY <1>1 DEF Scan
<1>5. Fits(s)
  BY <1>1, <1>4 DEF Fits
<1>6. scan' = [scan EXCEPT ![m] = s]
  BY Zenon DEF Escalate, late, new
<1>7. /\ UNCHANGED <<time, officeVars>>
      /\ runs' \in [Scans -> Run \cup {None}] /\ alerts' \subseteq Alert /\ events' \in 0..MaxEvents
  BY DEF Escalate, IInv, TypeOK
<1> HIDE DEF s
<1> QED
  BY <1>3, <1>5, <1>6, <1>7, OneScanSteps

LEMMA SeenIsSound ==
  ASSUME IInv, NEW m \in Scans, NEW o \in Orders, NEW x \in Seen(m, o)
  PROVE  /\ x \in Order /\ Copied(o, x)
         /\ o \in scan[m].locked => x.due # None
         /\ desk # None /\ desk.order = o /\ desk.copy.due = None /\ desk.copy.hours # None
              => x.hours = desk.copy.hours
<1> DEFINE c == scan[m].copy[o]
           own == IF o \in scan[m].locked
                  THEN [orders[o] EXCEPT !.hours = c.hours, !.due = c.due]
                  ELSE orders[o]
<1>1. orders[o] \in Order /\ Fits(scan[m]) /\ c \in Order \cup {None}
      /\ Sound(orders[o], orders[o].approved)
  <2>1. scan[m] \in Scan /\ Fits(scan[m])
    BY ScanFits
  <2> QED
    BY <2>1 DEF IInv, TypeOK, Rows, Scan
<1>2. desk # None /\ desk.order = o /\ desk.copy.due = None /\ desk.copy.hours # None
        => orders[o].hours = desk.copy.hours
  BY DEF IInv, Taken, Drafted
<1>3. x = own \/ (c # None /\ x = c)
  BY DEF Seen
<1>4. CASE c # None /\ x = c
  BY <1>1, <1>4 DEF Fits
<1>5. CASE x = own /\ o \notin scan[m].locked
  BY <1>1, <1>2, <1>5 DEF Copied
<1>6. CASE x = own /\ o \in scan[m].locked
  <2>1. c \in Order /\ c.due # None /\ Copied(o, c)
    BY <1>1, <1>6, NoneIsNoData DEF Fits
  <2>2. x \in Order /\ x.hours = c.hours /\ x.due = c.due /\ x.approved = orders[o].approved
    BY <1>1, <1>6, <2>1 DEF Order
  <2>3. Copied(o, x)
    BY <2>1, <2>2 DEF Copied, Sound
  <2> QED
    BY <1>1, <1>6, <2>1, <2>2, <2>3 DEF Fits
<1> QED
  BY <1>3, <1>4, <1>5, <1>6

LEMMA ScanSteps ==
  ASSUME IInv, NEW m \in Scans, ScanOrders(m)
  PROVE  IInv'
<1> DEFINE policy(o) == Resolve(DepartmentOf[o])
<1> PICK seen \in [Orders -> UNION {Seen(m, o) : o \in Orders}] :
      /\ \A o \in Orders : seen[o] \in Seen(m, o)
      /\ scan' = [scan EXCEPT ![m] = [scan[m] EXCEPT
           !.pc = "escalate",
           !.filled = {o \in Selected(m) : seen[o].due = None /\ HoursOf(seen[o], policy(o)) # None},
           !.copy = [o \in Orders |->
             IF o \in Selected(m) THEN Backfilled(seen[o], policy(o)) ELSE scan[m].copy[o]],
           !.report = [o \in Orders |->
             IF o \in Selected(m) THEN Judged(seen[o], policy(o), scan[m].now) ELSE None]]]
  BY Zenon DEF ScanOrders
<1> DEFINE filled == {o \in Selected(m) : seen[o].due = None /\ HoursOf(seen[o], policy(o)) # None}
           copy == [o \in Orders |->
             IF o \in Selected(m) THEN Backfilled(seen[o], policy(o)) ELSE scan[m].copy[o]]
           report == [o \in Orders |->
             IF o \in Selected(m) THEN Judged(seen[o], policy(o), scan[m].now) ELSE None]
           s == [scan[m] EXCEPT !.pc = "escalate", !.filled = filled, !.copy = copy, !.report = report]
<1>1. scan[m] \in Scan /\ Fits(scan[m])
  BY ScanFits
<1>2. scan' = [scan EXCEPT ![m] = s]
  OBVIOUS
<1>3. Selected(m) \subseteq Orders /\ filled \subseteq Selected(m)
  BY DEF Selected
<1>4. \A o \in Orders : policy(o) \in Hours \cup {None}
  BY RuleIsHours DEF IInv, TypeOK
<1>5. ASSUME NEW o \in Orders
      PROVE  LET b == Backfilled(seen[o], policy(o)) IN
             /\ b \in Order /\ Copied(o, b)
             /\ o \in filled \cup scan[m].locked => b.due # None
             /\ desk # None /\ desk.order = o /\ desk.copy.due = None /\ desk.copy.hours # None
                  => b.hours = desk.copy.hours
  <2> DEFINE x == seen[o]
             b == Backfilled(x, policy(o))
  <2>1. /\ x \in Order /\ Copied(o, x) /\ (o \in scan[m].locked => x.due # None)
        /\ desk # None /\ desk.order = o /\ desk.copy.due = None /\ desk.copy.hours # None
             => x.hours = desk.copy.hours
    BY <1>5, SeenIsSound
  <2>2. policy(o) \in Hours \cup {None} /\ Sound(x, x.approved)
    BY <1>4, <2>1 DEF Copied
  <2>3. /\ b \in Order /\ b.approved = x.approved /\ Sound(b, x.approved)
        /\ x.hours # None => b.hours = x.hours
        /\ x.due # None \/ HoursOf(x, policy(o)) # None => b.due # None
    BY <2>1, <2>2, BackfilledIsSound
  <2>4. o \in filled => HoursOf(x, policy(o)) # None
    OBVIOUS
  <2> HIDE DEF b, x, filled, policy
  <2>5. Copied(o, b)
    BY <2>1, <2>3 DEF Copied
  <2>6. o \in filled \cup scan[m].locked => b.due # None
    BY <2>1, <2>3, <2>4
  <2>7. desk # None /\ desk.order = o /\ desk.copy.due = None /\ desk.copy.hours # None
          => b.hours = desk.copy.hours
    BY <2>1, <2>3
  <2> QED
    BY <2>3, <2>5, <2>6, <2>7 DEF b, x
<1>6. copy \in [Orders -> Order \cup {None}]
  <2>1. \A o \in Orders : scan[m].copy[o] \in Order \cup {None}
    BY <1>1 DEF Scan
  <2> QED
    BY <1>5, <2>1
<1>7. report \in Report
  BY DEF Report, Judged, SlaState
<1>8. \A o \in Orders : copy[o] =
        IF o \in Selected(m) THEN Backfilled(seen[o], policy(o)) ELSE scan[m].copy[o]
  OBVIOUS
<1> HIDE DEF copy, report, filled, policy
<1>9. s \in Scan /\ s.copy = copy /\ s.filled = filled /\ s.locked = scan[m].locked
  BY <1>1, <1>3, <1>6, <1>7 DEF Scan
<1>10. Fits(s)
  <2> SUFFICES ASSUME NEW o \in Orders
               PROVE  /\ copy[o] # None => Copied(o, copy[o])
                      /\ o \in filled \cup scan[m].locked => copy[o] \in Order /\ copy[o].due # None
                      /\ desk # None /\ desk.order = o /\ desk.copy.due = None
                           /\ desk.copy.hours # None /\ copy[o] \in Order
                           => copy[o].hours = desk.copy.hours
    BY <1>9 DEF Fits
  <2>1. CASE o \in Selected(m)
    BY <1>5, <1>8, <2>1
  <2>2. CASE o \notin Selected(m)
    BY <1>1, <1>3, <1>8, <2>2 DEF Fits
  <2> QED
    BY <2>1, <2>2
<1>11. /\ UNCHANGED <<time, officeVars>>
       /\ runs' \in [Scans -> Run \cup {None}] /\ alerts' \subseteq Alert /\ events' \in 0..MaxEvents
  BY DEF ScanOrders, IInv, TypeOK
<1> HIDE DEF s
<1> QED
  BY <1>2, <1>9, <1>10, <1>11, OneScanSteps

LEMMA PersistSteps ==
  ASSUME IInv, NEW m \in Scans, Persist(m)
  PROVE  IInv'
<1> DEFINE c(o) == scan[m].copy[o]
           written(o) == [orders[o] EXCEPT !.hours = c(o).hours, !.due = c(o).due]
<1>1. /\ scan[m] \in Scan /\ Fits(scan[m]) /\ orders \in [Orders -> Order]
      /\ \A o \in Orders : Sound(orders[o], orders[o].approved)
  BY ScanFits DEF IInv, TypeOK, Rows
<1>2. /\ orders' = [o \in Orders |-> IF o \in scan[m].locked THEN written(o) ELSE orders[o]]
      /\ scan' = [scan EXCEPT ![m] = Left] /\ UNCHANGED <<time, desk, rules, staffed, events>>
      /\ runs' = [runs EXCEPT ![m] = [status |-> "SUCCEEDED", report |-> scan[m].report,
                                      attempts |-> scan[m].attempt, staffed |-> scan[m].staffed]]
      /\ alerts' = alerts \cup scan[m].queued
  BY DEF Persist
<1>3. ASSUME NEW o \in Orders
      PROVE  /\ orders'[o] \in Order /\ orders'[o].approved = orders[o].approved
             /\ orders'[o].status = orders[o].status
             /\ Sound(orders'[o], orders[o].approved)
             /\ orders'[o] = orders[o] \/ orders'[o].due # None
             /\ desk # None /\ desk.order = o /\ desk.copy.due = None /\ desk.copy.hours # None
                  => orders'[o].hours = desk.copy.hours
  <2>1. CASE o \notin scan[m].locked
    <3>1. orders'[o] = orders[o]
      BY <1>2, <2>1
    <3> QED
      BY <1>1, <3>1 DEF IInv, Taken, Drafted
  <2>2. CASE o \in scan[m].locked
    <3>1. c(o) \in Order /\ c(o).due # None /\ Copied(o, c(o)) /\ orders[o] \in Order
      BY <1>1, <2>2, NoneIsNoData DEF Fits
    <3>2. orders'[o] = written(o)
      BY <1>2, <2>2
    <3> HIDE DEF c
    <3>3. /\ orders'[o] \in Order /\ orders'[o].approved = orders[o].approved
          /\ orders'[o].status = orders[o].status
          /\ orders'[o].hours = c(o).hours /\ orders'[o].due = c(o).due
      BY <3>1, <3>2 DEF Order
    <3>4. Sound(orders'[o], orders[o].approved)
      BY <3>1, <3>3 DEF Copied, Sound
    <3> QED
      BY <1>1, <3>1, <3>3, <3>4 DEF Fits, c
  <2> QED
    BY <2>1, <2>2
<1>4. Left \in Scan /\ Left.filled = {} /\ Left.locked = {} /\ \A o \in Orders : Left.copy[o] = None
  BY IdleIsScan DEF Left, Scan
<1>5. scan' \in [Scans -> Scan] /\ scan'[m] = Left /\ \A k \in Scans \ {m} : scan'[k] = scan[k]
  BY <1>2, <1>4 DEF IInv, TypeOK
<1>6. TypeOK'
  <2>1. orders' \in [Orders -> Order]
    BY <1>2, <1>3
  <2>2. [status |-> "SUCCEEDED", report |-> scan[m].report,
         attempts |-> scan[m].attempt, staffed |-> scan[m].staffed] \in Run
    BY <1>1 DEF Scan, Run
  <2>3. scan[m].queued \subseteq Alert
    BY <1>1 DEF Scan
  <2> QED
    BY <1>2, <1>5, <2>1, <2>2, <2>3 DEF IInv, TypeOK
<1>7. Copies'
  <2>1. \A o \in Orders : \A x : Copied(o, x) => Copied(o, x)'
    BY <1>3 DEF Copied
  <2>2. \A k \in Scans : k = m \/ scan'[k] = scan[k]
    BY <1>5
  <2> QED
    BY <1>4, <1>5, <2>1, <2>2, NoneIsNoData DEF IInv, Copies
<1>8. Rows'
  BY <1>3 DEF IInv, Rows
<1>9. Taken'
  <2> SUFFICES ASSUME desk # None PROVE Taken'
    BY <1>2 DEF Taken
  <2>1. desk.order \in Orders
    BY DEF IInv, TypeOK, Desk
  <2>2. desk.copy.due = None /\ desk.copy.hours # None => Drafted(desk.order, desk.copy.hours)'
    BY <1>2, <1>3, <1>4, <1>5, <2>1, NoneIsNoData DEF IInv, Taken, Drafted
  <2> QED
    BY <1>2, <1>3, <2>1, <2>2 DEF IInv, Taken
<1> QED
  BY <1>6, <1>7, <1>8, <1>9 DEF IInv

-----------------------------------------------------------------------------
(* Steps around the monitor. *)

LEMMA QuietSteps ==
  ASSUME IInv, Tick \/ Staffing \/ (\E written \in Edited \ {rules} : EditPolicy(written)) \/ UNCHANGED vars
  PROVE  IInv'
<1>1. UNCHANGED <<orders, desk, runs, scan, alerts>>
  BY DEF Tick, Staffing, EditPolicy, vars, officeVars
<1>2. time' \in Time
  BY BoundAssumption DEF IInv, TypeOK, Tick, Staffing, EditPolicy, vars, officeVars, Time
<1>3. events' \in 0..MaxEvents
  BY BoundAssumption DEF IInv, TypeOK, Tick, Staffing, EditPolicy, Event, vars
<1>4. staffed' \in BOOLEAN
  BY DEF IInv, TypeOK, Tick, Staffing, EditPolicy, vars, officeVars
<1>5. rules' \in [Scopes -> Hours \cup {None}]
  BY DEF IInv, TypeOK, Tick, Staffing, EditPolicy, Edited, Free, vars, officeVars
<1>6. TypeOK'
  BY <1>1, <1>2, <1>3, <1>4, <1>5 DEF IInv, TypeOK
<1> QED
  BY <1>1, <1>6 DEF IInv, Copies, Copied, Rows, Taken, Drafted

LEMMA TakeSteps ==
  ASSUME IInv, NEW verb \in {"approve", "assign"}, NEW o \in Orders, Take(verb, o)
  PROVE  IInv'
<1> DEFINE copy == [orders[o] EXCEPT !.status = "OPEN",
                                     !.approved = IF verb = "approve" THEN time ELSE @]
<1>1. /\ orders[o] \in Order /\ Sound(orders[o], orders[o].approved) /\ time \in Time
      /\ orders[o].approved # None => orders[o].status # "PENDING_APPROVAL"
  BY DEF IInv, TypeOK, Rows
<1>2. desk' = [verb |-> verb, order |-> o, copy |-> copy]
      /\ UNCHANGED <<time, orders, rules, staffed, runs, scan, alerts>>
  BY DEF Take
<1>3. /\ copy \in Order /\ copy.status = "OPEN" /\ copy.hours = orders[o].hours
      /\ copy.due = orders[o].due
      /\ copy.approved = IF verb = "approve" THEN time ELSE orders[o].approved
  BY <1>1 DEF Order, OrderStatus
<1> HIDE DEF copy
<1>4. events' \in 0..MaxEvents
  BY BoundAssumption DEF Take, Event, IInv, TypeOK
<1>5. TypeOK'
  BY <1>2, <1>3, <1>4 DEF IInv, TypeOK, Desk
<1>6. Copies' /\ Rows'
  BY <1>2 DEF IInv, Copies, Copied, Rows
<1>7. /\ desk'.verb = verb /\ desk'.order = o /\ desk'.copy = copy
  BY <1>2
<1>8. copy.due # None => copy.hours # None
  BY <1>1, <1>3 DEF Sound
<1>9. IF verb = "approve" THEN copy.approved # None /\ orders[o].approved = None
                          ELSE copy.approved = orders[o].approved
  BY <1>1, <1>3, NoneIsNoNumber DEF Take
<1>10. copy.due = None /\ copy.hours # None => Drafted(o, copy.hours)
  BY <1>3, NoneIsNoData DEF IInv, Copies, Copied, Drafted
<1>11. Taken'
  BY <1>2, <1>3, <1>7, <1>8, <1>9, <1>10 DEF Taken, Drafted
<1> QED
  BY <1>5, <1>6, <1>11 DEF IInv

LEMMA MoveSteps ==
  ASSUME IInv, NEW o \in Orders, NEW status \in OrderStatus, Move(o, status)
  PROVE  IInv'
<1>1. /\ orders' = [orders EXCEPT ![o] = [orders[o] EXCEPT !.status = status]]
      /\ orders \in [Orders -> Order] /\ status # "PENDING_APPROVAL"
      /\ UNCHANGED <<time, desk, rules, staffed, runs, scan, alerts>>
  BY DEF Move, IInv, TypeOK
<1>2. \A x \in Orders :
        /\ orders'[x] \in Order /\ orders'[x].approved = orders[x].approved
        /\ orders'[x].hours = orders[x].hours /\ orders'[x].due = orders[x].due
        /\ orders'[x].status \in {orders[x].status, status}
  BY <1>1 DEF Order
<1>3. events' \in 0..MaxEvents
  BY BoundAssumption DEF Move, Event, IInv, TypeOK
<1>4. TypeOK'
  BY <1>1, <1>2, <1>3 DEF IInv, TypeOK
<1>5. Copies'
  BY <1>1, <1>2 DEF IInv, Copies, Copied
<1>6. Rows'
  BY <1>1, <1>2 DEF IInv, Rows, Sound
<1>7. Taken'
  <2> SUFFICES ASSUME desk # None PROVE Taken'
    BY <1>1 DEF Taken
  <2>1. desk.order \in Orders
    BY DEF IInv, TypeOK, Desk
  <2> QED
    BY <1>1, <1>2, <2>1 DEF IInv, Taken, Drafted
<1> QED
  BY <1>4, <1>5, <1>6, <1>7 DEF IInv

LEMMA SignedIsSound ==
  ASSUME IInv, desk # None
  PROVE  LET row == orders[desk.order]
             new == Signed(row, desk.copy, DepartmentOf[desk.order])
         IN /\ new \in Order /\ new.status = "OPEN"
            /\ row.approved # None => new.approved = row.approved
            /\ Sound(new, new.approved)
            /\ new.due = None => row.due = None /\ new.hours = row.hours
<1> DEFINE o == desk.order
           row == orders[o]
           copy == desk.copy
           policy == Resolve(DepartmentOf[o])
           base == IF copy.approved = None THEN Created ELSE copy.approved
           dated == Deadlined(copy, DepartmentOf[o], base)
           new == Signed(row, copy, DepartmentOf[o])
<1>1. /\ o \in Orders /\ copy \in Order /\ row \in Order /\ policy \in Hours \cup {None}
      /\ Sound(row, row.approved) /\ (copy.due # None => copy.hours # None)
      /\ copy.due = None /\ copy.hours # None => row.hours = copy.hours
      /\ desk.verb \in {"approve", "assign"}
  <2>1. desk \in Desk
    BY DEF IInv, TypeOK
  <2> QED
    BY <2>1, RuleIsHours DEF IInv, TypeOK, Desk, Rows, Taken, Drafted
<1>2. IF desk.verb = "approve" THEN copy.approved # None /\ row.approved = None
                               ELSE copy.approved = row.approved
  BY DEF IInv, Taken
<1>3. base \in Nat
  BY <1>1, NoneIsNoNumber DEF Order, Created
<1>4. new = [row EXCEPT !.status = "OPEN",
                        !.approved = IF desk.verb = "approve" THEN copy.approved ELSE @,
                        !.hours = IF dated.hours # copy.hours THEN dated.hours ELSE @,
                        !.due = IF dated.due # copy.due THEN dated.due ELSE @]
  BY DEF Signed
<1> DEFINE h == HoursOf(copy, policy)
<1>5. CASE policy = None \/ copy.due # None
  <2>1. dated.hours = copy.hours /\ dated.due = copy.due
    BY <1>1, <1>5 DEF Deadlined, HoursOf, Order
  <2> HIDE DEF dated
  <2>2. /\ new \in Order /\ new.status = "OPEN" /\ new.hours = row.hours /\ new.due = row.due
        /\ new.approved = IF desk.verb = "approve" THEN copy.approved ELSE row.approved
    BY <1>1, <1>4, <2>1 DEF Order, OrderStatus
  <2> HIDE DEF new
  <2>3. Sound(new, new.approved)
    BY <1>1, <1>2, <2>2 DEF Sound
  <2>4. row.approved # None => new.approved = row.approved
    BY <1>2, <2>2
  <2> QED
    BY <2>2, <2>3, <2>4 DEF new
<1>6. CASE policy # None /\ copy.due = None
  <2>1. h \in Hours /\ h \in Nat /\ base + h \in Nat /\ base + h # None
        /\ (copy.hours # None => h = copy.hours)
    <3>1. copy.hours \in Hours \cup {None}
      BY <1>1 DEF Order
    <3> HIDE DEF base, policy, copy
    <3>2. h \in Hours /\ (copy.hours # None => h = copy.hours)
      BY <1>1, <1>6, <3>1 DEF HoursOf
    <3> HIDE DEF h
    <3>3. h \in Nat /\ base + h \in Nat
      BY <1>3, <3>2, NoneIsNoNumber
    <3> QED
      BY <3>2, <3>3, NoneIsNoNumber
  <2>2. dated = [copy EXCEPT !.hours = h, !.due = base + h]
    BY <1>6 DEF Deadlined
  <2> HIDE DEF base, h
  <2>3. dated.hours = h /\ dated.due = base + h
    BY <1>1, <2>2 DEF Order
  <2> HIDE DEF dated
  <2>4. /\ new \in Order /\ new.status = "OPEN" /\ new.hours = h /\ new.due = base + h
        /\ new.approved = IF desk.verb = "approve" THEN copy.approved ELSE row.approved
    BY <1>1, <1>4, <1>6, <2>1, <2>3, NoneIsNoNumber DEF Order, OrderStatus
  <2>5. base = Created \/ (new.approved # None /\ base = new.approved)
    BY <1>2, <2>4 DEF base
  <2> HIDE DEF new
  <2>6. Sound(new, new.approved)
    BY <2>1, <2>4, <2>5, NoneIsNoNumber DEF Sound
  <2> QED
    BY <1>1, <1>2, <2>1, <2>4, <2>6 DEF new
<1> QED
  BY <1>5, <1>6

LEMMA SignSteps == ASSUME IInv, Sign PROVE IInv'
<1> DEFINE o == desk.order
           row == orders[o]
           new == Signed(row, desk.copy, DepartmentOf[o])
<1>1. /\ new \in Order /\ new.status = "OPEN"
      /\ row.approved # None => new.approved = row.approved
      /\ Sound(new, new.approved)
      /\ new.due = None => row.due = None /\ new.hours = row.hours
  BY SignedIsSound DEF Sign
<1>2. o \in Orders /\ orders \in [Orders -> Order]
  BY DEF Sign, IInv, TypeOK, Desk
<1>3. /\ orders' = [orders EXCEPT ![o] = new] /\ desk' = None
      /\ UNCHANGED <<time, rules, staffed, runs, scan, alerts, events>>
  BY DEF Sign
<1> HIDE DEF new
<1>4. /\ \A x \in Orders : orders'[x] = IF x = o THEN new ELSE orders[x]
      /\ orders' \in [Orders -> Order]
  BY <1>1, <1>2, <1>3
<1>5. TypeOK'
  BY <1>3, <1>4 DEF IInv, TypeOK
<1>6. \A x \in Orders : \A c : Copied(x, c) => Copied(x, c)'
  BY <1>1, <1>4 DEF Copied
<1>7. Copies'
  BY <1>3, <1>6 DEF IInv, Copies
<1>8. Rows'
  BY <1>1, <1>4 DEF IInv, Rows
<1> QED
  BY <1>3, <1>5, <1>7, <1>8 DEF IInv, Taken

-----------------------------------------------------------------------------
\* The inductive invariant: rows, copies and the officer's copy agree on the
\* approval and on the drafted hours.
THEOREM CopiesAgree == Spec => []IInv
<1>1. ASSUME IInv, [Next]_vars PROVE IInv'
  <2>1. CASE Around
    BY <1>1, <2>1, QuietSteps, TakeSteps, SignSteps, MoveSteps DEF Around
  <2>2. ASSUME NEW m \in Scans, Monitor(m) PROVE IInv'
    BY <1>1, <2>2, BeginSteps, ScanSteps, EscalateSteps, PersistSteps, RetrySteps, LeaveSteps DEF Monitor
  <2> QED
    BY <1>1, <2>1, <2>2, QuietSteps DEF Next
<1> QED
  BY <1>1, InitHolds, PTL DEF Spec

\* Every table and every request in flight has its shape.
THEOREM TypesHold == Spec => []TypeOK
<1>1. IInv => TypeOK
  BY DEF IInv
<1> QED
  BY <1>1, CopiesAgree, PTL

\* A deadline is the order's own hours after its approval or its creation.
THEOREM DeadlinesAreSound == Spec => []DeadlineMatchesHours
<1>1. IInv => DeadlineMatchesHours
  BY DEF IInv, Rows, Sound, DeadlineMatchesHours
<1> QED
  BY <1>1, CopiesAgree, PTL

-----------------------------------------------------------------------------
(* No silent breach: a scan that finds a breach either queues an alert or  *)
(* compared with a run that reported it, whose alert is committed.         *)

Warned(o, found) == \E a \in found : a.order = o /\ a.kind = "BREACHED"

Ended == \A m \in Succeeded : scan[m].pc = "gone"

HasNewest == Succeeded = {} \/ \E k \in Succeeded : \A j \in Succeeded : j <= k

AllStaffed == \A k \in Succeeded : runs[k].staffed

Queued(s) ==
  s.pc = "persist" /\ s.staffed =>
    \A o \in Orders : s.report[o] = "BREACHED" => Warned(o, alerts \cup s.queued)

BInv ==
  /\ Ended /\ HasNewest
  /\ AllStaffed => \A m \in Scans : Queued(scan[m])
  /\ NoSilentBreach

LEMMA InitAnnounced == Init => BInv
<1> SUFFICES ASSUME Init PROVE BInv
  OBVIOUS
<1>1. Succeeded = {}
  BY DEF Init, Succeeded
<1>2. \A m \in Scans : scan[m].pc = "none"
  BY DEF Init, Idle
<1> QED
  BY <1>1, <1>2 DEF BInv, Ended, HasNewest, Queued, NoSilentBreach

LEMMA SameRuns ==
  ASSUME BInv, UNCHANGED <<runs, alerts>>,
         \A m \in Scans : scan[m].pc = "gone" => scan'[m].pc = "gone",
         AllStaffed => \A m \in Scans : scan'[m] = scan[m] \/ Queued(scan'[m])
  PROVE  BInv'
<1>1. Succeeded' = Succeeded /\ Succeeded \subseteq Scans
  BY DEF Succeeded
<1>2. Ended' /\ HasNewest' /\ NoSilentBreach'
  BY <1>1 DEF BInv, Ended, HasNewest, NoSilentBreach
<1>3. ASSUME AllStaffed' PROVE \A m \in Scans : Queued(scan[m])'
  <2>1. AllStaffed
    BY <1>1, <1>3 DEF AllStaffed
  <2>2. \A m \in Scans : Queued(scan'[m])
    BY <2>1 DEF BInv
  <2> QED
    BY <2>2 DEF Queued
<1> QED
  BY <1>2, <1>3 DEF BInv

LEMMA EscalateAnnounces ==
  ASSUME IInv, BInv, NEW m \in Scans, Escalate(m), AllStaffed
  PROVE  Queued(scan'[m])
<1> DEFINE late == {x \in Orders : staffed /\ Announces(scan[m].report[x], Previous[x])}
           alert(o) == [run |-> m, order |-> o, kind |-> scan[m].report[o],
                        attempt |-> scan[m].attempt, known |-> Succeeded]
           new == {alert(o) : o \in late}
           s == [scan[m] EXCEPT !.pc = "persist", !.locked = @ \cup scan[m].filled,
                                !.staffed = staffed, !.queued = @ \cup new]
<1>1. scan' = [scan EXCEPT ![m] = s]
  BY Zenon DEF Escalate
<1>2. scan[m] \in Scan
  BY ScanFits
<1>3. \A o \in late : alert(o) \in new
  OBVIOUS
<1>4. \A o : alert(o).order = o /\ alert(o).kind = scan[m].report[o]
  OBVIOUS
<1> HIDE DEF new, alert
<1>5. /\ scan'[m].staffed = staffed /\ scan'[m].report = scan[m].report
      /\ scan'[m].queued = scan[m].queued \cup new
  BY <1>1, <1>2 DEF IInv, TypeOK, Scan
<1> HIDE DEF s
<1>6. ASSUME NEW o \in Orders, scan[m].report[o] = "BREACHED", staffed
      PROVE  Warned(o, alerts \cup scan'[m].queued)
  <2>1. CASE Previous[o] # "BREACHED"
    <3>1. o \in late
      BY <1>6, <2>1 DEF Announces
    <3>2. alert(o) \in scan'[m].queued
      BY <1>3, <1>5, <3>1
    <3> QED
      BY <1>4, <1>6, <3>2 DEF Warned
  <2>2. CASE Previous[o] = "BREACHED"
    <3>1. Succeeded # {}
      BY <2>2, NoneIsNoData DEF Previous, Nothing, SlaState
    <3> DEFINE k == CHOOSE k \in Succeeded : \A j \in Succeeded : j <= k
    <3>2. k \in Succeeded
      BY <3>1 DEF BInv, HasNewest
    <3>3. runs[k].report[o] = "BREACHED"
      BY <2>2, <3>1 DEF Previous
    <3> HIDE DEF k
    <3>4. Warned(o, alerts)
      BY <1>6, <3>2, <3>3 DEF BInv, NoSilentBreach, AllStaffed, Warned
    <3> QED
      BY <3>4 DEF Warned
  <2> QED
    BY <2>1, <2>2
<1> QED
  BY <1>5, <1>6 DEF Queued

LEMMA BeginAnnounces ==
  ASSUME IInv, BInv, NEW m \in Scans, \E filter \in Filters : Begin(m, filter)
  PROVE  BInv'
<1>1. /\ scan[m].pc = "none" /\ runs' = [runs EXCEPT ![m] = NoRun] /\ alerts' = alerts
      /\ \A k \in Scans : k # m => scan'[k] = scan[k]
      /\ scan'[m].pc = "scan"
  BY DEF Begin, IInv, TypeOK, Scan
<1>2. m \notin Succeeded
  BY <1>1 DEF BInv, Ended
<1>3. runs \in [Scans -> Run \cup {None}] /\ NoRun.status = "RUNNING"
  BY DEF IInv, TypeOK, NoRun
<1>4. \A k \in Scans : k # m => runs'[k] = runs[k]
  BY <1>1, <1>3
<1>5. runs'[m] = NoRun
  BY <1>1, <1>3
<1>6. Succeeded' = Succeeded /\ Succeeded \subseteq Scans
  BY <1>2, <1>3, <1>4, <1>5 DEF Succeeded
<1>7. Ended' /\ HasNewest' /\ NoSilentBreach' /\ (AllStaffed' => AllStaffed)
  BY <1>1, <1>2, <1>4, <1>6 DEF BInv, Ended, HasNewest, NoSilentBreach, AllStaffed
<1>8. AllStaffed' => \A k \in Scans : Queued(scan[k])'
  BY <1>1, <1>7 DEF BInv, Queued
<1> QED
  BY <1>7, <1>8 DEF BInv

LEMMA PersistAnnounces ==
  ASSUME IInv, BInv, NEW m \in Scans, Persist(m)
  PROVE  BInv'
<1> DEFINE run == [status |-> "SUCCEEDED", report |-> scan[m].report,
                   attempts |-> scan[m].attempt, staffed |-> scan[m].staffed]
<1>1. /\ scan[m].pc = "persist" /\ runs' = [runs EXCEPT ![m] = run]
      /\ alerts' = alerts \cup scan[m].queued /\ scan' = [scan EXCEPT ![m] = Left]
  BY DEF Persist
<1>2. /\ run.status = "SUCCEEDED" /\ run.report = scan[m].report /\ run.staffed = scan[m].staffed
      /\ run \in Run
  <2>1. scan[m] \in Scan
    BY ScanFits
  <2> QED
    BY <2>1 DEF Scan, Run
<1>3. Left.pc = "gone"
  BY IdleIsScan DEF Left, Scan
<1> HIDE DEF run
<1>4. /\ runs'[m] = run /\ \A k \in Scans : k # m => runs'[k] = runs[k]
      /\ scan'[m] = Left /\ \A k \in Scans : k # m => scan'[k] = scan[k]
  BY <1>1 DEF IInv, TypeOK
<1>5. m \notin Succeeded
  BY <1>1 DEF BInv, Ended
<1>6. Succeeded' \subseteq Succeeded \cup {m} /\ Succeeded \subseteq Succeeded' /\ Succeeded \subseteq Scans
  BY <1>4, <1>5 DEF Succeeded
<1>7. Ended'
  BY <1>3, <1>4, <1>6 DEF BInv, Ended
<1>8. HasNewest'
  <2>1. Scans \subseteq Nat
    BY BoundAssumption
  <2>2. CASE Succeeded' \subseteq {m}
    BY <2>1, <2>2 DEF HasNewest
  <2>3. CASE ~(Succeeded' \subseteq {m})
    <3>1. PICK k \in Succeeded : \A j \in Succeeded : j <= k
      BY <1>6, <2>3 DEF BInv, HasNewest
    <3>2. CASE m <= k \/ m \notin Succeeded'
      BY <1>6, <3>1, <3>2 DEF HasNewest
    <3>3. CASE ~(m <= k) /\ m \in Succeeded'
      <4>1. \A j \in Succeeded' : j <= m
        BY <1>6, <2>1, <3>1, <3>3
      <4> QED
        BY <3>3, <4>1 DEF HasNewest
    <3> QED
      BY <3>2, <3>3
  <2> QED
    BY <2>2, <2>3
<1>9. ASSUME AllStaffed' PROVE AllStaffed /\ (m \in Succeeded' => scan[m].staffed)
  BY <1>2, <1>4, <1>5, <1>6, <1>9 DEF AllStaffed
<1>10. AllStaffed' => \A k \in Scans : Queued(scan[k])'
  <2> SUFFICES ASSUME AllStaffed', NEW k \in Scans PROVE Queued(scan[k])'
    OBVIOUS
  <2>1. CASE k = m
    BY <1>3, <1>4, <2>1 DEF Queued
  <2>2. CASE k # m
    BY <1>1, <1>4, <1>9, <2>2 DEF BInv, Queued, Warned
  <2> QED
    BY <2>1, <2>2
<1>11. NoSilentBreach'
  <2> SUFFICES ASSUME AllStaffed', NEW k \in Succeeded', NEW o \in Orders,
                      runs'[k].report[o] = "BREACHED"
               PROVE  Warned(o, alerts')
    BY DEF NoSilentBreach, AllStaffed, Warned
  <2>1. CASE k = m
    <3>1. scan[m].staffed /\ Queued(scan[m]) /\ scan[m].report[o] = "BREACHED"
      BY <1>2, <1>4, <1>9, <2>1 DEF BInv
    <3> QED
      BY <1>1, <3>1 DEF Queued
  <2>2. CASE k # m
    <3>1. k \in Succeeded /\ runs[k].report[o] = "BREACHED" /\ AllStaffed
      BY <1>4, <1>6, <1>9, <2>2
    <3>2. Warned(o, alerts)
      BY <3>1 DEF BInv, NoSilentBreach, AllStaffed, Warned
    <3> QED
      BY <1>1, <3>2 DEF Warned
  <2> QED
    BY <2>1, <2>2
<1> QED
  BY <1>7, <1>8, <1>10, <1>11 DEF BInv

LEMMA OtherAnnounces ==
  ASSUME IInv, BInv,
         \/ Around \/ UNCHANGED vars
         \/ \E m \in Scans : ScanOrders(m) \/ Escalate(m) \/ Retry(m) \/ Abort(m)
  PROVE  BInv'
<1>1. CASE Around \/ UNCHANGED vars
  <2>1. UNCHANGED <<runs, alerts, scan>>
    BY <1>1 DEF Around, Tick, Sign, Staffing, Take, Move, EditPolicy, vars
  <2> QED
    BY <2>1, SameRuns
<1>2. ASSUME NEW m \in Scans, ScanOrders(m) \/ Escalate(m) \/ Retry(m) \/ Abort(m) PROVE BInv'
  <2>1. /\ UNCHANGED <<runs, alerts>> /\ scan[m].pc # "gone"
        /\ \A k \in Scans : k # m => scan'[k] = scan[k]
    BY <1>2 DEF ScanOrders, Escalate, Retry, Abort, IInv, TypeOK
  <2>2. CASE Escalate(m)
    BY <2>1, <2>2, EscalateAnnounces, SameRuns
  <2>3. CASE ScanOrders(m) \/ Retry(m) \/ Abort(m)
    <3>1. scan'[m].pc \in {"escalate", "scan", "gone"}
      <4>1. Left.pc = "gone"
        BY IdleIsScan DEF Left, Scan
      <4>2. scan \in [Scans -> Scan] /\ scan[m] \in Scan
        BY DEF IInv, TypeOK
      <4>3. CASE ScanOrders(m)
        <5>1. \E f, c, r : scan' = [scan EXCEPT ![m] =
                [scan[m] EXCEPT !.pc = "escalate", !.filled = f, !.copy = c, !.report = r]]
          BY <4>3, Zenon DEF ScanOrders
        <5> QED
          BY <4>2, <5>1 DEF Scan
      <4>4. CASE Retry(m)
        <5>1. \E kept : scan' = [scan EXCEPT ![m] =
                [scan[m] EXCEPT !.pc = "scan", !.attempt = 2, !.queued = kept]]
          BY <4>4, Zenon DEF Retry
        <5> QED
          BY <4>2, <5>1 DEF Scan
      <4>5. CASE Abort(m)
        BY <4>1, <4>2, <4>5 DEF Abort
      <4> QED
        BY <2>3, <4>3, <4>4, <4>5
    <3>2. Queued(scan'[m])
      BY <3>1 DEF Queued
    <3> QED
      BY <2>1, <3>2, SameRuns
  <2> QED
    BY <1>2, <2>2, <2>3
<1> QED
  BY <1>1, <1>2

\* A breach on the board was announced, as long as the scans found staff.
THEOREM BreachesAreAnnounced == Spec => []NoSilentBreach
<1>1. ASSUME IInv, BInv, [Next]_vars PROVE BInv'
  BY <1>1, BeginAnnounces, PersistAnnounces, OtherAnnounces DEF Next, Monitor
<1>2. BInv => NoSilentBreach
  BY DEF BInv
<1> QED
  BY <1>1, <1>2, InitAnnounced, CopiesAgree, PTL DEF Spec

-----------------------------------------------------------------------------
(* No repeat: an alert compares with the newest run it knew of, and within *)
(* one attempt a run announces an order once.  Runs that succeeded are     *)
(* never written again, so what an alert was compared with still stands.   *)

Known(a) ==
  /\ a.known \subseteq Succeeded
  /\ a.known # {} =>
       \E k \in a.known : (\A j \in a.known : j <= k) /\ Announces(a.kind, runs[k].report[a.order])

Distinct(found) ==
  \A a, b \in found :
    a.run = b.run /\ a.order = b.order /\ a.kind = b.kind /\ a.attempt = b.attempt => a = b

\* What a run has queued so far is its own, from this attempt or an earlier one.
Held(m, s) ==
  /\ \A a \in s.queued :
       /\ a.run = m /\ Known(a)
       /\ a.attempt <= s.attempt /\ (s.pc # "persist" => a.attempt < s.attempt)
  /\ Distinct(s.queued)

RInv ==
  /\ \A m \in Scans : Held(m, scan[m])
  /\ \A a \in alerts : a.run \in Succeeded /\ a.attempt <= runs[a.run].attempts /\ Known(a)
  /\ Distinct(alerts)

RunsKept == \A k \in Succeeded : k \in Succeeded' /\ runs'[k] = runs[k]

LEMMA InitRepeats == Init => RInv
<1> SUFFICES ASSUME Init PROVE RInv
  OBVIOUS
<1>1. alerts = {} /\ \A m \in Scans : scan[m].queued = {}
  BY DEF Init, Idle
<1> QED
  BY <1>1 DEF RInv, Held, Distinct

LEMMA KnownStays == ASSUME RunsKept, NEW a, Known(a) PROVE Known(a)'
BY DEF RunsKept, Known

LEMMA HeldStays == ASSUME RunsKept, NEW m, NEW s, Held(m, s) PROVE Held(m, s)'
<1>1. \A a \in s.queued : Known(a)'
  BY KnownStays DEF Held
<1> QED
  BY <1>1 DEF Held, Distinct

\* A step that commits no alert, and changes one scan at most.
LEMMA QueueSteps ==
  ASSUME RInv, RunsKept, alerts' = alerts, NEW m \in Scans, NEW s, scan'[m] = s, Held(m, s),
         \A k \in Scans : k # m => scan'[k] = scan[k]
  PROVE  RInv'
<1>1. ASSUME NEW k \in Scans PROVE Held(k, scan[k])'
  <2>1. PICK t : t = scan'[k] /\ Held(k, t)
    BY DEF RInv
  <2>2. Held(k, t)'
    BY <2>1, HeldStays
  <2> QED
    BY <2>1, <2>2 DEF Held, Distinct
<1>2. \A a \in alerts : a.run \in Succeeded' /\ a.attempt <= runs'[a.run].attempts
  BY DEF RInv, RunsKept
<1>3. \A a \in alerts : Known(a)'
  BY KnownStays DEF RInv
<1> QED
  BY <1>1, <1>2, <1>3 DEF RInv, Distinct

LEMMA EscalateRepeats ==
  ASSUME IInv, BInv, RInv, NEW m \in Scans, Escalate(m)
  PROVE  RInv'
<1> DEFINE late == {x \in Orders : staffed /\ Announces(scan[m].report[x], Previous[x])}
           alert(o) == [run |-> m, order |-> o, kind |-> scan[m].report[o],
                        attempt |-> scan[m].attempt, known |-> Succeeded]
           new == {alert(o) : o \in late}
           s == [scan[m] EXCEPT !.pc = "persist", !.locked = @ \cup scan[m].filled,
                                !.staffed = staffed, !.queued = @ \cup new]
<1>1. scan' = [scan EXCEPT ![m] = s] /\ scan[m].pc = "escalate" /\ UNCHANGED <<runs, alerts>>
  BY Zenon DEF Escalate
<1>2. scan[m] \in Scan /\ scan \in [Scans -> Scan] /\ scan[m].queued \subseteq Alert /\ scan[m].attempt \in 1..2
  BY ScanFits DEF IInv, TypeOK, Scan
<1>3. ASSUME NEW a \in new
      PROVE  a.run = m /\ a.attempt = scan[m].attempt /\ Known(a) /\ \A b \in new : a.order = b.order => a = b
  <2>1. PICK o \in late : a = alert(o)
    OBVIOUS
  <2>2. /\ a.run = m /\ a.attempt = scan[m].attempt /\ a.known = Succeeded
        /\ a.order = o /\ a.kind = scan[m].report[o]
    BY <2>1
  <2>3. Known(a)
    <3> SUFFICES ASSUME Succeeded # {}
                 PROVE  \E k \in Succeeded : (\A j \in Succeeded : j <= k) /\ Announces(a.kind, runs[k].report[o])
      BY <2>2 DEF Known
    <3> DEFINE k == CHOOSE k \in Succeeded : \A j \in Succeeded : j <= k
    <3>1. k \in Succeeded /\ \A j \in Succeeded : j <= k
      BY DEF BInv, HasNewest
    <3>2. Previous = runs[k].report
      BY DEF Previous
    <3> HIDE DEF k
    <3>3. Announces(a.kind, Previous[o])
      BY <2>2
    <3> QED
      BY <3>1, <3>2, <3>3
  <2>4. ASSUME NEW b \in new, a.order = b.order PROVE a = b
    <3>1. PICK p \in late : b = alert(p)
      BY <2>4
    <3>2. b.order = p
      BY <3>1
    <3> QED
      BY <2>1, <2>2, <2>4, <3>1, <3>2
  <2> QED
    BY <2>2, <2>3, <2>4
<1> HIDE DEF new
<1>4. s.pc = "persist" /\ s.attempt = scan[m].attempt /\ s.queued = scan[m].queued \cup new
  BY <1>2 DEF Scan
<1>5. /\ scan'[m] = s /\ \A k \in Scans : k # m => scan'[k] = scan[k]
  BY <1>1, <1>2
<1> HIDE DEF s
<1>6. \A a \in scan[m].queued : a.run = m /\ Known(a) /\ a.attempt < scan[m].attempt /\ a.attempt \in 1..2
  BY <1>1, <1>2 DEF RInv, Held, Alert
<1>7. Held(m, s)
  <2>1. \A a \in s.queued : a.run = m /\ Known(a) /\ a.attempt <= s.attempt
    BY <1>2, <1>3, <1>4, <1>6
  <2>2. Distinct(s.queued)
    <3> SUFFICES ASSUME NEW a \in s.queued, NEW b \in s.queued, a.run = b.run, a.order = b.order,
                        a.kind = b.kind, a.attempt = b.attempt
                 PROVE  a = b
      BY DEF Distinct
    <3>1. CASE a \in scan[m].queued /\ b \in scan[m].queued
      BY <3>1 DEF RInv, Held, Distinct
    <3>2. CASE a \in new /\ b \in new
      BY <1>3, <3>2
    <3>3. CASE (a \in new /\ b \in scan[m].queued) \/ (b \in new /\ a \in scan[m].queued)
      BY <1>2, <1>3, <1>6, <3>3
    <3> QED
      BY <1>4, <3>1, <3>2, <3>3
  <2> QED
    BY <1>4, <2>1, <2>2 DEF Held
<1>8. RunsKept
  BY <1>1 DEF RunsKept, Succeeded
<1> QED
  BY <1>1, <1>5, <1>7, <1>8, QueueSteps

LEMMA PersistRepeats ==
  ASSUME IInv, BInv, RInv, NEW m \in Scans, Persist(m)
  PROVE  RInv'
<1> DEFINE run == [status |-> "SUCCEEDED", report |-> scan[m].report,
                   attempts |-> scan[m].attempt, staffed |-> scan[m].staffed]
<1>1. /\ scan[m].pc = "persist" /\ runs' = [runs EXCEPT ![m] = run]
      /\ alerts' = alerts \cup scan[m].queued /\ scan' = [scan EXCEPT ![m] = Left]
  BY DEF Persist
<1>2. run.status = "SUCCEEDED" /\ run.attempts = scan[m].attempt /\ run # None
  <2>1. scan[m] \in Scan
    BY ScanFits
  <2>2. run \in Run
    BY <2>1 DEF Scan, Run
  <2> QED
    BY <2>2, NoneIsNoData
<1> HIDE DEF run
<1>3. /\ runs'[m] = run /\ \A k \in Scans : k # m => runs'[k] = runs[k]
      /\ scan'[m] = Left /\ \A k \in Scans : k # m => scan'[k] = scan[k]
  BY <1>1 DEF IInv, TypeOK
<1>4. m \notin Succeeded
  BY <1>1 DEF BInv, Ended
<1>5. RunsKept /\ m \in Succeeded'
  BY <1>2, <1>3, <1>4 DEF RunsKept, Succeeded
<1>6. /\ \A a \in scan[m].queued : a.run = m /\ Known(a) /\ a.attempt <= run.attempts
      /\ Distinct(scan[m].queued)
  BY <1>2 DEF RInv, Held
<1>7. \A a \in alerts : a.run # m /\ a.run \in Succeeded
  BY <1>4 DEF RInv
<1>8. ASSUME NEW k \in Scans PROVE Held(k, scan[k])'
  <2>1. CASE k = m
    <3>1. Left.queued = {}
      BY DEF Left, Idle
    <3> QED
      BY <1>3, <2>1, <3>1 DEF Held, Distinct
  <2>2. CASE k # m
    <3>1. PICK t : t = scan'[k] /\ Held(k, t)
      BY <1>3, <2>2 DEF RInv
    <3>2. Held(k, t)'
      BY <1>5, <3>1, HeldStays
    <3> QED
      BY <3>1, <3>2 DEF Held, Distinct
  <2> QED
    BY <2>1, <2>2
<1>9. ASSUME NEW a \in alerts' PROVE a.run \in Succeeded' /\ a.attempt <= runs'[a.run].attempts /\ Known(a)'
  <2>1. CASE a \in alerts
    BY <1>5, <2>1, KnownStays DEF RInv, RunsKept
  <2>2. CASE a \in scan[m].queued
    BY <1>3, <1>5, <1>6, <2>2, KnownStays
  <2> QED
    BY <1>1, <2>1, <2>2
<1>10. Distinct(alerts')
  BY <1>1, <1>6, <1>7 DEF RInv, Distinct
<1> QED
  BY <1>8, <1>9, <1>10 DEF RInv, Distinct

LEMMA OtherRepeats ==
  ASSUME IInv, BInv, RInv,
         \/ Around \/ UNCHANGED vars
         \/ \E m \in Scans : (\E filter \in Filters : Begin(m, filter)) \/ ScanOrders(m) \/ Retry(m) \/ Abort(m)
  PROVE  RInv'
<1>1. CASE Around \/ UNCHANGED vars
  <2>1. UNCHANGED <<runs, alerts, scan>>
    BY <1>1 DEF Around, Tick, Sign, Staffing, Take, Move, EditPolicy, vars
  <2>2. Succeeded' = Succeeded
    BY <2>1 DEF Succeeded
  <2> QED
    BY <2>1, <2>2 DEF RInv, Held, Known, Distinct
<1>2. ASSUME NEW m \in Scans,
             (\E filter \in Filters : Begin(m, filter)) \/ ScanOrders(m) \/ Retry(m) \/ Abort(m)
      PROVE  RInv'
  <2>1. scan \in [Scans -> Scan] /\ scan[m] \in Scan /\ Held(m, scan[m])
    BY DEF IInv, TypeOK, RInv
  <2>2. alerts' = alerts /\ \A k \in Scans : k # m => scan'[k] = scan[k]
    BY <1>2, <2>1 DEF Begin, ScanOrders, Retry, Abort
  <2>3. RunsKept
    <3>1. CASE \E filter \in Filters : Begin(m, filter)
      <4>1. scan[m].pc = "none" /\ runs' = [runs EXCEPT ![m] = NoRun]
        BY <3>1 DEF Begin
      <4>2. m \notin Succeeded
        BY <4>1 DEF BInv, Ended
      <4> QED
        BY <4>1, <4>2 DEF RunsKept, Succeeded, IInv, TypeOK
    <3>2. CASE ScanOrders(m) \/ Retry(m) \/ Abort(m)
      BY <3>2 DEF ScanOrders, Retry, Abort, RunsKept, Succeeded
    <3> QED
      BY <1>2, <3>1, <3>2
  <2>4. Held(m, scan'[m])
    <3>1. CASE \E filter \in Filters : Begin(m, filter)
      <4>1. /\ scan'[m].pc = "scan" /\ scan'[m].queued = scan[m].queued /\ scan'[m].attempt = scan[m].attempt
            /\ scan[m].pc = "none"
        <5>1. PICK filter \in Filters : scan' = [scan EXCEPT ![m] =
                [scan[m] EXCEPT !.pc = "scan", !.filter = filter, !.now = time]]
          BY <3>1, Zenon DEF Begin
        <5>2. scan[m].pc = "none"
          BY <3>1 DEF Begin
        <5> QED
          BY <2>1, <5>1, <5>2 DEF Scan
      <4> QED
        BY <2>1, <4>1 DEF Held
    <3>2. CASE ScanOrders(m)
      <4>1. scan[m].pc = "scan" /\ \E f, c, r : scan' = [scan EXCEPT ![m] =
              [scan[m] EXCEPT !.pc = "escalate", !.filled = f, !.copy = c, !.report = r]]
        BY <3>2, Zenon DEF ScanOrders
      <4>2. scan'[m].pc = "escalate" /\ scan'[m].queued = scan[m].queued /\ scan'[m].attempt = scan[m].attempt
        BY <2>1, <4>1 DEF Scan
      <4> QED
        BY <2>1, <4>1, <4>2 DEF Held
    <3>3. CASE Retry(m)
      <4>1. PICK kept \in SUBSET scan[m].queued :
              scan' = [scan EXCEPT ![m] = [scan[m] EXCEPT !.pc = "scan", !.attempt = 2, !.queued = kept]]
        BY <3>3, Zenon DEF Retry
      <4>2. scan'[m].pc = "scan" /\ scan'[m].queued = kept /\ scan'[m].attempt = 2
        BY <2>1, <4>1 DEF Scan
      <4>3. scan[m].attempt = 1 /\ scan[m].queued \subseteq Alert
        BY <2>1, <3>3 DEF Retry, Scan
      <4>4. \A a \in kept : a.run = m /\ Known(a) /\ a.attempt \in 1..2 /\ a.attempt <= 1
        BY <2>1, <4>3 DEF Held, Alert
      <4>5. Distinct(kept)
        BY <2>1 DEF Held, Distinct
      <4> QED
        BY <4>2, <4>4, <4>5 DEF Held
    <3>4. CASE Abort(m)
      <4>1. scan'[m] = Left /\ Left.queued = {}
        BY <2>1, <3>4 DEF Abort, Left, Idle
      <4> QED
        BY <4>1 DEF Held, Distinct
    <3> QED
      BY <1>2, <3>1, <3>2, <3>3, <3>4
  <2> QED
    BY <2>2, <2>3, <2>4, QueueSteps
<1> QED
  BY <1>1, <1>2

\* "Repeat runs never spam": an alert is repeated only by a run whose graph ran
\* twice, or when a run in between reported the order otherwise or left it out.
THEOREM AlertsAreNotRepeated == Spec => []NoRepeat
<1>1. ASSUME IInv, BInv, RInv, [Next]_vars PROVE BInv' /\ RInv'
  BY <1>1, BeginAnnounces, PersistAnnounces, OtherAnnounces,
     EscalateRepeats, PersistRepeats, OtherRepeats DEF Next, Monitor
<1>2. IInv /\ RInv => NoRepeat
  <2> SUFFICES ASSUME IInv, RInv, NEW a \in alerts, NEW b \in alerts,
                      a.order = b.order, a.kind = b.kind, a # b
               PROVE  /\ a.run = b.run => runs[a.run].attempts = 2
                      /\ a.run \in b.known =>
                           \E k \in b.known : k >= a.run /\ runs[k].report[a.order] # a.kind
    BY DEF NoRepeat
  <2>1. a \in Alert /\ b \in Alert
    BY DEF IInv, TypeOK
  <2>2. ASSUME a.run = b.run PROVE runs[a.run].attempts = 2
    <3>1. a.attempt \in 1..2 /\ b.attempt \in 1..2 /\ a.attempt # b.attempt
      BY <2>1, <2>2 DEF Alert, RInv, Distinct
    <3>2. /\ a.attempt <= runs[a.run].attempts /\ b.attempt <= runs[a.run].attempts
          /\ runs[a.run] \in Run
      BY <2>1, <2>2 DEF RInv, Succeeded, IInv, TypeOK
    <3> QED
      BY <3>1, <3>2 DEF Run
  <2>3. ASSUME a.run \in b.known
        PROVE  \E k \in b.known : k >= a.run /\ runs[k].report[a.order] # a.kind
    <3>1. PICK k \in b.known : (\A j \in b.known : j <= k) /\ Announces(b.kind, runs[k].report[b.order])
      BY <2>3 DEF RInv, Known
    <3>2. runs[k].report[b.order] # b.kind
      BY <2>1, <3>1, NoneIsNoData DEF Announces, SlaState, Alert
    <3>3. k \in Nat /\ a.run \in Nat /\ a.run <= k
      BY <2>1, <2>3, <3>1, BoundAssumption DEF Alert
    <3> QED
      BY <3>2, <3>3
  <2> QED
    BY <2>2, <2>3
<1> QED
  BY <1>1, <1>2, InitAnnounced, InitRepeats, CopiesAgree, PTL DEF Spec
=============================================================================
