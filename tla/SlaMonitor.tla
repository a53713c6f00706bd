----------------------------- MODULE SlaMonitor -----------------------------
(***************************************************************************)
(* The SLA monitor over work orders: the rulebook, the deadline an order   *)
(* gets from it at approval, at assignment or from a scan, and the scan -> *)
(* escalate -> persist graph an officer starts with POST /sla/run.  A scan *)
(* reads the orders; the flush that ends it sends the deadlines it filled  *)
(* in (the rows stay locked from there to the commit); escalate compares   *)
(* with the previous run and queues alerts; one commit makes deadlines,    *)
(* alerts and outcome visible.  Between those steps orders move, rules are *)
(* edited, time passes, staff come and go, and other scans run.            *)
(***************************************************************************)
EXTENDS Integers, FiniteSets

CONSTANTS
  None,         \* no time, no rule dimension, no filter, no previous state
  Orders,
  Departments,
  DepartmentOf, \* the department of each order
  Scopes,       \* of the rules: a department, or None for every department
  Filters,      \* of the runs: a department, or None for every department
  Hours,        \* sla_hours a rule may have
  Quarter,      \* at_risk_percent of every rule, in quarters of the window
  Horizon,      \* bound: hours the clock runs
  Scans,        \* bound: the runs requested, 1..n, in the order they begin
  Late,         \* bound: the runs requested when no other is under way
  MaxEvents     \* bound: edits, changes of staff, changes of orders (approvals aside), faults

ASSUME NoneAssumption == None \notin Int /\ None \notin Departments
ASSUME OrderAssumption ==
  /\ DepartmentOf \in [Orders -> Departments]
  /\ Scopes \subseteq Departments \cup {None} /\ Filters \subseteq Departments \cup {None}
  /\ None \in Scopes /\ \A o \in Orders : DepartmentOf[o] \in Scopes
ASSUME BoundAssumption ==
  /\ Hours \subseteq Nat \ {0} /\ Quarter \in 1..4
  /\ Horizon \in Nat /\ Scans \subseteq Nat \ {0} /\ Late \subseteq Scans /\ MaxEvents \in Nat

Time == 0..Horizon
Created == 0  \* created_at of every order
\* WORK_COMPLETED, EVIDENCE_SUBMITTED and COMPLETED are DONE to the monitor,
\* CLOSED and REJECTED are GONE, every other approved status is OPEN.
OrderStatus == {"PENDING_APPROVAL", "OPEN", "DONE", "GONE"}
SlaState == {"ON_TRACK", "AT_RISK", "BREACHED", "COMPLETED"}
Order == [status : OrderStatus, approved : Time \cup {None},
          hours : Hours \cup {None}, due : Nat \cup {None}]

VARIABLES
  time,
  orders,   \* work_orders
  desk,     \* the officer's open approve or assign: what it read of the order
  rules,    \* sla_policies: the hours of the active rule of each scope
  staffed,  \* some officer or admin is active
  runs,     \* agent_runs of the monitor, by the request that started them
  scan,     \* what each request has in hand
  alerts,   \* committed notifications to staff
  events

officeVars == <<orders, desk, rules, staffed>>
vars == <<time, officeVars, runs, scan, alerts, events>>

\* known is history: the successful runs there were when the alert was queued.
Alert == [run : Scans, order : Orders, kind : {"AT_RISK", "BREACHED"}, attempt : 1..2,
          known : SUBSET Scans]
Report == [Orders -> SlaState \cup {None}]  \* None: not in the report
\* attempts and staffed are history: how often the graph ran, and whether the
\* attempt that succeeded found staff.
Run == [status : {"RUNNING", "SUCCEEDED"}, report : Report, attempts : 1..2, staffed : BOOLEAN]
Scan == [pc : {"none", "scan", "escalate", "persist", "gone"}, filter : Filters \cup {None},
         now : Time, copy : [Orders -> Order \cup {None}], report : Report,
         filled : SUBSET Orders, locked : SUBSET Orders,
         staffed : BOOLEAN, attempt : 1..2, queued : SUBSET Alert]
Desk == [verb : {"approve", "assign"}, order : Orders, copy : Order]
ASSUME NoneIsNoData == None \notin Order /\ None \notin Run /\ None \notin SlaState

Nothing == [o \in Orders |-> None]
Idle == [pc |-> "none", filter |-> None, now |-> 0, copy |-> Nothing,
         report |-> Nothing, filled |-> {}, locked |-> {}, staffed |-> TRUE,
         attempt |-> 1, queued |-> {}]
NoRun == [status |-> "RUNNING", report |-> Nothing, attempts |-> 1, staffed |-> TRUE]

-----------------------------------------------------------------------------
(* The rulebook and the deadline. *)

\* resolve: the hours of the most specific active rule that matches, or None.
Resolve(department) == IF rules[department] # None THEN rules[department] ELSE rules[None]

HoursOf(order, policy) == IF order.hours # None THEN order.hours ELSE policy

\* _apply_sla_deadline: values the order has are respected.
Deadlined(order, department, base) ==
  LET policy == Resolve(department)
      hours == HoursOf(order, policy) IN
  IF policy = None THEN order
  ELSE [order EXCEPT !.hours = hours, !.due = IF @ = None THEN base + hours ELSE @]

\* The anchor of the window: approval, else what the deadline implies, else creation.
Base(order, hours) ==
  IF order.approved # None THEN order.approved
  ELSE IF order.due # None /\ hours # None THEN order.due - hours ELSE Created

\* compute_snapshot fills in a missing deadline.
Backfilled(order, policy) ==
  LET hours == HoursOf(order, policy) IN
  IF order.due # None \/ hours = None THEN order
  ELSE [order EXCEPT !.hours = hours, !.due = Base(order, hours) + hours]

Judged(order, policy, now) ==
  LET o == Backfilled(order, policy)
      elapsed == o.hours - (o.due - now)
  IN IF order.status = "DONE" THEN "COMPLETED"
     ELSE IF o.due = None THEN "ON_TRACK"
     ELSE IF now > o.due THEN "BREACHED"
     ELSE IF 4 * elapsed >= Quarter * o.hours THEN "AT_RISK" ELSE "ON_TRACK"

-----------------------------------------------------------------------------
Init ==
  /\ time = 0
  /\ rules \in {[s \in Scopes |-> IF s = None THEN h ELSE None] : h \in Hours \cup {None}}
  \* Drafts get the hours of the rule there is, if any, and no deadline.
  /\ orders = [o \in Orders |-> [status |-> "PENDING_APPROVAL", approved |-> None,
                                 hours |-> Resolve(DepartmentOf[o]), due |-> None]]
  /\ desk = None /\ staffed = TRUE
  /\ runs = [m \in Scans |-> None]
  /\ scan = [m \in Scans |-> Idle]
  /\ alerts = {}
  /\ events = 0

Locked(o) == \E m \in Scans : o \in scan[m].locked

-----------------------------------------------------------------------------
(* Around the monitor: time, the officer's desk, the other handlers, the   *)
(* rulebook and the staff.                                                 *)

Tick ==
  /\ time < Horizon
  /\ time' = time + 1
  /\ UNCHANGED <<officeVars, runs, scan, alerts, events>>

Event == events < MaxEvents /\ events' = events + 1

\* approve_work_order and assign_work_order read the order, stamp the copy ...
Take(verb, o) ==
  /\ desk = None
  /\ \/ verb = "approve" /\ orders[o].status = "PENDING_APPROVAL" /\ UNCHANGED events
     \/ verb = "assign" /\ orders[o].status # "GONE" /\ Event
  /\ desk' = [verb |-> verb, order |-> o,
              copy |-> [orders[o] EXCEPT !.status = "OPEN",
                                         !.approved = IF verb = "approve" THEN time ELSE @]]
  /\ UNCHANGED <<time, orders, rules, staffed, runs, scan, alerts>>

\* ... and write the columns that changed, waiting for a row a scan has locked.
Signed(row, copy, department) ==
  LET dated == Deadlined(copy, department, IF copy.approved = None THEN Created ELSE copy.approved)
  IN [row EXCEPT !.status = "OPEN",
                 !.approved = IF desk.verb = "approve" THEN copy.approved ELSE @,
                 !.hours = IF dated.hours # copy.hours THEN dated.hours ELSE @,
                 !.due = IF dated.due # copy.due THEN dated.due ELSE @]

Sign ==
  /\ desk # None /\ ~Locked(desk.order)
  /\ orders' = [orders EXCEPT ![desk.order] = Signed(@, desk.copy, DepartmentOf[desk.order])]
  /\ desk' = None
  /\ UNCHANGED <<time, rules, staffed, runs, scan, alerts, events>>

\* The handlers that change only the status: escalate, complete, return, reject.
Move(o, status) ==
  /\ Event /\ ~Locked(o)
  /\ <<orders[o].status, status>> \in
       {<<"PENDING_APPROVAL", "OPEN">>, <<"OPEN", "DONE">>, <<"DONE", "OPEN">>,
        <<"PENDING_APPROVAL", "GONE">>, <<"OPEN", "GONE">>, <<"DONE", "GONE">>}
  /\ orders' = [orders EXCEPT ![o].status = status]
  /\ UNCHANGED <<time, desk, rules, staffed, runs, scan, alerts>>

\* create_policy, update_policy and delete_policy keep one rule per scope; the
\* one edit sets, changes, drops or (de)activates it, or moves it to a free scope.
EditPolicy(written) ==
  /\ Event
  /\ rules' = written
  /\ UNCHANGED <<time, orders, desk, staffed, runs, scan, alerts>>

Free == {s \in Scopes : rules[s] = None}
Edited ==
  {[rules EXCEPT ![s] = h] : s \in Scopes, h \in Hours \cup {None}} \cup
  {[rules EXCEPT ![s] = None, ![t] = h] : s \in Scopes, t \in Free, h \in Hours}

Staffing ==
  /\ Event
  /\ staffed' = ~staffed
  /\ UNCHANGED <<time, orders, desk, rules, runs, scan, alerts>>

-----------------------------------------------------------------------------
(* The monitor. *)

Begin(m, filter) ==
  /\ scan[m].pc = "none"
  /\ \A k \in Scans : k < m => runs[k] # None /\ (m \in Late => scan[k].pc = "gone")
  /\ runs' = [runs EXCEPT ![m] = NoRun]
  /\ scan' = [scan EXCEPT ![m] = [@ EXCEPT !.pc = "scan", !.filter = filter, !.now = time]]
  /\ UNCHANGED <<time, officeVars, alerts, events>>

\* What the scan's query can return for an order it selects: the row, with the
\* scan's own flushed deadline on it, or the object a first attempt left in the
\* session.
Seen(m, o) ==
  LET s == scan[m]
      own == IF o \in s.locked
             THEN [orders[o] EXCEPT !.hours = s.copy[o].hours, !.due = s.copy[o].due]
             ELSE orders[o]
  IN {own} \cup (IF s.copy[o] = None THEN {} ELSE {s.copy[o]})

Selected(m) ==
  {o \in Orders : orders[o].status # "GONE" /\ scan[m].filter \in {None, DepartmentOf[o]}}

\* _scan_node: rows are read, deadlines filled in on the session's objects.
ScanOrders(m) ==
  /\ scan[m].pc = "scan"
  /\ \E seen \in [Orders -> UNION {Seen(m, o) : o \in Orders}] :
       /\ \A o \in Orders : seen[o] \in Seen(m, o)
       /\ LET policy(o) == Resolve(DepartmentOf[o])
              filled == {o \in Selected(m) : seen[o].due = None /\ HoursOf(seen[o], policy(o)) # None}
          IN scan' = [scan EXCEPT ![m] = [scan[m] EXCEPT
               !.pc = "escalate", !.filled = filled,
               !.copy = [o \in Orders |->
                 IF o \in Selected(m) THEN Backfilled(seen[o], policy(o)) ELSE scan[m].copy[o]],
               !.report = [o \in Orders |->
                 IF o \in Selected(m) THEN Judged(seen[o], policy(o), scan[m].now) ELSE None]]]
  /\ UNCHANGED <<time, officeVars, runs, alerts, events>>

Succeeded == {k \in Scans : runs[k] # None /\ runs[k].status = "SUCCEEDED"}

\* Mutant: the oldest successful run instead of the newest.
PreviousOldest ==
  IF Succeeded = {} THEN Nothing
  ELSE runs[CHOOSE k \in Succeeded : \A j \in Succeeded : k <= j].report

\* _previous_scan: the report of the last started run that succeeded.
Previous ==
  IF Succeeded = {} THEN Nothing
  ELSE runs[CHOOSE k \in Succeeded : \A j \in Succeeded : j <= k].report

\* Mutant: a breach is announced under the condition of a warning.
AnnouncesFresh(state, before) ==
  state \in {"AT_RISK", "BREACHED"} /\ before \in {None, "ON_TRACK"}

\* The states this order may have been in for the transition to be announced.
Announces(state, before) ==
  \/ state = "BREACHED" /\ before # "BREACHED"
  \/ state = "AT_RISK" /\ before \in {None, "ON_TRACK"}

\* The flush that ends the scan takes the locks; _escalate_node queues alerts.
Escalate(m) ==
  LET s == scan[m] IN
  /\ s.pc = "escalate"
  /\ \A o \in s.filled \ s.locked : ~Locked(o)
  /\ scan' = [scan EXCEPT ![m] = [s EXCEPT
       !.pc = "persist", !.locked = @ \cup s.filled, !.staffed = staffed,
       !.queued = @ \cup {[run |-> m, order |-> o, kind |-> s.report[o],
                           attempt |-> s.attempt, known |-> Succeeded] :
         o \in {x \in Orders : staffed /\ Announces(s.report[x], Previous[x])}}]]
  /\ UNCHANGED <<time, officeVars, runs, alerts, events>>

Left == [Idle EXCEPT !.pc = "gone"]

\* _persist_node: finalize_run commits the deadlines, the alerts and the outcome.
Persist(m) ==
  LET s == scan[m] IN
  /\ s.pc = "persist"
  /\ orders' = [o \in Orders |->
       IF o \in s.locked THEN [orders[o] EXCEPT !.hours = s.copy[o].hours, !.due = s.copy[o].due]
       ELSE orders[o]]
  /\ runs' = [runs EXCEPT ![m] = [status |-> "SUCCEEDED", report |-> s.report,
                                  attempts |-> s.attempt, staffed |-> s.staffed]]
  /\ alerts' = alerts \cup s.queued
  /\ scan' = [scan EXCEPT ![m] = Left]
  /\ UNCHANGED <<time, desk, rules, staffed, events>>

\* An exception while alerts are queued: the graph runs again in the session
\* that holds the flushed deadlines and the alerts queued so far.
Retry(m) ==
  /\ Event /\ scan[m].pc = "persist" /\ scan[m].attempt = 1
  /\ \E kept \in SUBSET scan[m].queued :
       scan' = [scan EXCEPT ![m] = [@ EXCEPT !.pc = "scan", !.attempt = 2, !.queued = kept]]
  /\ UNCHANGED <<time, officeVars, runs, alerts>>

\* A second exception, or a crash: everything uncommitted is rolled back and
\* the row stays RUNNING.
Abort(m) ==
  /\ Event /\ scan[m].pc \in {"scan", "escalate", "persist"}
  /\ scan' = [scan EXCEPT ![m] = Left]
  /\ UNCHANGED <<time, officeVars, runs, alerts>>

Around ==
  \/ Tick \/ Sign \/ Staffing
  \/ \E verb \in {"approve", "assign"}, o \in Orders : Take(verb, o)
  \/ \E o \in Orders, status \in OrderStatus : Move(o, status)
  \/ \E written \in Edited \ {rules} : EditPolicy(written)

Monitor(m) ==
  \/ \E filter \in Filters : Begin(m, filter)
  \/ ScanOrders(m) \/ Escalate(m) \/ Persist(m) \/ Retry(m) \/ Abort(m)

Next == Around \/ \E m \in Scans : Monitor(m)

Spec == Init /\ [][Next]_vars

-----------------------------------------------------------------------------
(* Properties. *)

\* Every table and every request in flight has its shape.
TypeOK ==
  /\ time \in Time /\ orders \in [Orders -> Order] /\ desk \in Desk \cup {None}
  /\ rules \in [Scopes -> Hours \cup {None}] /\ staffed \in BOOLEAN
  /\ runs \in [Scans -> Run \cup {None}] /\ scan \in [Scans -> Scan]
  /\ alerts \subseteq Alert
  /\ events \in 0..MaxEvents

\* "Repeat runs never spam": two alerts of one kind for one order come from one
\* run only if its graph ran twice, and from a run that knew of the earlier one
\* only if some run it knew of, since then, reported the order otherwise or left
\* it out (a filtered scan).
NoRepeat ==
  \A a, b \in alerts : a.order = b.order /\ a.kind = b.kind /\ a # b =>
    /\ a.run = b.run => runs[a.run].attempts = 2
    /\ a.run \in b.known =>
         \E k \in b.known : k >= a.run /\ runs[k].report[a.order] # a.kind

\* A breach on the board was announced: while every run that succeeded found
\* staff, a report that an order is breached is never without its alert.
NoSilentBreach ==
  \A m \in Succeeded, o \in Orders :
    runs[m].report[o] = "BREACHED" /\ (\A k \in Succeeded : runs[k].staffed) =>
      \E a \in alerts : a.order = o /\ a.kind = "BREACHED"

\* However approval, assignment and scans interleave with edits of the rules, a
\* deadline is the order's own hours after its approval or its creation.
DeadlineMatchesHours ==
  \A o \in Orders : orders[o].due # None =>
    /\ orders[o].hours # None
    /\ orders[o].due \in {Created + orders[o].hours} \cup
         (IF orders[o].approved = None THEN {} ELSE {orders[o].approved + orders[o].hours})
=============================================================================
