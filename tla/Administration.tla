--------------------------- MODULE Administration ---------------------------
(***************************************************************************)
(* The super administrator's panel: accounts with their roles, wards and   *)
(* profiles, and the roles, wards, departments, categories and weights     *)
(* that can be switched off.                                               *)
(*                                                                         *)
(* A request is authorized and reads what it is about, checks it and works *)
(* out what becomes of it; its commit writes the columns it changed, of a  *)
(* row that another request may have changed since.  The audit row is part *)
(* of the same commit and is not kept.  Names, passwords and the texts of  *)
(* a profile are left out.                                                 *)
(***************************************************************************)
EXTENDS Naturals, FiniteSets

CONSTANTS
  Accounts,     \* e-mail addresses
  Founders,     \* the super administrators there are to begin with
  Roles,        \* role names
  Districts,    \* wards
  Departments,
  Categories,   \* complaint categories
  Weights,      \* keys of the priority weights
  Settings,     \* keys of the system settings
  Built,        \* the entities there are to begin with
  Unset,        \* a field that a request leaves alone
  Nil,          \* no ward, no profile
  MaxJobs,      \* bound: requests under way
  MaxEdits      \* bound: requests committed

Entities == Roles \cup Districts \cup Departments \cup Categories \cup Weights \cup Settings

ASSUME AdministrationAssumption ==
  /\ Founders \subseteq Accounts /\ Founders # {}
  /\ {"SUPER_ADMIN", "FIELD_WORKER", "WARD_REPRESENTATIVE", "CITIZEN"} \subseteq Roles
  /\ "SUPER_ADMIN" \in Built /\ Built \subseteq Entities
  /\ {Unset, Nil} \cap Entities = {}
  \* each kind is a table of its own
  /\ Accounts \cap Entities = {}
  /\ Roles \cap (Districts \cup Departments \cup Categories \cup Weights \cup Settings) = {}
  /\ MaxJobs \in Nat /\ MaxEdits \in Nat

VARIABLES
  account,     \* users, with their profiles
  state,       \* is_active of each entity, "none" when there is no row; of a
               \* setting whether it overrides the environment
  jobs,        \* requests that have read and not committed
  edits,       \* requests committed
  overlapped,  \* history: two requests were under way together
  duel,        \* history: two of them deprived somebody
  revived      \* history: accounts that were enabled again

adminVars == <<account, state, jobs, edits, overlapped, duel, revived>>

Row == [role : Roles, active : BOOLEAN, ward : Districts \cup {Nil},
        crew : Departments \cup {Nil},   \* department_id of the FieldWorker
        seat : Districts \cup {Nil}]     \* ward_id of the WardRepresentative
Absent == [role |-> Nil, active |-> FALSE, ward |-> Nil, crew |-> Nil, seat |-> Nil]
Switch == {"none", "on", "off"}
Change == [role : Roles \cup {Unset}, active : BOOLEAN \cup {Unset},
           ward : Districts \cup {Nil, Unset}, crew : Departments \cup {Unset}]

AdminInit ==
  /\ account = [u \in Accounts |->
       IF u \in Founders THEN [Absent EXCEPT !.role = "SUPER_ADMIN", !.active = TRUE] ELSE Absent]
  /\ state = [e \in Entities |-> IF e \in Built THEN "on" ELSE "none"]
  /\ jobs = {} /\ edits = 0 /\ overlapped = FALSE /\ duel = FALSE /\ revived = {}

Exists(u) == account[u] # Absent
On(e) == state[e] = "on"

\* get_current_user and require_roles: read when the request comes in.
Authorized(a) == account[a].active /\ account[a].role = "SUPER_ADMIN"
Open == Cardinality(jobs) < MaxJobs /\ edits < MaxEdits
Asks(a) == Authorized(a) /\ Open

\* A request that gives an account another role than the super one, or disables it.
Deprives(job) ==
  /\ job.on \in Accounts /\ job.was # Absent
  /\ \/ job.will.role \notin {job.was.role, "SUPER_ADMIN"}
     \/ job.was.active /\ ~job.will.active

\* A request that passed its checks on what it read.
Submit(job) ==
  /\ job \notin jobs
  /\ jobs' = jobs \cup {job}
  /\ overlapped' = (overlapped \/ jobs # {})
  /\ UNCHANGED <<account, state, edits, revived>>

Edit(u, will) ==
  LET job == [on |-> u, was |-> account[u], will |-> will]
  IN /\ Submit(job)
     /\ duel' = (duel \/ (Deprives(job) /\ \E j \in jobs : Deprives(j)))

Turn(e, will) ==
  /\ Submit([on |-> e, was |-> [is |-> state[e]], will |-> [is |-> will]])
  /\ UNCHANGED duel

-----------------------------------------------------------------------------
(* Accounts *)

CreateUser(a, u) ==
  /\ Asks(a) /\ ~Exists(u)
  /\ \E role \in Roles, ward \in Districts \cup {Nil}, crew \in Departments \cup {Nil} :
       /\ On(role) /\ \A e \in {ward, crew} \ {Nil} : On(e)
       /\ role = "FIELD_WORKER" => crew # Nil
       /\ role = "WARD_REPRESENTATIVE" => ward # Nil
       /\ Edit(u, [role |-> role, active |-> TRUE, ward |-> ward,
                   crew |-> IF role = "FIELD_WORKER" THEN crew ELSE Nil,
                   seat |-> IF role = "WARD_REPRESENTATIVE" THEN ward ELSE Nil])

\* A citizen signs up: the role has to exist, whether it is enabled or not.
Register(u) ==
  /\ Open /\ ~Exists(u) /\ state["CITIZEN"] # "none"
  /\ \E w \in Districts :
       On(w) /\ Edit(u, [role |-> "CITIZEN", active |-> TRUE, ward |-> w, crew |-> Nil, seat |-> Nil])

\* Mutant: an administrator may give up his own role.
MayGetAnyRole(a, u, role) == On(role)

MayGet(a, u, role) == On(role) /\ (u = a => role = "SUPER_ADMIN")

\* The role that decides about the profile is the one before the change.
UpdateUser(a, u) ==
  /\ Asks(a) /\ Exists(u)
  /\ \E change \in Change : LET was == account[u] IN
       /\ change.role \notin {Unset, was.role} => MayGet(a, u, change.role)
       /\ \A e \in {change.ward, change.crew} \ {Unset, Nil} : On(e)
       /\ was.role = "SUPER_ADMIN" => change.active # FALSE
       \* a new profile cannot be seated nowhere
       /\ was.role = "WARD_REPRESENTATIVE" /\ was.seat = Nil => change.ward # Nil
       /\ Edit(u,
            [role |-> IF change.role = Unset THEN was.role ELSE change.role,
             active |-> IF change.active = Unset THEN was.active ELSE change.active,
             ward |-> IF change.ward = Unset THEN was.ward ELSE change.ward,
             crew |-> IF change.crew # Unset /\ (was.crew # Nil \/ was.role = "FIELD_WORKER")
                      THEN change.crew ELSE was.crew,
             seat |-> IF change.ward \in Districts /\ was.role = "WARD_REPRESENTATIVE"
                      THEN change.ward ELSE was.seat])

SetUserActive(a, u, active) ==
  /\ Asks(a) /\ Exists(u)
  /\ ~active => u # a /\ account[u].role # "SUPER_ADMIN"
  /\ Edit(u, [account[u] EXCEPT !.active = active])

UpdateFieldWorker(a, u) ==
  /\ Asks(a) /\ account[u].crew # Nil
  /\ \E d \in Departments : On(d) /\ Edit(u, [account[u] EXCEPT !.crew = d])

\* The representative's seat moves, the ward of the account does not.
UpdateRepresentative(a, u) ==
  /\ Asks(a) /\ account[u].seat # Nil
  /\ \E w \in Districts : On(w) /\ Edit(u, [account[u] EXCEPT !.seat = w])

-----------------------------------------------------------------------------
(* What can be switched off *)

Create(a, e) ==
  /\ Asks(a) /\ state[e] = "none"
  /\ Turn(e, "on")

CreateRole(a, role) == Create(a, role)
CreateWard(a, w) == Create(a, w)
CreateDepartment(a, d) == Create(a, d)
CreateComplaintCategory(a, c) == Create(a, c)
CreatePriorityWeight(a, k) == Create(a, k)

Vacant(role) ==
  /\ role # "SUPER_ADMIN"
  /\ \A u \in Accounts : account[u].active => account[u].role # role

UpdateRole(a, role) ==
  /\ Asks(a)
  /\ \/ state[role] = "off" /\ Turn(role, "on")
     \/ On(role) /\ Vacant(role) /\ Turn(role, "off")

Toggle(a, e) ==
  /\ Asks(a) /\ state[e] # "none"
  /\ Turn(e, IF On(e) THEN "off" ELSE "on")

UpdateWard(a, w) == Toggle(a, w)
UpdateDepartment(a, d) == Toggle(a, d)
UpdateComplaintCategory(a, c) == Toggle(a, c)
UpdatePriorityWeight(a, k) == Toggle(a, k)

\* The row of a setting is inserted by whoever needs it first, and stays.
Override(a, s, will) == Asks(a) /\ Turn(s, will)

UpdateConfig(a, s) == Override(a, s, "on")
ClearConfig(a, s) == Override(a, s, "off")

-----------------------------------------------------------------------------
(* The end of a request *)

\* Only the columns that changed are written.
Columns(now, job) ==
  [c \in DOMAIN now |-> IF job.will[c] = job.was[c] THEN now[c] ELSE job.will[c]]

\* An account, a profile or an entity inserted meanwhile fails the unique key.
Collides(job) ==
  IF job.on \in Accounts
  THEN LET now == account[job.on] IN
       \/ job.was = Absent /\ now # Absent
       \/ \E c \in {"crew", "seat"} : job.was[c] = Nil /\ Nil \notin {job.will[c], now[c]}
  ELSE job.was.is = "none" /\ state[job.on] # "none"

CommitEdit(job) ==
  /\ jobs' = jobs \ {job}
  /\ edits' = edits + 1
  /\ \/ Collides(job) /\ UNCHANGED <<account, state, revived>>
     \/ /\ ~Collides(job) /\ job.on \in Accounts
        /\ account' = [account EXCEPT ![job.on] = Columns(@, job)]
        /\ revived' = IF Exists(job.on) /\ ~account[job.on].active /\ account'[job.on].active
                      THEN revived \cup {job.on} ELSE revived
        /\ UNCHANGED state
     \/ /\ ~Collides(job) /\ job.on \in Entities
        /\ state' = [state EXCEPT ![job.on] = job.will.is]
        /\ UNCHANGED <<account, revived>>
  /\ UNCHANGED <<overlapped, duel>>

AdminNext ==
  \/ \E a \in Accounts :
       \/ \E u \in Accounts :
            \/ CreateUser(a, u) \/ UpdateUser(a, u)
            \/ \E active \in BOOLEAN : SetUserActive(a, u, active)
            \/ UpdateFieldWorker(a, u) \/ UpdateRepresentative(a, u)
       \/ \E r \in Roles : CreateRole(a, r) \/ UpdateRole(a, r)
       \/ \E w \in Districts : CreateWard(a, w) \/ UpdateWard(a, w)
       \/ \E d \in Departments : CreateDepartment(a, d) \/ UpdateDepartment(a, d)
       \/ \E c \in Categories : CreateComplaintCategory(a, c) \/ UpdateComplaintCategory(a, c)
       \/ \E k \in Weights : CreatePriorityWeight(a, k) \/ UpdatePriorityWeight(a, k)
       \/ \E s \in Settings : UpdateConfig(a, s) \/ ClearConfig(a, s)
  \/ \E u \in Accounts : Register(u)
  \/ \E job \in jobs : CommitEdit(job)

AdminSpec == AdminInit /\ [][AdminNext]_adminVars

-----------------------------------------------------------------------------
AdminTypeOK ==
  /\ account \in [Accounts -> Row \cup {Absent}]
  /\ state \in [Entities -> Switch]
  /\ edits \in 0..(MaxEdits + MaxJobs)
  /\ {overlapped, duel} \subseteq BOOLEAN /\ revived \subseteq Accounts

\* Somebody can always administer: an active super administrator is left, unless
\* two requests that demoted or disabled somebody overlapped; and a disabled role
\* is held by no active account but a citizen's and one that was enabled again,
\* unless requests overlapped.
RolesStaySound ==
  /\ ~duel => \E u \in Accounts : Authorized(u)
  /\ ~overlapped => \A u \in Accounts \ revived :
       account[u].active /\ account[u].role # "CITIZEN" => On(account[u].role)
=============================================================================
