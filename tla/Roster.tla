-------------------------------- MODULE Roster --------------------------------
(***************************************************************************)
(* Who works for an organization and in which departments: the User rows   *)
(* staff.service.ts, auth.service.ts and socket.gateway.ts edit, and the   *)
(* Department rows of departments.service.ts.  An edit that is one         *)
(* unconditional statement is one action; setMembers checks first and      *)
(* writes later.  Deleting a department looks at conversations and is in   *)
(* module Routing.                                                         *)
(***************************************************************************)
EXTENDS Integers, FiniteSets

CONSTANTS
  Users,     \* the organization's users
  Founder,   \* who registered it, its first admin
  MaxDeps,   \* bound: departments ever created
  MaxEdits   \* bound: edits of the roster, the settings and assignments

ASSUME RosterAssumption ==
  /\ Founder \in Users
  /\ MaxDeps \in Nat
  /\ MaxEdits \in Nat

VARIABLES
  role,      \* User.role
  active,    \* users with isActive
  online,    \* users with isOnline
  deps,      \* departments, keyed by id; ids follow createdAt
  nextDep,   \* the id the next department gets
  members,   \* the users connected to each department
  edit,      \* the two-statement edit in flight
  edits      \* number of edits begun

rosterVars == <<role, active, online, deps, nextDep, members, edit, edits>>
users == <<role, active, online>>
departments == <<deps, nextDep, members>>

DepIds == 1..MaxDeps
Departed == "none"   \* a department that does not exist
NoEdit == [op |-> "none", dep |-> 0, to |-> {}]

RosterTypeOK ==
  /\ role \in [Users -> {"ADMIN", "AGENT"}]
  /\ active \subseteq Users
  /\ online \subseteq Users
  /\ deps \in [DepIds -> {Departed, "active", "inactive"}]
  /\ nextDep \in 1..(MaxDeps + 1)
  /\ members \in [DepIds -> SUBSET Users]
  /\ edit \in [op : {"none", "members", "delete"}, dep : 0..MaxDeps, to : SUBSET Users]
  /\ edits \in 0..MaxEdits

\* An organization with some departments and agents in them; isOnline defaults
\* to true.
RosterInit ==
  /\ role = [u \in Users |-> IF u = Founder THEN "ADMIN" ELSE "AGENT"]
  /\ active = Users
  /\ online = Users
  /\ nextDep \in 1..(MaxDeps + 1)
  /\ deps = [d \in DepIds |-> IF d < nextDep THEN "active" ELSE Departed]
  /\ members \in [DepIds -> SUBSET (Users \ {Founder})]
  /\ \A d \in DepIds : deps[d] = Departed => members[d] = {}
  /\ edit = NoEdit
  /\ edits = 0

\* findMany({isActive: true}, orderBy createdAt), and the number a menu of the
\* departments S gives to one of them.
ActiveDepartments == {d \in DepIds : deps[d] = "active"}
Number(S, d) == Cardinality({e \in S : e <= d})

Agents == {u \in active : role[u] = "AGENT"}
Admins == {u \in active : role[u] = "ADMIN"}

Editing == edits < MaxEdits /\ edits' = edits + 1
-----------------------------------------------------------------------------
\* updateStaff and deactivateStaff: role, isActive.
UpdateStaff(u) ==
  /\ Editing
  /\ \/ \E r \in {"ADMIN", "AGENT"} : role' = [role EXCEPT ![u] = r] /\ UNCHANGED active
     \/ active' \in {active \union {u}, active \ {u}} /\ UNCHANGED role
  /\ UNCHANGED <<online, departments, edit>>

\* A socket connects or disconnects, or the browser reports its status.
SetOnline(u) ==
  /\ Editing
  /\ online' \in {online \union {u}, online \ {u}}
  /\ UNCHANGED <<role, active, departments, edit>>

CreateDepartment ==
  /\ Editing
  /\ nextDep \in DepIds
  /\ deps' = [deps EXCEPT ![nextDep] = "active"]
  /\ nextDep' = nextDep + 1
  /\ UNCHANGED <<users, members, edit>>

\* updateMany: nothing happens to a department that is gone.
UpdateDepartment(d) ==
  /\ Editing
  /\ deps[d] # Departed
  /\ \E s \in {"active", "inactive"} : deps' = [deps EXCEPT ![d] = s]
  /\ UNCHANGED <<users, nextDep, members, edit>>

\* All the new members are agents at the time of the check.
CheckMembers(d) ==
  /\ Editing
  /\ edit = NoEdit
  /\ deps[d] # Departed
  /\ \E S \in SUBSET {u \in Users : role[u] = "AGENT"} :
       edit' = [op |-> "members", dep |-> d, to |-> S]
  /\ UNCHANGED <<users, departments>>

\* department.update({users: {set}}) throws when the department is gone.
SetMembers ==
  /\ edit.op = "members"
  /\ members' = IF deps[edit.dep] = Departed THEN members
                ELSE [members EXCEPT ![edit.dep] = edit.to]
  /\ edit' = NoEdit
  /\ UNCHANGED <<users, deps, nextDep, edits>>

RosterEdit ==
  \/ \E u \in Users : UpdateStaff(u) \/ SetOnline(u)
  \/ CreateDepartment
  \/ \E d \in DepIds : UpdateDepartment(d) \/ CheckMembers(d)
  \/ SetMembers
=============================================================================
