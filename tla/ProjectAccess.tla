---------------------------- MODULE ProjectAccess ----------------------------
(***************************************************************************)
(* Who may do what in one project: its members (routers/members.py), the   *)
(* group assigned to it (routers/project_groups.py, routers/groups.py),    *)
(* the transfer of its ownership (services/project_ownership.py), its      *)
(* archival and deletion (routers/projects.py), and the deletion of users  *)
(* (services/user_lifecycle.py).                                           *)
(*                                                                         *)
(* A request checks who asks and loads rows, and writes later, in one      *)
(* commit; unless serial, others commit in between.                        *)
(***************************************************************************)
EXTENDS Naturals, FiniteSetsExt

CONSTANTS
  Workers,      \* the threads that serve requests
  Users,
  Nobody,       \* no user
  Admins,       \* the users with is_admin
  MaxRows,      \* bound: rows of project_members in all
  MaxRequests   \* bound: requests served in all, one less if they may overlap

ROLE_PRIORITY == [owner |-> 3, tester |-> 2, viewer |-> 1]
VALID_ROLES == DOMAIN ROLE_PRIORITY

VARIABLES
  serial,     \* requests are served one at a time
  account,    \* table users: account[u] is "active", "inactive" or "deleted"
  project,    \* table projects: "active", "archived" or "deleted"
  members,    \* table project_members: rows [id, user, role]
  made,       \* rows inserted so far
  team,       \* table group_members: the users of the group
  grant,      \* table project_groups: the role of the group in the project, or "none"
  req,        \* what each worker is about to write
  requests,   \* requests begun so far
  let_go      \* history: there is no owner since the members API took the last one away, or the
              \* project was taken up again without one

vars == <<serial, account, project, members, made, team, grant, req, requests, let_go>>
tables == <<account, project, members, made, team, grant>>

Row(id, u, role) == [id |-> id, user |-> u, role |-> role]

\* The writes of a request: rows it adds, roles it changes by the id of the row, rows
\* it deletes, a user it deletes with all rows, and the new state of the project.
Idle == [op |-> "none", add |-> {}, set |-> {}, del |-> {}, user |-> Nobody, to |-> "same"]

TypeOK ==
  /\ account \in [Users -> {"active", "inactive", "deleted"}]
  /\ project \in {"active", "archived", "deleted"}
  /\ members \subseteq [id : 1 .. MaxRows, user : Users, role : VALID_ROLES \union {"editor"}]
  /\ \A r, s \in members : r.id = s.id => r = s
  /\ grant \in VALID_ROLES \union {"none"} /\ team \subseteq Users
  /\ made \in 0 .. MaxRows /\ requests \in 0 .. MaxRequests

\* create_project makes its author the owner.
Init ==
  /\ serial \in BOOLEAN
  /\ account = [u \in Users |-> "active"]
  /\ project = "active"
  /\ \E u \in Users : members = {Row(1, u, "owner")}
  /\ made = 1
  /\ team \in SUBSET (Users \ Admins) /\ grant = "none"
  /\ req = [w \in Workers |-> Idle] /\ requests = 0
  /\ let_go = FALSE

RowsOf(u) == {r \in members : r.user = u}
Owners == {r \in members : r.role = "owner"}

-----------------------------------------------------------------------------
(* services/permissions.py and auth/dependencies.py.                       *)

Candidates(u) ==
  {r.role : r \in RowsOf(u)} \union (IF u \in team THEN {grant} ELSE {})

\* The row of the user is asked for with scalar(), which raises if there are two.
effective_role(u) ==
  LET known == Candidates(u) \intersect VALID_ROLES
  IN IF Cardinality(RowsOf(u)) > 1 THEN "error"
     ELSE IF known = {} THEN "none"
     ELSE CHOOSE r \in known : \A s \in known : ROLE_PRIORITY[s] <= ROLE_PRIORITY[r]

\* accessible_project_ids has the project: what list_projects shows.
Accessible(u) == RowsOf(u) # {} \/ (u \in team /\ grant # "none")

\* The user's request passes authentication and require_project_owner.
MayOwn(u) == account[u] = "active" /\ (u \in Admins \/ effective_role(u) = "owner")

-----------------------------------------------------------------------------
Serve(w) ==
  /\ req[w] = Idle /\ requests < IF serial THEN MaxRequests ELSE MaxRequests - 1
  /\ serial => \A v \in Workers : req[v] = Idle
  /\ requests' = requests + 1

\* The request has loaded what it needs; these are its writes.
Begin(w, by, writes) ==
  /\ Serve(w)
  /\ project # "deleted" /\ MayOwn(by)
  /\ req' = [req EXCEPT ![w] = writes]
  /\ UNCHANGED <<serial, tables, let_go>>

\* add_member does not look at deleted_at.
AddMember(w, by, u, role) ==
  /\ RowsOf(u) = {} /\ made < MaxRows
  /\ Begin(w, by, [Idle EXCEPT !.op = "member", !.add = {[user |-> u, role |-> role]}])

\* A role that does not change is not written.
Change(r, role) == IF r.role = role THEN {} ELSE {[id |-> r.id, role |-> role]}

UpdateMember(w, by, u, role) ==
  \E r \in RowsOf(u) :
    Begin(w, by, [Idle EXCEPT !.op = "member", !.set = Change(r, role)])

RemoveMember(w, by, u) ==
  \E r \in RowsOf(u) :
    Begin(w, by, [Idle EXCEPT !.op = "member", !.del = {r.id}])

\* The writes that make u an owner: a new row, or the row that is there.
Promote(u) ==
  IF RowsOf(u) = {} THEN {[add |-> {[user |-> u, role |-> "owner"]}, set |-> {}]}
  ELSE {[add |-> {}, set |-> Change(r, "owner")] : r \in RowsOf(u)}

\* transfer_ownership takes the first owner it finds; nothing is done if that is the
\* new one.
TransferOwnership(w, by, u) ==
  /\ account[u] = "active" /\ made < MaxRows
  /\ \E p \in Promote(u) :
       \/ Owners = {} /\ Begin(w, by, [Idle EXCEPT !.op = "transfer", !.add = p.add, !.set = p.set])
       \/ \E o \in Owners :
            Begin(w, by, IF o.user = u THEN Idle
                         ELSE [Idle EXCEPT !.op = "transfer", !.add = p.add,
                                 !.set = p.set \union {[id |-> o.id, role |-> "editor"]}])

ArchiveProject(w, by) ==
  /\ project = "active"
  /\ Begin(w, by, [Idle EXCEPT !.op = "project", !.to = "archived"])

UnarchiveProject(w, by) ==
  /\ project = "archived"
  /\ Begin(w, by, [Idle EXCEPT !.op = "project", !.to = "active"])

DeleteProject(w, by) ==
  Begin(w, by, [Idle EXCEPT !.op = "project", !.to = "deleted"])

\* Mutant: any other member makes up for the owner.
OwnsWithAnyone(u) ==
  /\ \E r \in RowsOf(u) : r.role = "owner"
  /\ \A r \in members : r.user = u

\* unresolved_owned_projects: the user is the only owner, whatever else the others are.
UniquelyOwns(u) ==
  /\ \E r \in RowsOf(u) : r.role = "owner"
  /\ \A r \in Owners : r.user = u

\* soft_delete_user, by an admin or by the user.  A project the user uniquely owns is
\* archived or given to an active user, as the request says.
DeleteUser(w, u) ==
  /\ Serve(w)
  /\ account[u] # "deleted"
  /\ \/ \E a \in Admins \ {u} : account[a] = "active"
     \/ account[u] = "active"
  /\ \E writes \in
       IF project = "deleted" \/ ~UniquelyOwns(u) THEN {Idle}
       ELSE {[Idle EXCEPT !.to = IF project = "active" THEN "archived" ELSE "same"]}
            \union {[Idle EXCEPT !.add = p.add, !.set = p.set] :
                      p \in UNION {Promote(v) : v \in {x \in Users \ {u} : account[x] = "active"}}} :
       /\ made + Cardinality(writes.add) <= MaxRows
       /\ req' = [req EXCEPT ![w] = [writes EXCEPT !.op = "deleteUser", !.user = u]]
  /\ UNCHANGED <<serial, tables, let_go>>

\* A row that was to be changed has gone, or the project: the transaction is rolled back.
Conflict(r) ==
  \/ \E c \in r.set : \A m \in members : m.id # c.id
  \/ r.add # {} /\ project = "deleted"
  \/ r.to \in {"active", "archived"} /\ project = "deleted"
  \/ Cardinality(r.add) > MaxRows - made

RoleAfter(r, m) ==
  IF \E c \in r.set : c.id = m.id THEN (CHOOSE c \in r.set : c.id = m.id).role ELSE m.role

RowsAfter(r) ==
  {Row(m.id, m.user, RoleAfter(r, m)) : m \in {x \in members : x.id \notin r.del /\ x.user # r.user}}
    \union {Row(made + 1, a.user, a.role) : a \in r.add}

\* The commit.  A project that is deleted takes its rows along.
Commit(w) ==
  LET r == req[w]
  IN
  /\ r # Idle
  /\ req' = [req EXCEPT ![w] = Idle]
  /\ IF Conflict(r) THEN UNCHANGED <<tables, let_go>>
     ELSE /\ project' = IF r.to = "same" \/ project = "deleted" THEN project ELSE r.to
          /\ members' = IF r.to = "deleted" THEN {} ELSE RowsAfter(r)
          /\ made' = made + Cardinality(r.add)
          /\ grant' = IF r.to = "deleted" THEN "none" ELSE grant
          /\ account' = IF r.user = Nobody THEN account
                        ELSE [account EXCEPT ![r.user] = "deleted"]
          /\ let_go' = (/\ \A m \in RowsAfter(r) : m.role # "owner"
                        /\ let_go \/ r.to = "active" \/ (r.op = "member" /\ Owners # {}))
          /\ UNCHANGED team
  /\ UNCHANGED <<serial, requests>>

-----------------------------------------------------------------------------
(* Requests that write one row others only read: begun and committed at once. *)

\* update_user and restore_user.
SetAccount(w, u, state) ==
  /\ Serve(w)
  /\ \E a \in Admins : account[a] = "active"
  /\ \/ account[u] = "deleted" /\ state = "active"
     \/ account[u] # "deleted" /\ state \in {"active", "inactive"}
  /\ account' = [account EXCEPT ![u] = state]
  /\ UNCHANGED <<serial, project, members, made, team, grant, req, let_go>>

\* The group is assigned to the project, gets another role, or none.
SetGrant(w, by, role) ==
  /\ Serve(w)
  /\ project # "deleted" /\ MayOwn(by)
  /\ grant' = role
  /\ UNCHANGED <<serial, account, project, members, made, team, req, let_go>>

\* An admin adds a user to the group or removes one.
SetTeam(w, u) ==
  /\ Serve(w)
  /\ \E a \in Admins : account[a] = "active"
  /\ team' = IF u \in team THEN team \ {u} ELSE team \union {u}
  /\ UNCHANGED <<serial, account, project, members, made, grant, req, let_go>>

Next ==
  \E w \in Workers :
    \/ \E by, u \in Users :
         \/ \E role \in VALID_ROLES : AddMember(w, by, u, role) \/ UpdateMember(w, by, u, role)
         \/ RemoveMember(w, by, u) \/ TransferOwnership(w, by, u)
    \/ \E by \in Users :
         \/ ArchiveProject(w, by) \/ UnarchiveProject(w, by) \/ DeleteProject(w, by)
         \/ \E role \in VALID_ROLES \union {"none"} : SetGrant(w, by, role)
    \/ \E u \in Users :
         \/ DeleteUser(w, u) \/ SetTeam(w, u)
         \/ \E state \in {"active", "inactive"} : SetAccount(w, u, state)
    \/ Commit(w)

Spec == Init /\ [][Next]_vars

-----------------------------------------------------------------------------
\* user_lifecycle.py, line 1: a user is deleted "with owner-reassignment /
\* project-archive resolution".  Served one at a time, neither deletions of users nor
\* transfers leave an active project without an owner.  Its members API does, although
\* members-and-tokens.md:27 has it force a successor, and so does taking up again a project
\* that was archived for want of one; both until there is an owner again.
OwnerRemains == serial /\ project = "active" => Owners # {} \/ let_go

\* Served one at a time, a user has at most one row.
OneRowPerUser == serial => \A u \in Users : Cardinality(RowsOf(u)) <= 1

\* Served one at a time, the projects a user is shown are those the user may open, except
\* for the former owner of a transferred project, whose role "editor" no check knows.  Where
\* requests overlap a user may get two rows, and is shown a project that answers with an error.
ShownIsOpen ==
  serial => \A u \in Users :
    \/ \E r \in RowsOf(u) : r.role = "editor"
    \/ Accessible(u) <=> effective_role(u) \in VALID_ROLES

AccessAgrees == TypeOK /\ OwnerRemains /\ OneRowPerUser /\ ShownIsOpen
=============================================================================
