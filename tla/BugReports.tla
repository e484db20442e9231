------------------------------ MODULE BugReports ------------------------------
(***************************************************************************)
(* The bug report and the release notes of a project                       *)
(* (services/bug_reports.py), and the mentions in what they print          *)
(* (services/mention_resolver.py, services/mention_search.py), while bugs  *)
(* change and what they refer to is deleted.                               *)
(*                                                                         *)
(* A project has one case, with a step, and one execution, with a row of   *)
(* that case; a user may be an admin, a direct member or one of a group.   *)
(***************************************************************************)
EXTENDS Naturals, FiniteSetsExt

CONSTANTS
  MaxBugs,          \* bound: bugs
  MaxVersions,      \* bound: versions of the project
  ForeignVersion,   \* a version of another project, not in 1 .. MaxVersions
  None,             \* a column without a value
  MaxRequests       \* bound: requests served in all

Severities == {"critical", "low"}
Statuses == {"open", "resolved", "closed"}
VersionStatuses == {"active", "archived"}
Kinds == {"bug", "case", "execution", "result", "step_result", "user"}

VARIABLES
  bugs,       \* table bugs: of each number, [severity, status, version, fixed, mention]
  versions,   \* table project_versions: the status of each version of the project, by creation
  created,    \* versions created so far
  things,     \* which of the case and the execution there are
  user,       \* [admin, direct, grouped, active]
  requests,   \* requests served so far
  excused     \* history: bugs whose fix has no version for a reason

vars == <<bugs, versions, created, things, user, requests, excused>>

Token(kind, id) == [kind |-> kind, id |-> id]
Tokens == {Token("bug", n) : n \in 1 .. MaxBugs} \union {Token(k, 0) : k \in Kinds \ {"bug"}}
Ids == 1 .. MaxVersions \union {ForeignVersion, None}

TypeOK ==
  /\ \A n \in DOMAIN bugs :
       /\ bugs[n].severity \in Severities /\ bugs[n].status \in Statuses
       /\ {bugs[n].version, bugs[n].fixed} \subseteq DOMAIN versions \union {ForeignVersion, None}
       /\ bugs[n].mention \in Tokens
  /\ \A v \in DOMAIN versions : v \in 1 .. created /\ versions[v] \in VersionStatuses
  /\ created \in 0 .. MaxVersions /\ requests \in 0 .. MaxRequests
  /\ things \subseteq {"case", "execution"} /\ excused \subseteq 1 .. MaxBugs

Init ==
  /\ bugs = <<>> /\ versions = <<>> /\ created = 0 /\ requests = 0 /\ excused = {}
  /\ things = {"case", "execution"}
  /\ user \in [admin : BOOLEAN, direct : BOOLEAN, grouped : BOOLEAN, active : {TRUE}]

Serve == requests < MaxRequests /\ requests' = requests + 1
With(f, k, value) == [x \in DOMAIN f \union {k} |-> IF x = k THEN value ELSE f[x]]
Without(f, k) == [x \in DOMAIN f \ {k} |-> f[x]]

-----------------------------------------------------------------------------
(* Bugs and versions.  The versions a bug names are not checked.           *)

\* create_bug; next_bug_number is one above the largest.
CreateBug(severity, version, fixed, mention) ==
  LET n == Max(DOMAIN bugs \union {0}) + 1 IN
  /\ Serve
  /\ n <= MaxBugs
  /\ {version, fixed} \subseteq DOMAIN versions \union {ForeignVersion, None}
  /\ bugs' = With(bugs, n, [severity |-> severity, status |-> "open", version |-> version,
                            fixed |-> fixed, mention |-> mention])
  /\ excused' = excused \ {n}
  /\ UNCHANGED <<versions, created, things, user>>

\* update_bug
SetFixed(n, fixed) ==
  /\ Serve
  /\ fixed \in DOMAIN versions \union {ForeignVersion, None} /\ bugs[n].fixed # fixed
  /\ bugs' = [bugs EXCEPT ![n].fixed = fixed]
  /\ excused' = IF fixed = None THEN excused \union {n} ELSE excused \ {n}
  /\ UNCHANGED <<versions, created, things, user>>

\* _latest_active_version_id
LatestActiveVersion ==
  LET active == {v \in DOMAIN versions : versions[v] = "active"} IN IF active = {} THEN None ELSE Max(active)

\* change_bug_status: a resolution without a version is of the latest active one.
ChangeStatus(n, status) ==
  LET fixed == IF status = "resolved" /\ bugs[n].fixed = None THEN LatestActiveVersion ELSE bugs[n].fixed IN
  /\ Serve
  /\ bugs' = [bugs EXCEPT ![n].status = status, ![n].fixed = fixed]
  /\ excused' = IF fixed # None THEN excused \ {n}
                ELSE IF status = "resolved" THEN excused \union {n} ELSE excused \ {n}
  /\ UNCHANGED <<versions, created, things, user>>

DeleteBug(n) ==
  /\ Serve
  /\ bugs' = Without(bugs, n)
  /\ UNCHANGED <<versions, created, things, user, excused>>

CreateVersion ==
  /\ Serve
  /\ created < MaxVersions
  /\ created' = created + 1
  /\ versions' = With(versions, created + 1, "active")
  /\ UNCHANGED <<bugs, things, user, excused>>

\* update_version
SetVersionStatus(v, status) ==
  /\ Serve
  /\ versions[v] # status
  /\ versions' = [versions EXCEPT ![v] = status]
  /\ UNCHANGED <<bugs, created, things, user, excused>>

\* delete_version: the foreign keys clear what named it.  The manual has the deletion blocked
\* while bugs or executions reference the version (versions-environments-coverage.md:23);
\* nothing in the handler looks for them.
DeleteVersion(v) ==
  LET cleared(id) == IF id = v THEN None ELSE id IN
  /\ Serve
  /\ versions' = Without(versions, v)
  /\ bugs' = [n \in DOMAIN bugs |->
                [bugs[n] EXCEPT !.version = cleared(bugs[n].version), !.fixed = cleared(bugs[n].fixed)]]
  /\ excused' = excused \union {n \in DOMAIN bugs : bugs[n].fixed = v}
  /\ UNCHANGED <<created, things, user>>

\* delete_case, delete_execution
DeleteThing(t) ==
  /\ Serve
  /\ things' = things \ {t}
  /\ UNCHANGED <<bugs, versions, created, user, excused>>

\* add_member, remove_member; update_user
ChangeUser(column) ==
  /\ Serve
  /\ user' = [user EXCEPT ![column] = ~user[column]]
  /\ UNCHANGED <<bugs, versions, created, things, excused>>

Next ==
  \/ \E severity \in Severities, version, fixed \in Ids, mention \in {Token("bug", 1), Token("result", 0)} :
       CreateBug(severity, version, fixed, mention)
  \/ \E n \in DOMAIN bugs : (\E fixed \in Ids : SetFixed(n, fixed)) \/ DeleteBug(n)
  \/ \E n \in DOMAIN bugs, status \in Statuses : ChangeStatus(n, status)
  \/ CreateVersion
  \/ \E v \in DOMAIN versions : DeleteVersion(v) \/ \E status \in VersionStatuses : SetVersionStatus(v, status)
  \/ \E t \in things : DeleteThing(t)
  \/ \E column \in {"direct", "active"} : ChangeUser(column)

Spec == Init /\ [][Next]_vars

-----------------------------------------------------------------------------
(* The reports.                                                            *)

\* _query_bugs
Reported(version) == {n \in DOMAIN bugs : version = None \/ bugs[n].version = version}

\* _build_html: a section for each severity that has bugs.
SeveritySections(version) ==
  LET shown == {bugs[n].severity : n \in Reported(version)}
  IN [s \in shown |-> {n \in Reported(version) : bugs[n].severity = s}]

\* _query_release_notes_bugs
Resolved == {n \in DOMAIN bugs : bugs[n].status = "resolved"}

\* Mutant: only versions have a section.
VersionsOnly(seen) == seen \intersect DOMAIN versions

\* _order_versions_for_release_notes: of the versions of the bugs, those of the project, and none.
SectionsOf(seen) == (seen \intersect DOMAIN versions) \union (seen \intersect {None})

ReleaseNotes ==
  [v \in SectionsOf({bugs[n].fixed : n \in Resolved}) |-> {n \in Resolved : bugs[n].fixed = v}]

-----------------------------------------------------------------------------
(* Mentions.                                                               *)

\* _resolve_one: whether what a token names is accessible.
Accessible(token) ==
  CASE token.kind = "bug" -> token.id \in DOMAIN bugs
    [] token.kind = "case" -> "case" \in things
    [] token.kind \in {"execution", "result"} -> "execution" \in things
    [] token.kind = "step_result" -> things = {"case", "execution"}
    [] token.kind = "user" -> user.direct \/ user.grouped \/ user.admin

\* What a search without text finds, up to its limit: search_results joins the case of the row,
\* search_users the active direct members.
Hits(kind) ==
  CASE kind = "bug" -> {Token(kind, n) : n \in DOMAIN bugs}
    [] kind \in {"case", "execution"} -> IF kind \in things THEN {Token(kind, 0)} ELSE {}
    [] kind \in {"result", "step_result"} ->
         IF things = {"case", "execution"} THEN {Token(kind, 0)} ELSE {}
    [] kind = "user" -> IF user.direct /\ user.active THEN {Token(kind, 0)} ELSE {}

\* _make_rich_renderer: each token of the report is resolved once, and printed as it was written
\* unless that is accessible.
Labels(version) ==
  LET seen == {bugs[n].mention : n \in Reported(version)}
  IN [t \in seen |-> IF Accessible(t) THEN "label" ELSE "raw"]

-----------------------------------------------------------------------------
\* A report has each of its bugs in one section; the notes have each resolved bug in one, unless
\* its fix is in a version of another project, not in 1 .. MaxVersions.
EachBugOnce ==
  /\ \A version \in DOMAIN versions \union {None} : \A n \in Reported(version) :
       LET sections == SeveritySections(version) IN
       Cardinality({s \in DOMAIN sections : n \in sections[s]}) = 1
  /\ \A n \in Resolved :
       Cardinality({v \in DOMAIN ReleaseNotes : n \in ReleaseNotes[v]})
         = IF bugs[n].fixed = ForeignVersion THEN 0 ELSE 1

\* A bug is resolved without a version only if there was no active one, or its version was taken
\* from it since, by its editor or by a deletion of the version, which the manual
\* (versions-environments-coverage.md:23) rules out.
UnassignedIsExplained == \A n \in Resolved : bugs[n].fixed = None => n \in excused

\* What a search offers resolves; what resolves and is not offered is a row whose case is deleted,
\* or a user who is not an active direct member.  The manual says otherwise twice: that a user who
\* was deactivated degrades to plain text (mentions.md:25), while such a user resolves; and that
\* the members and the admins are offered (mentions.md:34), while admins and those who are members
\* by a group only are not.
SearchMatchesResolution ==
  \A t \in Tokens :
    IF t \in Hits(t.kind) THEN Accessible(t)
    ELSE Accessible(t) => \/ t.kind = "result" /\ "case" \notin things
                          \/ t.kind = "user" /\ ~(user.direct /\ user.active)

\* A mention that was offered loses its label when its target is deleted, in every report.
LabelsFollow ==
  \A n \in DOMAIN bugs :
    LET t == bugs[n].mention IN
    /\ Labels(None)[t] = "raw" => Hits(t.kind) \intersect {t} = {}
    /\ t.kind = "bug" => (Labels(None)[t] = "label") = (t.id \in DOMAIN bugs)

ReportsAgree ==
  TypeOK /\ EachBugOnce /\ UnassignedIsExplained /\ SearchMatchesResolution /\ LabelsFollow
=============================================================================
