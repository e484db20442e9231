----------------------------- MODULE PublicLinks -----------------------------
(***************************************************************************)
(* The public links of a project's reports (services/public_reports.py,    *)
(* routers/public_reports.py): who holds the token of one reads the report *)
(* of an execution, or of the bugs of a version, until the link is revoked *)
(* or expires.                                                             *)
(*                                                                         *)
(* A view looks the link up, renders the report and then counts itself; a  *)
(* revocation reads the link and writes it.  Unless serial, others commit  *)
(* in between.  A commit writes only what its request changed.             *)
(***************************************************************************)
EXTENDS Naturals, FiniteSets

CONSTANTS
  Workers,        \* the threads that serve requests
  Executions, Versions,
  None,           \* a column without a value
  MaxLinks,       \* bound: links
  MaxTime,        \* bound: the clock
  MaxRequests     \* bound: requests served in all

VARIABLES
  serial,     \* requests are served one at a time
  now,        \* the clock
  executions, \* table test_executions
  versions,   \* table project_versions
  links,      \* table public_reports: of each link, [kind, execution, version, expires, revoked, views]
  req,        \* what each worker is about to do
  requests,   \* requests begun so far
  issued,     \* history: of each link ever, what it was issued for
  closed,     \* history: links whose revocation was answered
  shown       \* history: of each page answered, its number, link, and what it showed

vars == <<serial, now, executions, versions, links, req, requests, issued, closed, shown>>

Idle == [op |-> "none"]
Of(kind, execution, version) == [kind |-> kind, execution |-> execution, version |-> version]

TypeOK ==
  /\ executions \subseteq Executions /\ versions \subseteq Versions /\ now \in 0 .. MaxTime
  /\ \A l \in DOMAIN links :
       /\ l \in DOMAIN issued
       /\ links[l].execution \in executions \union {None}
       /\ links[l].version \in versions \union {None}
       /\ links[l].expires \in 0 .. MaxTime + 1 /\ links[l].revoked \in BOOLEAN
       /\ links[l].views \in 0 .. MaxRequests

Init ==
  /\ serial \in BOOLEAN /\ now = 0
  /\ executions = Executions /\ versions = Versions
  /\ links = <<>> /\ req = [w \in Workers |-> Idle] /\ requests = 0
  /\ issued = <<>> /\ closed = {} /\ shown = {}

Serve(w) ==
  /\ req[w] = Idle /\ requests < MaxRequests
  /\ serial => \A v \in Workers : req[v] = Idle
  /\ requests' = requests + 1

\* A request of one step, between the steps of others.
Serves ==
  /\ requests < MaxRequests /\ requests' = requests + 1
  /\ serial => \A v \in Workers : req[v] = Idle
  /\ UNCHANGED <<serial, now, req, shown>>

Begins(w, r) ==
  /\ req' = [req EXCEPT ![w] = r]
  /\ UNCHANGED <<serial, now, executions, versions, links, issued, closed, shown>>

Ends(w) == req' = [req EXCEPT ![w] = Idle] /\ UNCHANGED <<serial, now, executions, versions, requests, issued>>

-----------------------------------------------------------------------------
\* issue: its execution must be of the project; expires is 0 for a link that never does.
Issue(kind, execution, version, expires) ==
  LET l == Cardinality(DOMAIN issued) + 1 IN
  /\ Serves
  /\ l <= MaxLinks
  /\ kind = "execution" => execution \in executions
  /\ execution \in executions \union {None} /\ version \in versions \union {None}
  /\ issued' = [i \in DOMAIN issued \union {l} |-> IF i = l THEN Of(kind, execution, version) ELSE issued[i]]
  /\ links' = [i \in DOMAIN links \union {l} |->
                 IF i # l THEN links[i]
                 ELSE [kind |-> kind, execution |-> execution, version |-> version,
                       expires |-> expires, revoked |-> FALSE, views |-> 0]]
  /\ UNCHANGED <<executions, versions, closed>>

\* revoke, which does nothing to a link that is revoked.
BeginRevoke(w, l) == Serve(w) /\ Begins(w, [op |-> "revoke", link |-> l, row |-> links[l]])

CommitRevoke(w) ==
  LET l == req[w].link IN
  /\ req[w].op = "revoke"
  /\ \/ /\ req[w].row.revoked \/ l \in DOMAIN links
        /\ links' = IF req[w].row.revoked THEN links ELSE [links EXCEPT ![l].revoked = TRUE]
        /\ closed' = closed \union {l}
     \/ ~req[w].row.revoked /\ l \notin DOMAIN links /\ UNCHANGED <<links, closed>>
  /\ Ends(w) /\ UNCHANGED shown

-----------------------------------------------------------------------------
IsActive(row) == ~row.revoked /\ (row.expires = 0 \/ row.expires > now)

\* lookup_active
Lookup(w, l) ==
  /\ Serve(w)
  /\ IsActive(links[l])
  /\ Begins(w, [op |-> "render", link |-> l, row |-> links[l]])

\* render, of what the link says: an execution that is gone answers that the report expired.
Render(w) ==
  LET row == req[w].row
      what == IF row.kind = "execution" THEN Of("execution", row.execution, None)
              ELSE Of("bug_report", None, row.version)
  IN
  /\ req[w].op = "render"
  /\ req' = [req EXCEPT ![w] =
               IF row.kind = "execution" /\ row.execution \notin executions THEN Idle
               ELSE [op |-> "view", link |-> req[w].link, row |-> row, what |-> what]]
  /\ UNCHANGED <<serial, now, executions, versions, links, requests, issued, closed, shown>>

\* Mutant: every column is written.
WritesWholeRow(row, read) == [read EXCEPT !.views = read.views + 1]

\* What record_view writes of the row as it is, having read one.
Viewed(row, read) == [row EXCEPT !.views = read.views + 1]

\* record_view; the page is answered after its commit, which fails if the link is gone.
CommitView(w) ==
  LET l == req[w].link IN
  /\ req[w].op = "view"
  /\ IF l \in DOMAIN links
     THEN /\ links' = [links EXCEPT ![l] = Viewed(links[l], req[w].row)]
          /\ shown' = shown \union {[page |-> Cardinality(shown) + 1, link |-> l, what |-> req[w].what]}
     ELSE UNCHANGED <<links, shown>>
  /\ Ends(w) /\ UNCHANGED closed

-----------------------------------------------------------------------------
\* What the foreign keys do to the links.
DeleteExecution(e) ==
  /\ Serves
  /\ executions' = executions \ {e}
  /\ links' = [l \in {i \in DOMAIN links : links[i].execution # e} |-> links[l]]
  /\ UNCHANGED <<versions, issued, closed>>

DeleteVersion(v) ==
  /\ Serves
  /\ versions' = versions \ {v}
  /\ links' = [l \in DOMAIN links |-> IF links[l].version = v THEN [links[l] EXCEPT !.version = None] ELSE links[l]]
  /\ UNCHANGED <<executions, issued, closed>>

Tick ==
  /\ now < MaxTime /\ now' = now + 1
  /\ UNCHANGED <<serial, executions, versions, links, req, requests, issued, closed, shown>>

Next ==
  \/ \E kind \in {"execution", "bug_report"}, e \in Executions \union {None}, v \in Versions \union {None} :
       \E expires \in {0, now + 1} : Issue(kind, e, v, expires)
  \/ \E w \in Workers, l \in DOMAIN links : BeginRevoke(w, l) \/ Lookup(w, l)
  \/ \E w \in Workers : CommitRevoke(w) \/ Render(w) \/ CommitView(w)
  \/ \E e \in executions : DeleteExecution(e)
  \/ \E v \in versions : DeleteVersion(v)
  \/ Tick

Spec == Init /\ [][Next]_vars

-----------------------------------------------------------------------------
\* A link whose revocation was answered is never active again, whatever views overlapped it.
RevokedStaysRevoked == \A l \in closed \intersect DOMAIN links : ~IsActive(links[l])

\* A page shows what its link was issued for, but a link of a version that was deleted shows the
\* bugs of all (TokensKeepToTheirResource).
ShowsWhatWasIssued ==
  \A s \in shown :
    LET for == issued[s.link] IN
    /\ s.what.kind = for.kind
    /\ for.kind = "execution" => s.what.execution = for.execution
    /\ for.kind = "bug_report" =>
         \/ s.what.version = for.version
         \/ s.what.version = None /\ for.version \notin versions

\* public-reports.md:31: "Tokens are scoped to a single resource. They cannot be used to access
\* any other resource", whatever is deleted meanwhile.
TokensKeepToTheirResource ==
  \A s \in shown :
    LET for == issued[s.link]
    IN s.what = IF for.kind = "execution" THEN Of("execution", for.execution, None)
                ELSE Of("bug_report", None, for.version)

\* Each page is counted where requests do not overlap; else pages are lost, never made up.
\* public-reports.md:64 says that there is no counter.
ViewsAreCounted ==
  \A l \in DOMAIN links :
    LET pages == Cardinality({s \in shown : s.link = l}) IN
    /\ links[l].views <= pages
    /\ pages > 0 => links[l].views > 0
    /\ serial => links[l].views = pages

LinksAreBounded == TypeOK /\ RevokedStaysRevoked /\ ShowsWhatWasIssued /\ ViewsAreCounted
=============================================================================
