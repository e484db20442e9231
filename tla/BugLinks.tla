------------------------------- MODULE BugLinks -------------------------------
(***************************************************************************)
(* Links between bugs (routers/bugs.py, add_link and delete_link).  A link *)
(* of a kind is a pair of rows, one on each bug, that nothing ties but     *)
(* their values: delete_link looks the other one up.                       *)
(***************************************************************************)
EXTENDS Naturals, FiniteSets

CONSTANTS
  Workers,      \* the threads that serve requests
  Bugs,
  NoBug,        \* NULL in target_bug_id
  MaxLinks      \* bound: rows of bug_links in all

RECIPROCAL_LINK_KIND ==
  [relates_to |-> "relates_to", blocks |-> "blocked_by",
   blocked_by |-> "blocks", duplicate_of |-> "duplicate_of"]
Kinds == DOMAIN RECIPROCAL_LINK_KIND

VARIABLES
  serial,   \* requests are served one at a time
  bugs,     \* the bugs there are
  links,    \* table bug_links: rows [id, bug, kind, target]
  made,     \* rows inserted so far
  req,      \* the rows each delete_link is about to delete
  twice     \* history: a pair has been linked that was linked already

vars == <<serial, bugs, links, made, req, twice>>

Row(id, b, k, t) == [id |-> id, bug |-> b, kind |-> k, target |-> t]

TypeOK ==
  /\ bugs \subseteq Bugs
  /\ links \subseteq [id : 1 .. MaxLinks, bug : bugs, kind : Kinds, target : bugs \union {NoBug}]
  /\ made \in 0 .. MaxLinks
  /\ \A w \in Workers : Cardinality(req[w]) <= 2

Init ==
  /\ serial \in BOOLEAN
  /\ bugs = Bugs /\ links = {} /\ made = 0 /\ twice = FALSE
  /\ req = [w \in Workers |-> {}]

MayServe(w) == req[w] = {} /\ (serial => \A v \in Workers : req[v] = {})

\* Both rows in one commit.
AddLink(w, b, k, t) ==
  /\ MayServe(w)
  /\ {b, t} \subseteq bugs /\ made + 2 <= MaxLinks
  /\ twice' = (twice \/ \E l \in links : l.bug = b /\ l.kind = k /\ l.target = t)
  /\ links' = links \union {Row(made + 1, b, k, t),
                            Row(made + 2, t, RECIPROCAL_LINK_KIND[k], b)}
  /\ made' = made + 2
  /\ UNCHANGED <<serial, bugs, req>>

\* _find_reciprocal_link takes any of these.
Reciprocals(l) ==
  {r \in links : /\ r.bug = l.target /\ r.target = l.bug
                 /\ r.kind = RECIPROCAL_LINK_KIND[l.kind]}

BeginDeleteLink(w, l) ==
  /\ MayServe(w)
  /\ \/ Reciprocals(l) = {} /\ req' = [req EXCEPT ![w] = {l.id}]
     \/ \E r \in Reciprocals(l) : req' = [req EXCEPT ![w] = {l.id, r.id}]
  /\ UNCHANGED <<serial, bugs, links, made, twice>>

\* A row that is already gone is passed over.
CommitDeleteLink(w) ==
  /\ req[w] # {}
  /\ links' = {l \in links : l.id \notin req[w]}
  /\ req' = [req EXCEPT ![w] = {}]
  /\ UNCHANGED <<serial, bugs, made, twice>>

\* delete_bug: the rows of the bug go with it, those that point at it lose their target.
Unlinked(b) ==
  {IF l.target = b THEN Row(l.id, l.bug, l.kind, NoBug) ELSE l :
     l \in {m \in links : m.bug # b}}

DeleteBug(w, b) ==
  /\ MayServe(w)
  /\ b \in bugs
  /\ bugs' = bugs \ {b}
  /\ links' = Unlinked(b)
  /\ UNCHANGED <<serial, made, req, twice>>

Die(w) ==
  /\ req[w] # {}
  /\ req' = [req EXCEPT ![w] = {}]
  /\ UNCHANGED <<serial, bugs, links, made, twice>>

Next ==
  \E w \in Workers :
    \/ \E b, t \in Bugs, k \in Kinds : AddLink(w, b, k, t)
    \/ \E l \in links : BeginDeleteLink(w, l)
    \/ CommitDeleteLink(w)
    \/ \E b \in Bugs : DeleteBug(w, b)
    \/ Die(w)

Spec == Init /\ [][Next]_vars

-----------------------------------------------------------------------------
Count(b, k, t) == Cardinality({l \in links : l.bug = b /\ l.kind = k /\ l.target = t})

\* A bug that links another is linked back as often, with the reciprocal kind.  Two
\* overlapping deletions break this only for a pair that was linked twice: both may
\* then find the same row for the other side.
LinksReciprocal ==
  serial \/ ~twice =>
    \A b, t \in bugs, k \in Kinds : Count(b, k, t) = Count(t, RECIPROCAL_LINK_KIND[k], b)

LinksAgree == TypeOK /\ LinksReciprocal
=============================================================================
