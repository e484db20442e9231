-------------------------------- MODULE MCBugs --------------------------------
(* What the application keeps about bugs, each behaviour one of six machines, *)
(* while the others stay as they start: the bugs of a project while requests  *)
(* overlap; its reports of bugs, served one at a time; the schema that all    *)
(* rows are kept in, as it goes up and down its revisions; the links between  *)
(* bugs; their tickets; and the notifications of a bug.                       *)
EXTENDS Naturals, FiniteSets, TLC

CONSTANTS Machines, Workers,
  BugIds, BugRequests, Titles, Environments, Retries,
  MaxBugs, MaxVersions, ForeignVersion, None, ReportRequests,
  LinkedBugs, NoTarget, MaxLinks, TicketBugs, MaxTickets, MaxMoves,
  Users, Members, Nobody, MaxRequests, MaxWindows

ASSUME BoundsAssumption ==
  /\ MaxLinks \in Nat /\ MaxTickets \in Nat /\ MaxMoves \in Nat
  /\ MaxRequests \in Nat /\ MaxWindows \in Nat
  /\ BugIds \in Nat \ {0} /\ BugRequests \in Nat /\ Retries \in Nat \ {0}
  /\ MaxBugs \in Nat /\ MaxVersions \in Nat /\ ReportRequests \in Nat
\* What the machines take for nobody, no bug, no ticket's bug or another project's version.
ASSUME NobodyAssumption ==
  /\ NoTarget \notin LinkedBugs /\ "none" \notin TicketBugs
  /\ Members \subseteq Users /\ Nobody \notin Users
ASSUME TitlesAssumption == 0 \in Titles
ASSUME WorkersAssumption == IsFiniteSet(Workers)
ASSUME VersionsAssumption ==
  ForeignVersion \notin 1 .. MaxVersions /\ None \notin 1 .. MaxVersions \union {ForeignVersion}

VARIABLES part, serial, served,
  bug, catalog, activity, serving, born, loose, crowded, died,
  reported, versions, created, things, user, excused,
  db, applied, failed,
  bugs, links, made, req, twice,
  ticket, clock, owners, integration, link, calls, unlinked, orphaned, overlapped,
  watchers, assignee, comment, preference, rows, window, telling, requests, raced

bugVars == <<bug, catalog, activity, serving, born, loose, crowded, died>>
reportVars == <<reported, versions, created, things, user, excused>>
schemaVars == <<db, applied, failed>>
linkVars == <<bugs, links, made, req, twice>>
ticketVars ==
  <<ticket, clock, owners, integration, link, calls, unlinked, orphaned, overlapped>>
notificationVars ==
  <<watchers, assignee, comment, preference, rows, window, telling, requests, raced>>
trackerVars == <<linkVars, ticketVars, notificationVars>>
vars == <<part, serial, served, bugVars, reportVars, schemaVars, trackerVars>>

B == INSTANCE BugTracker WITH
  Bugs <- 1 .. BugIds, MaxRequests <- BugRequests, requests <- served, req <- serving
R == INSTANCE BugReports WITH MaxRequests <- ReportRequests, requests <- served, bugs <- reported
M == INSTANCE Migrations
L == INSTANCE BugLinks WITH Bugs <- LinkedBugs, NoBug <- NoTarget
T == INSTANCE ExternalTickets WITH Bugs <- TicketBugs, bugs <- owners, req <- calls
N == INSTANCE BugNotifications WITH req <- telling

Init ==
  /\ part \in Machines
  /\ B!Init /\ R!Init /\ M!Init /\ L!Init /\ T!Init /\ N!Init
  /\ part # "reports" => user.admin /\ user.direct /\ user.grouped
  /\ part \notin {"bugs", "links"} => serial

BugStep ==
  /\ part = "bugs" /\ B!Next
  /\ UNCHANGED <<part, serial, reportVars, schemaVars, trackerVars>>
ReportStep ==
  /\ part = "reports" /\ R!Next
  /\ UNCHANGED <<part, serial, bugVars, schemaVars, trackerVars>>
SchemaStep ==
  /\ part = "schema" /\ M!Next
  /\ UNCHANGED <<part, serial, served, bugVars, reportVars, trackerVars>>
LinkStep ==
  /\ part = "links" /\ L!Next
  /\ UNCHANGED <<part, serial, served, bugVars, reportVars, schemaVars, ticketVars, notificationVars>>
TicketStep ==
  /\ part = "tickets" /\ T!Next
  /\ UNCHANGED <<part, serial, served, bugVars, reportVars, schemaVars, linkVars, notificationVars>>
NotificationStep ==
  /\ part = "notifications" /\ N!Next
  /\ UNCHANGED <<part, serial, served, bugVars, reportVars, schemaVars, linkVars, ticketVars>>

Next ==
  BugStep \/ ReportStep \/ SchemaStep \/ LinkStep \/ TicketStep \/ NotificationStep

Spec == Init /\ [][Next]_vars

BugSymmetry == Permutations(Workers)
TrackerSymmetry == Permutations(Workers) \union Permutations(Members)

-----------------------------------------------------------------------------
\* Bugs, their numbers, the environment catalogue and the activity log agree.
BugsAgree == part = "bugs" => B!RowsAgree /\ B!StatusIsLogged /\ B!EditsAreLogged
\* Reports and release notes place each bug once, and mentions match what there is.
ReportsAgree == part = "reports" => R!ReportsAgree
\* The revisions go up and down on data, and end at what the models declare.
SchemaHolds == part = "schema" => M!SchemaHolds
\* A link has its mirror, a remote ticket its local link, and what was deleted stays so.
LinksAgree == L!LinksAgree /\ T!LinksAndTickets
\* No step drops the link to a ticket but for its bug, or sets its status back.
LinksKeepHistory == T!LinksKeepHistory
\* Watchers are told of a bug, once, and not of what they do themselves.
NotificationsAgree == part = "notifications" => N!NotificationsAgree
=============================================================================
