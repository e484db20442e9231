------------------------------ MODULE BugsProofs ------------------------------
(***************************************************************************)
(* Theorems about bugs, their reports, and what surrounds a bug.           *)
(***************************************************************************)
EXTENDS MCBugs, Sequences, FiniteSetTheorems, NaturalsInduction, WellFoundedInduction, TLAPS

-----------------------------------------------------------------------------
(* Reports. *)

\* A set of numbers up to a bound has a greatest.
LEMMA GreatestFound ==
  ASSUME NEW bound \in Nat, NEW set \in SUBSET (0 .. bound), set # {}
  PROVE  \E m \in set : \A k \in set : m >= k
<1>1. PICK rest : rest = {bound - k : k \in set}
  OBVIOUS
<1>2. rest \subseteq Nat /\ rest # {}
  <2>1. \A k \in set : k \in 0 .. bound
    OBVIOUS
  <2>2. \A k \in 0 .. bound : bound - k \in Nat
    OBVIOUS
  <2>3. \A r \in rest : r \in Nat
    BY <1>1, <2>1, <2>2
  <2>4. PICK k \in set : TRUE
    OBVIOUS
  <2>5. bound - k \in rest
    BY <1>1, <2>4
  <2> QED
    BY <2>3, <2>5
<1>3. PICK n \in rest : \A k \in rest : <<k, n>> \notin OpToRel(<, Nat)
  BY <1>2, WFMin, NatLessThanWellFounded, Zenon
<1>4. \A k \in rest : ~(k < n)
  BY <1>2, <1>3, Zenon DEF OpToRel
<1>5. PICK m \in set : n = bound - m
  BY <1>1
<1>6. \A k \in set : bound - k \in rest
  BY <1>1
<1>7. \A k \in set : ~(bound - k < bound - m)
  BY <1>4, <1>5, <1>6
<1>8. \A k \in set : m >= k
  BY <1>7
<1> QED
  BY <1>8

\* What the model takes for the greatest is that.
LEMMA GreatestIsMax ==
  ASSUME NEW bound \in Nat, NEW set \in SUBSET (0 .. bound), set # {}
  PROVE  R!Max(set) \in set /\ \A k \in set : R!Max(set) >= k
  BY GreatestFound DEF R!Max

BugRecords ==
  [severity : R!Severities, status : R!Statuses, version : R!Ids, fixed : R!Ids, mention : R!Tokens]

\* The tables are tables.
ReportRowsTyped ==
  /\ DOMAIN reported \subseteq 1 .. MaxBugs
  /\ reported \in [DOMAIN reported -> BugRecords]
  /\ versions \in [DOMAIN versions -> R!VersionStatuses]

ReportsInd == R!TypeOK /\ ReportRowsTyped /\ R!UnassignedIsExplained

\* The library and the model of reports count alike.
LEMMA SameSizeOfReports == \A set : R!Cardinality(set) = Cardinality(set)
  BY DEF R!Cardinality, Cardinality

\* The invariant holds at the start.
LEMMA ReportsInit == R!Init => ReportsInd
<1> SUFFICES ASSUME R!Init PROVE ReportsInd
  OBVIOUS
<1>1. /\ reported = <<>> /\ versions = <<>> /\ created = 0 /\ served = 0 /\ excused = {}
      /\ things = {"case", "execution"}
  BY DEF R!Init
<1>2. DOMAIN reported = {} /\ DOMAIN versions = {}
  BY <1>1
<1>3. R!TypeOK
  BY <1>1, <1>2, BoundsAssumption DEF R!TypeOK
<1>4. reported \in [DOMAIN reported -> BugRecords] /\ versions \in [DOMAIN versions -> R!VersionStatuses]
  BY <1>1, <1>2
<1>5. R!UnassignedIsExplained
  BY <1>2 DEF R!UnassignedIsExplained, R!Resolved
<1> QED
  BY <1>2, <1>3, <1>4, <1>5 DEF ReportsInd, ReportRowsTyped

\* A step of another machine.
LEMMA ReportsStill == ReportsInd /\ UNCHANGED <<served, reportVars>> => ReportsInd'
  BY DEF ReportsInd, ReportRowsTyped, R!TypeOK, R!UnassignedIsExplained, R!Resolved, reportVars

\* A request is counted.
LEMMA ReportServed == ReportsInd /\ R!Serve => served' \in 0 .. ReportRequests
  BY BoundsAssumption DEF R!Serve, ReportsInd, R!TypeOK

\* create_bug: the next number is that of no bug, and within the bound.
LEMMA ReportedBugCreated ==
  ASSUME ReportsInd, NEW severity \in R!Severities, NEW version \in R!Ids, NEW fixed \in R!Ids,
         NEW mention \in {R!Token("bug", 1), R!Token("result", 0)},
         R!CreateBug(severity, version, fixed, mention)
  PROVE  ReportsInd'
<1>1. PICK n : n = R!Max(DOMAIN reported \union {0}) + 1
  OBVIOUS
<1>2. PICK row : row = [severity |-> severity, status |-> "open", version |-> version,
                        fixed |-> fixed, mention |-> mention]
  OBVIOUS
<1>3. /\ served' \in 0 .. ReportRequests /\ n <= MaxBugs
      /\ {version, fixed} \subseteq DOMAIN versions \union {ForeignVersion, None}
      /\ reported' = R!With(reported, n, row) /\ excused' = excused \ {n}
      /\ UNCHANGED <<versions, created, things, user>>
  BY <1>1, <1>2, ReportServed DEF R!CreateBug
<1>4. n \in 1 .. MaxBugs
  <2>1. DOMAIN reported \union {0} \in SUBSET (0 .. MaxBugs)
    BY BoundsAssumption DEF ReportsInd, ReportRowsTyped
  <2>2. R!Max(DOMAIN reported \union {0}) \in 0 .. MaxBugs
    BY <2>1, BoundsAssumption, GreatestIsMax
  <2> QED
    BY <1>1, <1>3, <2>2, BoundsAssumption
<1>5. mention \in R!Tokens
  <2>1. 1 \in 1 .. MaxBugs /\ "result" \in R!Kinds \ {"bug"}
    BY <1>4, BoundsAssumption DEF R!Kinds
  <2> QED
    BY <2>1 DEF R!Tokens
<1>6. row \in BugRecords /\ row.status = "open" /\ row.fixed = fixed /\ row.version = version
        /\ row.mention = mention /\ row.severity = severity
  BY <1>2, <1>5 DEF BugRecords, R!Statuses
<1>7. /\ DOMAIN reported' = DOMAIN reported \union {n} /\ reported'[n] = row
      /\ \A k \in DOMAIN reported : k # n => reported'[k] = reported[k]
      /\ reported' \in [DOMAIN reported' -> BugRecords]
  <2>1. reported \in [DOMAIN reported -> BugRecords]
    BY DEF ReportsInd, ReportRowsTyped
  <2> QED
    BY <1>3, <1>6, <2>1 DEF R!With
<1>8. ReportRowsTyped'
  BY <1>3, <1>4, <1>7 DEF ReportsInd, ReportRowsTyped
<1>9. R!TypeOK'
  <2>1. \A k \in DOMAIN reported' :
          /\ reported'[k].severity \in R!Severities /\ reported'[k].status \in R!Statuses
          /\ {reported'[k].version, reported'[k].fixed} \subseteq DOMAIN versions' \union {ForeignVersion, None}
          /\ reported'[k].mention \in R!Tokens
    BY <1>3, <1>5, <1>6, <1>7 DEF ReportsInd, R!TypeOK, R!Statuses
  <2> QED
    BY <1>3, <2>1 DEF ReportsInd, R!TypeOK
<1>10. R!UnassignedIsExplained'
  <2>1. SUFFICES ASSUME NEW k \in DOMAIN reported', reported'[k].status = "resolved",
                        reported'[k].fixed = None
                 PROVE k \in excused'
    BY DEF R!UnassignedIsExplained, R!Resolved
  <2>2. k # n
    BY <1>6, <1>7, <2>1
  <2>3. k \in DOMAIN reported /\ reported[k].status = "resolved" /\ reported[k].fixed = None
    BY <1>7, <2>1, <2>2
  <2>4. k \in excused
    BY <2>3 DEF ReportsInd, R!UnassignedIsExplained, R!Resolved
  <2> QED
    BY <1>3, <2>2, <2>4
<1> QED
  BY <1>8, <1>9, <1>10 DEF ReportsInd

\* A bug is rewritten: it stays of the tables, and is excused if it has no version.
LEMMA ReportedBugWritten ==
  ASSUME ReportsInd, NEW n \in DOMAIN reported, NEW row \in BugRecords,
         reported' = [reported EXCEPT ![n] = row],
         {row.version, row.fixed} \subseteq DOMAIN versions \union {ForeignVersion, None},
         row.status = "resolved" /\ row.fixed = None => n \in excused',
         \A k \in 1 .. MaxBugs : k # n => (k \in excused' <=> k \in excused),
         excused' \subseteq 1 .. MaxBugs,
         served' \in 0 .. ReportRequests,
         UNCHANGED <<versions, created, things>>
  PROVE  ReportsInd'
<1>1. /\ DOMAIN reported' = DOMAIN reported /\ reported'[n] = row
      /\ \A k \in DOMAIN reported : k # n => reported'[k] = reported[k]
      /\ reported' \in [DOMAIN reported' -> BugRecords]
  <2>1. reported \in [DOMAIN reported -> BugRecords]
    BY DEF ReportsInd, ReportRowsTyped
  <2> QED
    BY <2>1
<1>2. ReportRowsTyped'
  BY <1>1 DEF ReportsInd, ReportRowsTyped
<1>3. row.severity \in R!Severities /\ row.status \in R!Statuses /\ row.mention \in R!Tokens
  BY DEF BugRecords
<1>4. R!TypeOK'
  <2>1. \A k \in DOMAIN reported' :
          /\ reported'[k].severity \in R!Severities /\ reported'[k].status \in R!Statuses
          /\ {reported'[k].version, reported'[k].fixed} \subseteq DOMAIN versions' \union {ForeignVersion, None}
          /\ reported'[k].mention \in R!Tokens
    BY <1>1, <1>3 DEF ReportsInd, R!TypeOK
  <2> QED
    BY <2>1 DEF ReportsInd, R!TypeOK
<1>5. R!UnassignedIsExplained'
  <2>1. SUFFICES ASSUME NEW k \in DOMAIN reported', reported'[k].status = "resolved",
                        reported'[k].fixed = None
                 PROVE k \in excused'
    BY DEF R!UnassignedIsExplained, R!Resolved
  <2>2. CASE k = n
    BY <1>1, <2>1, <2>2
  <2>3. CASE k # n
    <3>1. k \in DOMAIN reported /\ reported[k].status = "resolved" /\ reported[k].fixed = None
      BY <1>1, <2>1, <2>3
    <3>2. k \in excused /\ k \in 1 .. MaxBugs
      BY <3>1 DEF ReportsInd, ReportRowsTyped, R!UnassignedIsExplained, R!Resolved
    <3> QED
      BY <2>3, <3>2
  <2> QED
    BY <2>2, <2>3
<1> QED
  BY <1>2, <1>4, <1>5 DEF ReportsInd

\* update_bug
LEMMA FixedSet ==
  ASSUME ReportsInd, NEW n \in DOMAIN reported, NEW fixed \in R!Ids, R!SetFixed(n, fixed)
  PROVE  ReportsInd'
<1>1. reported \in [DOMAIN reported -> BugRecords] /\ reported[n] \in BugRecords
        /\ n \in 1 .. MaxBugs
  BY DEF ReportsInd, ReportRowsTyped
<1>2. PICK row : row = [reported[n] EXCEPT !.fixed = fixed]
  OBVIOUS
<1>3. row \in BugRecords /\ row.fixed = fixed /\ row.version = reported[n].version
  BY <1>1, <1>2 DEF BugRecords
<1>4. /\ served' \in 0 .. ReportRequests
      /\ fixed \in DOMAIN versions \union {ForeignVersion, None}
      /\ excused' = IF fixed = None THEN excused \union {n} ELSE excused \ {n}
      /\ reported' = [reported EXCEPT ![n].fixed = fixed]
      /\ UNCHANGED <<versions, created, things>>
  BY ReportServed DEF R!SetFixed
<1>5. reported' = [reported EXCEPT ![n] = row]
  BY <1>1, <1>2, <1>4
<1>6. reported[n].version \in DOMAIN versions \union {ForeignVersion, None} /\ excused \subseteq 1 .. MaxBugs
  BY DEF ReportsInd, R!TypeOK
<1>7. row.status = "resolved" /\ row.fixed = None => n \in excused'
  BY <1>3, <1>4
<1>8. excused' \subseteq 1 .. MaxBugs /\ \A k \in 1 .. MaxBugs : k # n => (k \in excused' <=> k \in excused)
  BY <1>1, <1>4, <1>6
<1>9. {row.version, row.fixed} \subseteq DOMAIN versions \union {ForeignVersion, None}
  BY <1>3, <1>4, <1>6
<1> QED
  BY <1>3, <1>4, <1>5, <1>7, <1>8, <1>9, ReportedBugWritten

\* change_bug_status: what resolves a bug gives it a version if there is an active one.
LEMMA ReportedStatusChanged ==
  ASSUME ReportsInd, NEW n \in DOMAIN reported, NEW status \in R!Statuses, R!ChangeStatus(n, status)
  PROVE  ReportsInd'
<1>1. reported \in [DOMAIN reported -> BugRecords] /\ reported[n] \in BugRecords
        /\ n \in 1 .. MaxBugs
  BY DEF ReportsInd, ReportRowsTyped
<1>2. PICK fixed : fixed = IF status = "resolved" /\ reported[n].fixed = None
                           THEN R!LatestActiveVersion ELSE reported[n].fixed
  OBVIOUS
<1>3. PICK row : row = [reported[n] EXCEPT !.status = status, !.fixed = fixed]
  OBVIOUS
<1>4. /\ served' \in 0 .. ReportRequests
      /\ reported' = [reported EXCEPT ![n].status = status, ![n].fixed = fixed]
      /\ excused' = IF fixed # None THEN excused \ {n}
                    ELSE IF status = "resolved" THEN excused \union {n} ELSE excused \ {n}
      /\ UNCHANGED <<versions, created, things>>
  BY <1>2, ReportServed DEF R!ChangeStatus
<1>5. R!LatestActiveVersion \in DOMAIN versions \union {None}
  <2>1. PICK active : active = {v \in DOMAIN versions : versions[v] = "active"}
    OBVIOUS
  <2>2. active \in SUBSET (0 .. MaxVersions) /\ active \subseteq DOMAIN versions
    <3>1. created \in 0 .. MaxVersions /\ \A v \in DOMAIN versions : v \in 1 .. created
      BY DEF ReportsInd, R!TypeOK
    <3> QED
      BY <2>1, <3>1, BoundsAssumption
  <2>3. active # {} => R!Max(active) \in active
    BY <2>2, BoundsAssumption, GreatestIsMax
  <2> QED
    BY <2>1, <2>2, <2>3 DEF R!LatestActiveVersion
<1>6. /\ reported[n].version \in DOMAIN versions \union {ForeignVersion, None}
      /\ reported[n].fixed \in DOMAIN versions \union {ForeignVersion, None}
      /\ excused \subseteq 1 .. MaxBugs
  BY DEF ReportsInd, R!TypeOK
<1>7. fixed \in DOMAIN versions \union {ForeignVersion, None}
  BY <1>2, <1>5, <1>6
<1>8. fixed \in R!Ids
  <2>1. created \in 0 .. MaxVersions /\ \A v \in DOMAIN versions : v \in 1 .. created
    BY DEF ReportsInd, R!TypeOK
  <2>2. \A v \in DOMAIN versions : v \in 1 .. MaxVersions
    BY <2>1, BoundsAssumption
  <2> QED
    BY <1>7, <2>2 DEF R!Ids
<1>9. row \in BugRecords /\ row.fixed = fixed /\ row.version = reported[n].version /\ row.status = status
  BY <1>1, <1>3, <1>8 DEF BugRecords
<1>10. reported' = [reported EXCEPT ![n] = row]
  BY <1>1, <1>3, <1>4
<1>11. row.status = "resolved" /\ row.fixed = None => n \in excused'
  BY <1>4, <1>9
<1>12. excused' \subseteq 1 .. MaxBugs /\ \A k \in 1 .. MaxBugs : k # n => (k \in excused' <=> k \in excused)
  BY <1>1, <1>4, <1>6
<1>13. {row.version, row.fixed} \subseteq DOMAIN versions \union {ForeignVersion, None}
  BY <1>6, <1>7, <1>9
<1> QED
  BY <1>4, <1>9, <1>10, <1>11, <1>12, <1>13, ReportedBugWritten

\* A bug is deleted.
LEMMA ReportedBugDeleted ==
  ASSUME ReportsInd, NEW n \in DOMAIN reported, R!DeleteBug(n)
  PROVE  ReportsInd'
<1>1. served' \in 0 .. ReportRequests /\ reported' = R!Without(reported, n)
        /\ UNCHANGED <<versions, created, things, excused>>
  BY ReportServed DEF R!DeleteBug
<1>2. /\ DOMAIN reported' = DOMAIN reported \ {n}
      /\ \A k \in DOMAIN reported' : reported'[k] = reported[k]
      /\ reported' \in [DOMAIN reported' -> BugRecords]
  BY <1>1 DEF R!Without, ReportsInd, ReportRowsTyped
<1>3. ReportRowsTyped'
  BY <1>1, <1>2 DEF ReportsInd, ReportRowsTyped
<1>4. R!TypeOK'
  BY <1>1, <1>2 DEF ReportsInd, R!TypeOK
<1>5. R!UnassignedIsExplained'
  BY <1>1, <1>2 DEF ReportsInd, R!UnassignedIsExplained, R!Resolved
<1> QED
  BY <1>3, <1>4, <1>5 DEF ReportsInd

\* create_version: the next number, which no row names yet.
LEMMA ReportedVersionCreated ==
  ASSUME ReportsInd, R!CreateVersion
  PROVE  ReportsInd'
<1>1. /\ served' \in 0 .. ReportRequests /\ created < MaxVersions /\ created' = created + 1
      /\ versions' = R!With(versions, created + 1, "active")
      /\ UNCHANGED <<reported, things, excused>>
  BY ReportServed DEF R!CreateVersion
<1>2. /\ DOMAIN versions' = DOMAIN versions \union {created + 1}
      /\ versions' \in [DOMAIN versions' -> R!VersionStatuses]
      /\ \A v \in DOMAIN versions' : versions'[v] \in R!VersionStatuses
  BY <1>1 DEF R!With, R!VersionStatuses, ReportsInd, ReportRowsTyped
<1>3. created \in 0 .. MaxVersions /\ \A v \in DOMAIN versions : v \in 1 .. created
  BY DEF ReportsInd, R!TypeOK
<1>4. created' \in 0 .. MaxVersions /\ \A v \in DOMAIN versions' : v \in 1 .. created'
  BY <1>1, <1>2, <1>3, BoundsAssumption
<1>5. R!TypeOK'
  BY <1>1, <1>2, <1>4 DEF ReportsInd, R!TypeOK
<1>6. ReportRowsTyped' /\ R!UnassignedIsExplained'
  BY <1>1, <1>2 DEF ReportsInd, ReportRowsTyped, R!UnassignedIsExplained, R!Resolved
<1> QED
  BY <1>5, <1>6 DEF ReportsInd

\* update_version
LEMMA VersionStatusSet ==
  ASSUME ReportsInd, NEW v \in DOMAIN versions, NEW status \in R!VersionStatuses,
         R!SetVersionStatus(v, status)
  PROVE  ReportsInd'
<1>1. /\ served' \in 0 .. ReportRequests
      /\ versions' = [versions EXCEPT ![v] = status]
      /\ UNCHANGED <<reported, created, things, excused>>
  BY ReportServed DEF R!SetVersionStatus
<1>2. /\ DOMAIN versions' = DOMAIN versions
      /\ versions' \in [DOMAIN versions' -> R!VersionStatuses]
  BY <1>1 DEF ReportsInd, ReportRowsTyped
<1>3. R!TypeOK'
  BY <1>1, <1>2 DEF ReportsInd, R!TypeOK
<1>4. ReportRowsTyped' /\ R!UnassignedIsExplained'
  BY <1>1, <1>2 DEF ReportsInd, ReportRowsTyped, R!UnassignedIsExplained, R!Resolved
<1> QED
  BY <1>3, <1>4 DEF ReportsInd

\* delete_version: what named the version names none, for that reason.
LEMMA ReportedVersionDeleted ==
  ASSUME ReportsInd, NEW v \in DOMAIN versions, R!DeleteVersion(v)
  PROVE  ReportsInd'
<1> DEFINE cleared(id) == IF id = v THEN None ELSE id
<1>1. /\ served' \in 0 .. ReportRequests
      /\ versions' = R!Without(versions, v)
      /\ reported' = [n \in DOMAIN reported |->
                        [reported[n] EXCEPT !.version = cleared(reported[n].version),
                                            !.fixed = cleared(reported[n].fixed)]]
      /\ excused' = excused \union {n \in DOMAIN reported : reported[n].fixed = v}
      /\ UNCHANGED <<created, things>>
  BY ReportServed DEF R!DeleteVersion
<1>2. /\ DOMAIN versions' = DOMAIN versions \ {v}
      /\ versions' \in [DOMAIN versions' -> R!VersionStatuses]
      /\ \A w \in DOMAIN versions' : versions'[w] = versions[w]
  BY <1>1 DEF R!Without, ReportsInd, ReportRowsTyped
<1>3. v \notin {ForeignVersion, None}
  <2>1. v \in 1 .. MaxVersions
    BY BoundsAssumption DEF ReportsInd, R!TypeOK
  <2> QED
    BY <2>1, VersionsAssumption
<1>4. DOMAIN reported' = DOMAIN reported
  BY <1>1
<1>5. ASSUME NEW n \in DOMAIN reported
      PROVE  /\ reported'[n] \in BugRecords
             /\ reported'[n].severity = reported[n].severity /\ reported'[n].status = reported[n].status
             /\ reported'[n].mention = reported[n].mention
             /\ reported'[n].version = cleared(reported[n].version)
             /\ reported'[n].fixed = cleared(reported[n].fixed)
  <2>1. reported[n] \in BugRecords
    BY DEF ReportsInd, ReportRowsTyped
  <2>2. PICK row : row = [reported[n] EXCEPT !.version = cleared(reported[n].version),
                                             !.fixed = cleared(reported[n].fixed)]
    OBVIOUS
  <2>3. reported'[n] = row
    BY <1>1, <2>2
  <2>4. cleared(reported[n].version) \in R!Ids /\ cleared(reported[n].fixed) \in R!Ids
    BY <2>1 DEF BugRecords, R!Ids
  <2> HIDE DEF cleared
  <2>5. /\ row \in BugRecords
        /\ row.severity = reported[n].severity /\ row.status = reported[n].status
        /\ row.mention = reported[n].mention
        /\ row.version = cleared(reported[n].version) /\ row.fixed = cleared(reported[n].fixed)
    BY <2>1, <2>2, <2>4 DEF BugRecords
  <2> QED
    BY <2>3, <2>5
<1>6. ReportRowsTyped'
  <2>1. reported' \in [DOMAIN reported' -> BugRecords]
    <3>1. \A n \in DOMAIN reported : reported'[n] \in BugRecords
      BY <1>5
    <3>2. reported' = [n \in DOMAIN reported |-> reported'[n]]
      BY <1>1
    <3> QED
      BY <1>4, <3>1, <3>2
  <2> QED
    BY <1>2, <1>4, <2>1 DEF ReportsInd, ReportRowsTyped
<1>7. R!TypeOK'
  <2>1. \A n \in DOMAIN reported' :
          /\ reported'[n].severity \in R!Severities /\ reported'[n].status \in R!Statuses
          /\ {reported'[n].version, reported'[n].fixed} \subseteq DOMAIN versions' \union {ForeignVersion, None}
          /\ reported'[n].mention \in R!Tokens
    BY <1>2, <1>4, <1>5 DEF ReportsInd, R!TypeOK
  <2>2. excused' \subseteq 1 .. MaxBugs
    BY <1>1 DEF ReportsInd, R!TypeOK, ReportRowsTyped
  <2> QED
    BY <1>1, <1>2, <2>1, <2>2 DEF ReportsInd, R!TypeOK
<1>8. R!UnassignedIsExplained'
  <2>1. SUFFICES ASSUME NEW n \in DOMAIN reported, reported'[n].status = "resolved",
                        reported'[n].fixed = None
                 PROVE n \in excused'
    BY <1>4 DEF R!UnassignedIsExplained, R!Resolved
  <2>2. reported[n].status = "resolved" /\ (reported[n].fixed = v \/ reported[n].fixed = None)
    BY <1>5, <2>1
  <2> QED
    BY <1>1, <2>2 DEF ReportsInd, R!UnassignedIsExplained, R!Resolved
<1> QED
  BY <1>6, <1>7, <1>8 DEF ReportsInd

\* A case or an execution is deleted, or the user changes: no bug does.
LEMMA SurroundingsChange ==
  ASSUME ReportsInd, (\E t \in things : R!DeleteThing(t)) \/ (\E column \in {"direct", "active"} : R!ChangeUser(column))
  PROVE  ReportsInd'
<1>1. served' \in 0 .. ReportRequests /\ things' \subseteq things /\ UNCHANGED <<reported, versions, created, excused>>
  BY ReportServed DEF R!DeleteThing, R!ChangeUser
<1> QED
  BY <1>1 DEF ReportsInd, ReportRowsTyped, R!TypeOK, R!UnassignedIsExplained, R!Resolved

\* Every step of the machine keeps it.
LEMMA ReportsNext == ReportsInd /\ R!Next => ReportsInd'
<1> SUFFICES ASSUME ReportsInd, R!Next PROVE ReportsInd'
  OBVIOUS
<1>1. ASSUME NEW severity \in R!Severities, NEW version \in R!Ids, NEW fixed \in R!Ids,
             NEW mention \in {R!Token("bug", 1), R!Token("result", 0)},
             R!CreateBug(severity, version, fixed, mention)
      PROVE ReportsInd'
  BY <1>1, ReportedBugCreated
<1>2. ASSUME NEW n \in DOMAIN reported,
             (\E fixed \in R!Ids : R!SetFixed(n, fixed)) \/ R!DeleteBug(n)
               \/ \E status \in R!Statuses : R!ChangeStatus(n, status)
      PROVE ReportsInd'
  BY <1>2, FixedSet, ReportedBugDeleted, ReportedStatusChanged
<1>3. ASSUME NEW v \in DOMAIN versions,
             R!DeleteVersion(v) \/ \E status \in R!VersionStatuses : R!SetVersionStatus(v, status)
      PROVE ReportsInd'
  BY <1>3, ReportedVersionDeleted, VersionStatusSet
<1> QED
  BY <1>1, <1>2, <1>3, ReportedVersionCreated, SurroundingsChange DEF R!Next

\* It holds when a behaviour is one of reports.
ReportsHold == part = "reports" => ReportsInd

\* So does every step of the specification.
LEMMA ReportsStep == ReportsHold /\ [Next]_vars => ReportsHold'
<1> SUFFICES ASSUME part' = "reports", ReportsHold, [Next]_vars PROVE ReportsInd'
  BY DEF ReportsHold
<1>1. part = "reports"
  BY DEF Next, BugStep, ReportStep, SchemaStep, LinkStep, TicketStep, NotificationStep, vars
<1>2. ReportsInd
  BY <1>1 DEF ReportsHold
<1>3. R!Next \/ UNCHANGED vars
  BY <1>1 DEF Next, BugStep, ReportStep, SchemaStep, LinkStep, TicketStep, NotificationStep
<1>4. UNCHANGED vars => UNCHANGED <<served, reportVars>>
  BY DEF vars
<1> QED
  BY <1>2, <1>3, <1>4, ReportsNext, ReportsStill

\* So it holds in every state.
LEMMA ReportsAlways == Spec => []ReportsHold
<1>1. Init => ReportsHold
  BY ReportsInit DEF Init, ReportsHold
<1> QED
  BY <1>1, ReportsStep, PTL DEF Spec, vars

\* A report has each of its bugs in the section of its severity, and no other.
LEMMA OneSeverity ==
  ASSUME NEW version, NEW n \in R!Reported(version)
  PROVE  LET sections == R!SeveritySections(version)
         IN  R!Cardinality({s \in DOMAIN sections : n \in sections[s]}) = 1
<1>1. PICK shown : shown = {reported[k].severity : k \in R!Reported(version)}
  OBVIOUS
<1>2. R!SeveritySections(version) = [s \in shown |-> {k \in R!Reported(version) : reported[k].severity = s}]
  BY <1>1 DEF R!SeveritySections
<1>3. PICK sections : sections = R!SeveritySections(version)
  OBVIOUS
<1>4. reported[n].severity \in shown
  BY <1>1
<1>5. {s \in DOMAIN sections : n \in sections[s]} = {reported[n].severity}
  BY <1>2, <1>3, <1>4
<1>6. R!Cardinality({s \in DOMAIN sections : n \in sections[s]}) = 1
  BY <1>5, FS_Singleton, SameSizeOfReports
<1> QED
  BY <1>3, <1>6

\* The notes have each resolved bug in the section of its version, unless that is of another
\* project.
LEMMA OneVersion ==
  ASSUME ReportsInd, NEW n \in R!Resolved
  PROVE  R!Cardinality({v \in DOMAIN R!ReleaseNotes : n \in R!ReleaseNotes[v]})
           = IF reported[n].fixed = ForeignVersion THEN 0 ELSE 1
<1>1. PICK shown : shown = R!SectionsOf({reported[k].fixed : k \in R!Resolved})
  OBVIOUS
<1>2. PICK notes : notes = R!ReleaseNotes
  OBVIOUS
<1>3. notes = [v \in shown |-> {k \in R!Resolved : reported[k].fixed = v}]
  BY <1>1, <1>2 DEF R!ReleaseNotes
<1>4. reported[n].fixed \in DOMAIN versions \union {ForeignVersion, None}
  BY DEF ReportsInd, R!TypeOK, R!Resolved
<1>5. \A v \in shown : v \in DOMAIN versions \union {None}
  BY <1>1 DEF R!SectionsOf
<1>6. ForeignVersion \notin DOMAIN versions \union {None}
  <2>1. \A v \in DOMAIN versions : v \in 1 .. MaxVersions
    BY BoundsAssumption DEF ReportsInd, R!TypeOK
  <2> QED
    BY <2>1, VersionsAssumption
<1>7. CASE reported[n].fixed = ForeignVersion
  <2>1. {v \in DOMAIN notes : n \in notes[v]} = {}
    BY <1>3, <1>5, <1>6, <1>7
  <2>2. R!Cardinality({v \in DOMAIN notes : n \in notes[v]}) = 0
    BY <2>1, FS_EmptySet, SameSizeOfReports
  <2> QED
    BY <1>2, <1>7, <2>2
<1>8. CASE reported[n].fixed # ForeignVersion
  <2>1. reported[n].fixed \in shown
    BY <1>1, <1>4, <1>8 DEF R!SectionsOf
  <2>2. {v \in DOMAIN notes : n \in notes[v]} = {reported[n].fixed}
    BY <1>3, <2>1
  <2>3. R!Cardinality({v \in DOMAIN notes : n \in notes[v]}) = 1
    BY <2>2, FS_Singleton, SameSizeOfReports
  <2> QED
    BY <1>2, <1>8, <2>3
<1> QED
  BY <1>7, <1>8

\* What is offered resolves, and what resolves and is not offered is excused.
LEMMA OffersResolve == things \subseteq {"case", "execution"} => R!SearchMatchesResolution
<1> SUFFICES ASSUME things \subseteq {"case", "execution"}, NEW t \in R!Tokens
             PROVE  IF t \in R!Hits(t.kind) THEN R!Accessible(t)
                    ELSE R!Accessible(t) => \/ t.kind = "result" /\ "case" \notin things
                                            \/ t.kind = "user" /\ ~(user.direct /\ user.active)
  BY DEF R!SearchMatchesResolution
<1>1. things = {"case", "execution"} <=> "case" \in things /\ "execution" \in things
  OBVIOUS
<1>2. CASE \E n \in 1 .. MaxBugs : t = R!Token("bug", n)
  <2>1. PICK n \in 1 .. MaxBugs : t = R!Token("bug", n)
    BY <1>2
  <2>2. t.kind = "bug" /\ t.id = n
    BY <2>1 DEF R!Token
  <2>3. R!Accessible(t) <=> n \in DOMAIN reported
    BY <2>2 DEF R!Accessible
  <2>4. R!Hits(t.kind) = {R!Token("bug", k) : k \in DOMAIN reported}
    BY <2>2 DEF R!Hits
  <2>5. t \in R!Hits(t.kind) <=> n \in DOMAIN reported
    BY <2>1, <2>2, <2>4 DEF R!Token
  <2> QED
    BY <2>2, <2>3, <2>5
<1>3. CASE \E k \in R!Kinds \ {"bug"} : t = R!Token(k, 0)
  <2>1. PICK k \in R!Kinds \ {"bug"} : t = R!Token(k, 0)
    BY <1>3
  <2>2. t.kind = k /\ k \in {"case", "execution", "result", "step_result", "user"}
    BY <2>1 DEF R!Token, R!Kinds
  <2>3. CASE k \in {"case", "execution"}
    BY <2>1, <2>2, <2>3 DEF R!Hits, R!Accessible
  <2>4. CASE k \in {"result", "step_result"}
    BY <1>1, <2>1, <2>2, <2>4 DEF R!Hits, R!Accessible
  <2>5. CASE k = "user"
    BY <2>1, <2>2, <2>5 DEF R!Hits, R!Accessible
  <2> QED
    BY <2>2, <2>3, <2>4, <2>5
<1> QED
  BY <1>2, <1>3 DEF R!Tokens

\* A label tells whether its token resolves.
LEMMA LabelsTell ==
  ASSUME NEW n \in DOMAIN reported, NEW t, t = reported[n].mention
  PROVE  R!Labels(None)[t] = IF R!Accessible(t) THEN "label" ELSE "raw"
<1>1. PICK seen : seen = {reported[k].mention : k \in R!Reported(None)}
  OBVIOUS
<1>2. t \in seen
  BY <1>1 DEF R!Reported
<1>3. R!Labels(None) = [u \in seen |-> IF R!Accessible(u) THEN "label" ELSE "raw"]
  BY <1>1 DEF R!Labels
<1> QED
  BY <1>2, <1>3

\* It is what ReportsAgree needs.
LEMMA ReportsIndHolds == ReportsInd => R!ReportsAgree
<1> SUFFICES ASSUME ReportsInd PROVE R!ReportsAgree
  OBVIOUS
<1>1. R!EachBugOnce
  BY OneSeverity, OneVersion DEF R!EachBugOnce
<1>2. R!SearchMatchesResolution
  BY OffersResolve DEF ReportsInd, R!TypeOK
<1>3. R!LabelsFollow
  <2>1. SUFFICES ASSUME NEW n \in DOMAIN reported, NEW t, t = reported[n].mention
                 PROVE  /\ R!Labels(None)[t] = "raw" => R!Hits(t.kind) \intersect {t} = {}
                        /\ t.kind = "bug" => (R!Labels(None)[t] = "label") = (t.id \in DOMAIN reported)
    BY DEF R!LabelsFollow
  <2>2. t \in R!Tokens
    BY <2>1 DEF ReportsInd, R!TypeOK
  <2>3. R!Labels(None)[t] = IF R!Accessible(t) THEN "label" ELSE "raw"
    BY <2>1, LabelsTell
  <2>4. t \in R!Hits(t.kind) => R!Accessible(t)
    BY <1>2, <2>2 DEF R!SearchMatchesResolution
  <2>5. t.kind = "bug" => (R!Accessible(t) <=> t.id \in DOMAIN reported)
    BY DEF R!Accessible
  <2>6. R!Labels(None)[t] = "label" <=> R!Accessible(t)
    BY <2>3
  <2>7. R!Labels(None)[t] = "raw" => R!Hits(t.kind) \intersect {t} = {}
    BY <2>4, <2>3
  <2>8. t.kind = "bug" => (R!Labels(None)[t] = "label") = (t.id \in DOMAIN reported)
    <3> HIDE DEF R!Labels
    <3> QED
      BY <2>5, <2>6
  <2> QED
    BY <2>7, <2>8
<1> QED
  BY <1>1, <1>2, <1>3 DEF ReportsInd, R!ReportsAgree

\* However bugs, versions and what they mention change, each report has each of its bugs
\* once, the notes each resolved bug, a bug is resolved without a version for a reason only,
\* and mentions and searches agree.
THEOREM ReportsPlaceEachBug == Spec => []ReportsAgree
<1>1. ReportsHold => ReportsAgree
  BY ReportsIndHolds DEF ReportsHold, ReportsAgree
<1> QED
  BY <1>1, ReportsAlways, PTL

-----------------------------------------------------------------------------
(* Bugs. *)
BugCreates == {"environment", "number", "insert", "inserted"}
BugOps == BugCreates \union {"none", "update", "reload", "record", "status"}
BugRows == [number : Nat, title : Titles, status : B!Statuses, resolved : BOOLEAN,
            env : Environments \union {"none"}]
LogRows == [field : {"status", "title"}, from : Titles \union B!Statuses \union {"none"},
            to : Titles \union B!Statuses \union {"none"}]
Services ==
  [op : BugOps, bug : 0 .. BugIds, value : Titles \union B!Statuses \union Environments \union {"none"},
   seen : BugRows, tries : 0 .. Retries, lost : Nat, holds : BOOLEAN, sound : BOOLEAN]

\* The creations that have not ended; all others have taken a number, or none.
Creating == {w \in Workers : serving[w].op \in BugCreates}
Ended == born - Cardinality(Creating)

BugRowsTyped ==
  /\ crowded \in BOOLEAN /\ died \in BOOLEAN /\ serial \in BOOLEAN
  /\ bug \in [1 .. BugIds -> BugRows] /\ catalog \subseteq Environments
  /\ activity \in [1 .. BugIds -> Seq(LogRows)] /\ serving \in [Workers -> Services]
  /\ served \in 0 .. BugRequests /\ born \in 0 .. BugIds /\ born <= served
  /\ loose \subseteq 1 .. BugIds

\* No number is above that of the creations that have ended, or the one after it.
NumbersCounted ==
  /\ 0 <= Ended
  /\ \A b \in 1 .. BugIds : bug[b].number <= Ended
  /\ \A w \in Workers : serving[w].op \in {"insert", "inserted"} => serving[w].seen.number <= Ended + 1

\* A creation that has looked at its environment finds it in the catalog, or will commit it there.
EnvironmentHeld(c) ==
  \/ c.value = "none" \/ c.value \in catalog
  \/ c.op = "environment" \/ c.holds = TRUE \/ c.bug \in loose

\* What a request holds: a sound creation has lost a number to another for each attempt it has
\* made, and one more if its number has been taken.
ServiceHolds(c) ==
  /\ c.op # "none" => c.bug \in 1 .. BugIds
  /\ c.op \in BugCreates =>
       /\ c.value \in Environments \union {"none"} /\ EnvironmentHeld(c)
       /\ c.sound = TRUE => c.tries <= c.lost
       /\ c.op = "environment" \/ c.holds = TRUE => c.value # "none"
  /\ c.op \in {"update", "record"} => c.value \in Titles
  /\ c.op = "status" => c.value \in B!Statuses
  /\ c.op \in {"insert", "inserted"} => c.seen.number >= 1
  /\ c.op = "insert" /\ B!Taken(c.seen.number) /\ c.sound = TRUE => c.tries + 1 <= c.lost
  /\ c.op = "inserted" => ~B!Taken(c.seen.number)

ServicesHold == \A w \in Workers : ServiceHolds(serving[w])
ServicesApart ==
  \A v, w \in Workers : serving[v].op = "inserted" /\ serving[w].op = "inserted" /\ v # w =>
    serving[v].seen.number # serving[w].seen.number

\* Served one at a time, what a request has read is still so.
ServedAlone ==
  serial =>
    /\ \A v, w \in Workers : serving[v].op # "none" /\ serving[w].op # "none" => v = w
    /\ \A w \in Workers : serving[w].op \in {"update", "status"} => serving[w].seen = bug[serving[w].bug]

\* An edit that has been committed and not logged.
WillLog(c, b) ==
  /\ c.bug = b
  /\ \/ c.op = "reload" /\ c.seen.title # bug[b].title
     \/ c.op = "record" /\ c.value = bug[b].title
TitleLogged(b) == \E i \in DOMAIN activity[b] : activity[b][i].field = "title" /\ activity[b][i].to = bug[b].title
TitleLoggedAt(b) ==
  B!Live(b) /\ bug[b].title # 0 => TitleLogged(b) \/ \E w \in Workers : WillLog(serving[w], b)
TitlesLogged == ~died => \A b \in 1 .. BugIds : TitleLoggedAt(b)

TitleNow(b) == B!TitleBefore(activity[b], Len(activity[b]) + 1)
Chained(log) == \A i \in DOMAIN log : log[i].field = "title" => log[i].from = B!TitleBefore(log, i)
Edits(c, b) == c.bug = b /\ c.op \in {"reload", "record"}
\* An edit that is to be logged where the log ends.
WillChain(c, b) ==
  /\ Edits(c, b) /\ c.seen.title = TitleNow(b)
  /\ c.op = "record" => c.value = bug[b].title
TitleChainedAt(b) ==
  B!Live(b) =>
    /\ Chained(activity[b])
    /\ \A w \in Workers : Edits(serving[w], b) => WillChain(serving[w], b)
    /\ bug[b].title = TitleNow(b) \/ \E w \in Workers : WillChain(serving[w], b)
TitlesChained == serial /\ ~died => \A b \in 1 .. BugIds : TitleChainedAt(b)

\* The rows that change the status: the last of them has the status of the bug.
StatusRows(log) == {i \in DOMAIN log : log[i].field = "status" /\ log[i].from # log[i].to}
StatusesLogged ==
  \A b \in 1 .. BugIds : B!Live(b) =>
    StatusRows(activity[b]) # {} /\ bug[b].status = B!StatusIn(activity[b])

BugsInd ==
  /\ BugRowsTyped /\ NumbersCounted /\ ServicesHold /\ ServicesApart /\ ServedAlone
  /\ crowded /\ B!NumbersIdentify /\ B!EnvironmentCatalogued /\ B!ResolvedIffTerminal
  /\ StatusesLogged /\ TitlesLogged /\ TitlesChained

\* What the model of bugs takes for the greatest is that.
LEMMA GreatestNumber ==
  ASSUME NEW bound \in Nat, NEW set \in SUBSET (0 .. bound), set # {}
  PROVE  B!Max(set) \in set /\ \A k \in set : B!Max(set) >= k
  BY GreatestFound DEF B!Max

\* A log with one more row.
LEMMA RowAppended ==
  ASSUME NEW log \in Seq(LogRows), NEW row \in LogRows
  PROVE  /\ Append(log, row) \in Seq(LogRows)
         /\ Len(log) \in Nat /\ DOMAIN log = 1 .. Len(log)
         /\ Len(Append(log, row)) = Len(log) + 1
         /\ DOMAIN Append(log, row) = 1 .. Len(log) + 1
         /\ Append(log, row)[Len(log) + 1] = row
         /\ \A i \in 1 .. Len(log) : Append(log, row)[i] = log[i]
  OBVIOUS

\* A row that changes the status is the last that does; any other leaves the status as it was.
LEMMA StatusOfLonger ==
  ASSUME NEW log \in Seq(LogRows), NEW row \in LogRows,
         NEW longer, longer = Append(log, row)
  PROVE  /\ row.field = "status" /\ row.from # row.to =>
              StatusRows(longer) # {} /\ B!StatusIn(longer) = row.to
         /\ ~(row.field = "status" /\ row.from # row.to) /\ StatusRows(log) # {} =>
              StatusRows(longer) # {} /\ B!StatusIn(longer) = B!StatusIn(log)
<1>1. /\ Len(log) \in Nat /\ DOMAIN log = 1 .. Len(log) /\ DOMAIN longer = 1 .. Len(log) + 1
      /\ longer[Len(log) + 1] = row /\ \A i \in 1 .. Len(log) : longer[i] = log[i]
  BY RowAppended
<1>2. StatusRows(longer) \in SUBSET (0 .. Len(log) + 1) /\ StatusRows(log) \in SUBSET (0 .. Len(log))
  BY <1>1 DEF StatusRows
<1>3. B!StatusIn(longer) = longer[B!Max(StatusRows(longer))].to
        /\ B!StatusIn(log) = log[B!Max(StatusRows(log))].to
  BY DEF B!StatusIn, StatusRows
<1>4. ASSUME row.field = "status", row.from # row.to
      PROVE  StatusRows(longer) # {} /\ B!StatusIn(longer) = row.to
  <2>1. Len(log) + 1 \in StatusRows(longer)
    BY <1>1, <1>4 DEF StatusRows
  <2>2. B!Max(StatusRows(longer)) \in StatusRows(longer)
          /\ B!Max(StatusRows(longer)) >= Len(log) + 1
    <3>1. Len(log) + 1 \in Nat /\ StatusRows(longer) # {}
      BY <1>1, <2>1
    <3>2. B!Max(StatusRows(longer)) \in StatusRows(longer)
            /\ \A k \in StatusRows(longer) : B!Max(StatusRows(longer)) >= k
      BY <1>2, <3>1, GreatestNumber
    <3> QED
      BY <2>1, <3>2
  <2>3. B!Max(StatusRows(longer)) = Len(log) + 1
    BY <1>1, <1>2, <2>2
  <2> QED
    BY <1>1, <1>3, <2>1, <2>3
<1>5. ASSUME ~(row.field = "status" /\ row.from # row.to), StatusRows(log) # {}
      PROVE  StatusRows(longer) # {} /\ B!StatusIn(longer) = B!StatusIn(log)
  <2>1. StatusRows(longer) = StatusRows(log)
    BY <1>1, <1>5 DEF StatusRows
  <2>2. B!Max(StatusRows(log)) \in StatusRows(log)
    BY <1>1, <1>2, <1>5, GreatestNumber
  <2>3. B!Max(StatusRows(log)) \in 1 .. Len(log)
    BY <1>1, <2>2 DEF StatusRows
  <2> QED
    BY <1>1, <1>3, <1>5, <2>1, <2>3
<1> QED
  BY <1>4, <1>5

\* What a log says of the title before one of its rows does not change as it grows; at its end it
\* says what the new row does, if that is about the title.
LEMMA TitleOfLonger ==
  ASSUME NEW log \in Seq(LogRows), NEW row \in LogRows,
         NEW longer, longer = Append(log, row)
  PROVE  /\ \A i \in 1 .. Len(log) + 1 : B!TitleBefore(longer, i) = B!TitleBefore(log, i)
         /\ B!TitleBefore(longer, Len(longer) + 1) =
              IF row.field = "title" THEN row.to ELSE B!TitleBefore(log, Len(log) + 1)
<1>1. /\ Len(log) \in Nat /\ DOMAIN log = 1 .. Len(log) /\ Len(longer) = Len(log) + 1
      /\ longer[Len(log) + 1] = row /\ \A i \in 1 .. Len(log) : longer[i] = log[i]
  BY RowAppended
<1> DEFINE Earlier(rows_, i) == {j \in 1 .. i - 1 : rows_[j].field = "title"}
<1>2. \A i \in 1 .. Len(log) + 2 :
        /\ Earlier(longer, i) \in SUBSET (0 .. Len(log) + 1)
        /\ B!TitleBefore(longer, i) =
             IF Earlier(longer, i) = {} THEN 0 ELSE longer[B!Max(Earlier(longer, i))].to
  BY <1>1 DEF B!TitleBefore
<1>3. \A i \in 1 .. Len(log) + 1 : B!TitleBefore(log, i) =
        IF Earlier(log, i) = {} THEN 0 ELSE log[B!Max(Earlier(log, i))].to
  BY DEF B!TitleBefore
<1>4. \A i \in 1 .. Len(log) + 1 : Earlier(longer, i) = Earlier(log, i)
  BY <1>1
<1>5. ASSUME NEW set \in SUBSET (0 .. Len(log) + 1), set # {}
      PROVE  B!Max(set) \in set /\ \A k \in set : B!Max(set) >= k
  <2>1. Len(log) + 1 \in Nat
    BY <1>1
  <2> QED
    BY <1>5, <2>1, GreatestNumber
<1>6. \A i \in 1 .. Len(log) + 1 : B!TitleBefore(longer, i) = B!TitleBefore(log, i)
  <2>1. SUFFICES ASSUME NEW i \in 1 .. Len(log) + 1, Earlier(log, i) # {}
                 PROVE  longer[B!Max(Earlier(log, i))] = log[B!Max(Earlier(log, i))]
    <3>1. \A i \in 1 .. Len(log) + 1 : i \in 1 .. Len(log) + 2
      BY <1>1
    <3> HIDE DEF Earlier
    <3>2. SUFFICES ASSUME NEW i \in 1 .. Len(log) + 1
                   PROVE  B!TitleBefore(longer, i) = B!TitleBefore(log, i)
      OBVIOUS
    <3>3. /\ B!TitleBefore(longer, i) =
               IF Earlier(longer, i) = {} THEN 0 ELSE longer[B!Max(Earlier(longer, i))].to
          /\ B!TitleBefore(log, i) =
               IF Earlier(log, i) = {} THEN 0 ELSE log[B!Max(Earlier(log, i))].to
          /\ Earlier(longer, i) = Earlier(log, i)
      BY <1>2, <1>3, <1>4, <3>1
    <3>4. Earlier(log, i) # {} => longer[B!Max(Earlier(log, i))] = log[B!Max(Earlier(log, i))]
      BY <2>1
    <3> QED
      BY <3>3, <3>4
  <2>2. Earlier(log, i) \in SUBSET (0 .. Len(log) + 1)
    BY <1>1
  <2>3. B!Max(Earlier(log, i)) \in Earlier(log, i)
    BY <1>5, <2>1, <2>2
  <2>4. B!Max(Earlier(log, i)) \in 1 .. Len(log)
    BY <1>1, <2>3
  <2> QED
    BY <1>1, <2>4
<1>7. ASSUME row.field = "title"
      PROVE  B!TitleBefore(longer, Len(log) + 2) = row.to
  <2>1. Len(log) + 1 \in Earlier(longer, Len(log) + 2)
    BY <1>1, <1>7
  <2>2. Earlier(longer, Len(log) + 2) \in SUBSET (0 .. Len(log) + 1)
    BY <1>1
  <2>3. B!Max(Earlier(longer, Len(log) + 2)) \in Earlier(longer, Len(log) + 2)
          /\ B!Max(Earlier(longer, Len(log) + 2)) >= Len(log) + 1
    BY <1>5, <2>1, <2>2
  <2>4. B!Max(Earlier(longer, Len(log) + 2)) = Len(log) + 1
    <3>1. PICK m : m = B!Max(Earlier(longer, Len(log) + 2))
      OBVIOUS
    <3>2. m \in Earlier(longer, Len(log) + 2) /\ m >= Len(log) + 1
      BY <2>3, <3>1
    <3>3. m \in 0 .. Len(log) + 1
      BY <2>2, <3>2
    <3>4. m = Len(log) + 1
      BY <1>1, <3>2, <3>3
    <3> QED
      BY <3>1, <3>4
  <2>5. Len(log) + 2 \in 1 .. Len(log) + 2
    BY <1>1
  <2> HIDE DEF Earlier
  <2> QED
    BY <1>1, <1>2, <2>1, <2>4, <2>5
<1>8. ASSUME row.field # "title"
      PROVE  B!TitleBefore(longer, Len(log) + 2) = B!TitleBefore(longer, Len(log) + 1)
  <2>1. Earlier(longer, Len(log) + 2) = Earlier(longer, Len(log) + 1)
    BY <1>1, <1>8
  <2>2. Len(log) + 2 \in 1 .. Len(log) + 2 /\ Len(log) + 1 \in 1 .. Len(log) + 2
    BY <1>1
  <2> HIDE DEF Earlier
  <2> QED
    BY <1>2, <2>1, <2>2
<1>9. Len(longer) + 1 = Len(log) + 2 /\ Len(log) + 1 \in 1 .. Len(log) + 1
  BY <1>1
<1>10. B!TitleBefore(longer, Len(longer) + 1) =
         IF row.field = "title" THEN row.to ELSE B!TitleBefore(log, Len(log) + 1)
  BY <1>6, <1>7, <1>8, <1>9
<1> QED
  BY <1>6, <1>10

\* A log stays a chain when a row about the title starts from where the log ends.
LEMMA ChainOfLonger ==
  ASSUME NEW log \in Seq(LogRows), NEW row \in LogRows, Chained(log),
         row.field = "title" => row.from = B!TitleBefore(log, Len(log) + 1),
         NEW longer, longer = Append(log, row)
  PROVE  Chained(longer)
<1>1. /\ Len(log) \in Nat /\ DOMAIN log = 1 .. Len(log) /\ DOMAIN longer = 1 .. Len(log) + 1
      /\ longer[Len(log) + 1] = row /\ \A i \in 1 .. Len(log) : longer[i] = log[i]
  BY RowAppended
<1>2. \A i \in 1 .. Len(log) + 1 : B!TitleBefore(longer, i) = B!TitleBefore(log, i)
  BY TitleOfLonger
<1>3. SUFFICES ASSUME NEW i \in 1 .. Len(log) + 1, longer[i].field = "title"
               PROVE  longer[i].from = B!TitleBefore(log, i)
  BY <1>1, <1>2 DEF Chained
<1>4. CASE i = Len(log) + 1
  BY <1>1, <1>3, <1>4
<1>5. CASE i \in 1 .. Len(log)
  BY <1>1, <1>3, <1>5 DEF Chained
<1> QED
  BY <1>1, <1>4, <1>5

\* One worker goes on: the creations that have not ended are as many, or one more or less.
LEMMA CreatingMoves ==
  ASSUME NEW w \in Workers, NEW c, serving'[w] = c,
         \A v \in Workers : v # w => serving'[v].op = serving[v].op
  PROVE  /\ IsFiniteSet(Creating) /\ Cardinality(Creating) \in Nat
         /\ Cardinality(Creating)' = Cardinality(Creating)
              + (IF c.op \in BugCreates THEN 1 ELSE 0)
              - (IF serving[w].op \in BugCreates THEN 1 ELSE 0)
<1>1. serving'[w] = c /\ \A v \in Workers : v # w => serving'[v].op = serving[v].op
  OBVIOUS
<1>2. IsFiniteSet(Creating) /\ IsFiniteSet(Creating \ {w})
  <2>1. Creating \in SUBSET Workers /\ Creating \ {w} \in SUBSET Workers
    BY DEF Creating
  <2> QED
    BY <2>1, WorkersAssumption, FS_Subset
<1>3. Cardinality(Creating) \in Nat /\ Cardinality(Creating \ {w}) \in Nat
  BY <1>2, FS_CardinalityType
<1>4. Cardinality(Creating) = Cardinality(Creating \ {w})
        + (IF serving[w].op \in BugCreates THEN 1 ELSE 0)
  <2>1. CASE serving[w].op \in BugCreates
    <3>1. w \in Creating
      BY <2>1 DEF Creating
    <3>2. Cardinality(Creating \ {w}) = Cardinality(Creating) - 1
      BY <1>2, <3>1, FS_RemoveElement
    <3> QED
      BY <1>3, <2>1, <3>2
  <2>2. CASE serving[w].op \notin BugCreates
    <3>1. Creating \ {w} = Creating
      BY <2>2 DEF Creating
    <3>2. Cardinality(Creating \ {w}) = Cardinality(Creating)
      BY <3>1
    <3> QED
      BY <1>3, <2>2, <3>2
  <2> QED
    BY <2>1, <2>2
<1>5. Cardinality(Creating') = Cardinality(Creating \ {w}) + (IF c.op \in BugCreates THEN 1 ELSE 0)
  <2>1. CASE c.op \in BugCreates
    <3>1. Creating' = (Creating \ {w}) \union {w} /\ w \notin Creating \ {w}
      BY <1>1, <2>1 DEF Creating
    <3>2. Cardinality((Creating \ {w}) \union {w}) = Cardinality(Creating \ {w}) + 1
      BY <1>2, <3>1, FS_AddElement
    <3> QED
      BY <2>1, <3>1, <3>2
  <2>2. CASE c.op \notin BugCreates
    <3>1. Creating' = Creating \ {w}
      BY <1>1, <2>2 DEF Creating
    <3> QED
      BY <1>3, <2>2, <3>1
  <2> QED
    BY <2>1, <2>2
<1>6. Cardinality(Creating)' = Cardinality(Creating')
  OBVIOUS
<1> QED
  BY <1>2, <1>3, <1>4, <1>5, <1>6

\* What that does to the number of creations that have ended.
LEMMA EndedMoves ==
  ASSUME BugRowsTyped, born' \in 0 .. BugIds, NEW w \in Workers, NEW c, serving'[w] = c,
         \A v \in Workers : v # w => serving'[v].op = serving[v].op
  PROVE  /\ Ended \in Int /\ Ended' \in Int
         /\ (c.op \in BugCreates <=> serving[w].op \in BugCreates) /\ born' = born => Ended' = Ended
         /\ c.op \notin BugCreates /\ serving[w].op \in BugCreates /\ born' = born =>
              Ended' = Ended + 1
         /\ c.op \in BugCreates /\ serving[w].op \notin BugCreates /\ born' = born + 1 =>
              Ended' = Ended
<1>1. /\ Cardinality(Creating) \in Nat
      /\ Cardinality(Creating)' = Cardinality(Creating)
           + (IF c.op \in BugCreates THEN 1 ELSE 0)
           - (IF serving[w].op \in BugCreates THEN 1 ELSE 0)
  BY CreatingMoves
<1>2. born \in Int /\ born' \in Int
  BY BoundsAssumption DEF BugRowsTyped
<1>3. PICK n \in Nat, m \in Int : n = Cardinality(Creating) /\ m = Cardinality(Creating)'
  BY <1>1
<1>4. Ended = born - n /\ Ended' = born' - m
  BY <1>3 DEF Ended
<1>5. m = n + (IF c.op \in BugCreates THEN 1 ELSE 0) - (IF serving[w].op \in BugCreates THEN 1 ELSE 0)
  BY <1>1, <1>3
<1>6. m = IF c.op \in BugCreates
          THEN IF serving[w].op \in BugCreates THEN n ELSE n + 1
          ELSE IF serving[w].op \in BugCreates THEN n - 1 ELSE n
  <2>1. CASE c.op \in BugCreates /\ serving[w].op \in BugCreates
    BY <1>3, <1>5, <2>1
  <2>2. CASE c.op \in BugCreates /\ serving[w].op \notin BugCreates
    BY <1>3, <1>5, <2>2
  <2>3. CASE c.op \notin BugCreates /\ serving[w].op \in BugCreates
    BY <1>3, <1>5, <2>3
  <2>4. CASE c.op \notin BugCreates /\ serving[w].op \notin BugCreates
    BY <1>3, <1>5, <2>4
  <2> QED
    BY <2>1, <2>2, <2>3, <2>4
<1>7. Ended \in Int /\ Ended' \in Int
  BY <1>2, <1>3, <1>4
<1>8. (c.op \in BugCreates <=> serving[w].op \in BugCreates) /\ born' = born => Ended' = Ended
  BY <1>2, <1>3, <1>4, <1>6
<1>9. c.op \notin BugCreates /\ serving[w].op \in BugCreates /\ born' = born => Ended' = Ended + 1
  BY <1>2, <1>3, <1>4, <1>6
<1>10. c.op \in BugCreates /\ serving[w].op \notin BugCreates /\ born' = born + 1 => Ended' = Ended
  BY <1>2, <1>3, <1>4, <1>6
<1> QED
  BY <1>7, <1>8, <1>9, <1>10

\* A request goes on, and the tables stay as they are.
Goes(w, c) ==
  /\ serving' = [serving EXCEPT ![w] = c]
  /\ UNCHANGED <<serial, bug, catalog, activity>>
  /\ served' \in 0 .. BugRequests /\ born' \in 0 .. BugIds /\ born' <= served'
  /\ loose \subseteq loose' /\ loose' \subseteq 1 .. BugIds
  /\ crowded' = TRUE /\ died' \in BOOLEAN /\ (died => died')
  /\ Ended <= Ended'
  /\ c.op \in {"insert", "inserted"} => c.seen.number <= Ended + 1
  /\ c.op = "inserted" => \A v \in Workers : v # w /\ serving[v].op = "inserted" =>
       serving[v].seen.number # c.seen.number
  /\ serial /\ c.op # "none" => \A v \in Workers : v # w => serving[v].op = "none"
  /\ serial /\ c.op \in {"update", "status"} => c.seen = bug[c.bug]
  /\ ~died' => \A b \in 1 .. BugIds :
       /\ WillLog(serving[w], b) => WillLog(c, b)
       /\ serial /\ WillChain(serving[w], b) => WillChain(c, b) \/ bug[b].title = TitleNow(b)
       /\ serial /\ B!Live(b) /\ Edits(c, b) => WillChain(c, b)

\* What a request may do to itself while the tables stay.
LEMMA ServiceMoves ==
  ASSUME BugsInd, NEW w \in Workers, NEW c \in Services, Goes(w, c), ServiceHolds(c)'
  PROVE  BugsInd'
<1>1. /\ serving \in [Workers -> Services]
      /\ serving' = [serving EXCEPT ![w] = c] /\ UNCHANGED <<serial, bug, catalog, activity>>
  BY DEF BugsInd, BugRowsTyped, Goes
<1>2. serving'[w] = c /\ \A v \in Workers : v # w => serving'[v] = serving[v]
  BY <1>1
<1>3. BugRowsTyped'
  BY <1>1 DEF BugsInd, BugRowsTyped, Goes
<1>4. Ended \in Int /\ Ended' \in Int /\ Ended <= Ended'
  <2>1. BugRowsTyped /\ born' \in 0 .. BugIds /\ serving'[w] = c
          /\ \A v \in Workers : v # w => serving'[v].op = serving[v].op
    BY <1>2, <1>3 DEF BugsInd, BugRowsTyped
  <2>2. Ended \in Int /\ Ended' \in Int
    BY <2>1, EndedMoves
  <2> QED
    BY <2>2 DEF Goes
<1>5. NumbersCounted'
  <2>1. \A b \in 1 .. BugIds : bug[b].number \in Nat
    BY DEF BugsInd, BugRowsTyped, BugRows
  <2>2. \A v \in Workers : serving'[v].seen.number \in Nat
    BY <1>3 DEF BugRowsTyped, Services, BugRows
  <2>3. 0 <= Ended' /\ \A b \in 1 .. BugIds : bug'[b].number <= Ended'
    BY <1>1, <1>4, <2>1 DEF BugsInd, NumbersCounted
  <2>4. ASSUME NEW v \in Workers, serving'[v].op \in {"insert", "inserted"}
        PROVE  serving'[v].seen.number <= Ended' + 1
    <3>1. CASE v = w
      <4>1. c.seen.number <= Ended + 1
        BY <1>2, <2>4, <3>1 DEF Goes
      <4>2. c.seen.number \in Nat
        BY <1>2, <2>2
      <4> QED
        BY <1>2, <1>4, <3>1, <4>1, <4>2
    <3>2. CASE v # w
      <4>1. serving[v].seen.number <= Ended + 1 /\ serving'[v] = serving[v]
        BY <1>2, <2>4, <3>2 DEF BugsInd, NumbersCounted
      <4>2. serving[v].seen.number \in Nat
        BY <2>2, <4>1
      <4> QED
        BY <1>4, <4>1, <4>2
    <3> QED
      BY <3>1, <3>2
  <2> QED
    BY <2>3, <2>4 DEF NumbersCounted
<1>6. ServicesHold'
  <2>0. ServiceHolds(serving[w])'
    <3>1. EnvironmentHeld(serving[w])' <=> EnvironmentHeld(c)'
      BY <1>2 DEF EnvironmentHeld
    <3>2. ServiceHolds(c)' /\ serving'[w] = c
      BY <1>2
    <3> QED
      BY <3>1, <3>2 DEF ServiceHolds, B!Taken
  <2>1. SUFFICES ASSUME NEW v \in Workers, v # w PROVE ServiceHolds(serving[v])'
    <3>1. SUFFICES ASSUME NEW v \in Workers PROVE ServiceHolds(serving[v])'
      BY DEF ServicesHold
    <3>2. CASE v = w
      BY <2>0, <3>2
    <3>3. CASE v # w
      BY <3>3
    <3> QED
      BY <3>2, <3>3
  <2>2. ServiceHolds(serving[v]) /\ serving'[v] = serving[v] /\ loose \subseteq loose'
    BY <1>2, <2>1 DEF BugsInd, ServicesHold, Goes
  <2> QED
    BY <1>1, <2>2 DEF ServiceHolds, EnvironmentHeld, B!Taken
<1>7. ServicesApart'
  BY <1>2 DEF BugsInd, ServicesApart, Goes
<1>8. ServedAlone'
  BY <1>1, <1>2 DEF BugsInd, ServedAlone, Goes
<1>9. crowded' /\ B!NumbersIdentify' /\ B!EnvironmentCatalogued' /\ B!ResolvedIffTerminal' /\ StatusesLogged'
  BY <1>1 DEF BugsInd, Goes, B!NumbersIdentify, B!EnvironmentCatalogued, B!ResolvedIffTerminal,
    StatusesLogged, B!Live
<1>10. TitlesLogged'
  <2>1. SUFFICES ASSUME ~died', NEW b \in 1 .. BugIds, B!Live(b), bug[b].title # 0, ~TitleLogged(b)
                 PROVE  \E v \in Workers : WillLog(serving[v], b)'
    BY <1>1 DEF TitlesLogged, TitleLoggedAt, TitleLogged, B!Live
  <2>2. ~died
    BY <2>1 DEF Goes
  <2>3. PICK v \in Workers : WillLog(serving[v], b)
    BY <2>1, <2>2 DEF BugsInd, TitlesLogged, TitleLoggedAt
  <2>4. WillLog(serving'[v], b)
    BY <1>2, <2>1, <2>3 DEF Goes
  <2>5. WillLog(serving[v], b)'
    BY <1>1, <2>4 DEF WillLog
  <2> QED
    BY <2>5
<1>11. TitlesChained'
  <2>1. SUFFICES ASSUME ~died', serial, NEW b \in 1 .. BugIds, B!Live(b)
                 PROVE  /\ Chained(activity[b])
                        /\ \A v \in Workers : Edits(serving'[v], b) => WillChain(serving'[v], b)
                        /\ bug[b].title = TitleNow(b) \/ \E v \in Workers : WillChain(serving'[v], b)
    <3>1. \A v \in Workers, b \in 1 .. BugIds :
            /\ WillChain(serving[v], b)' <=> WillChain(serving'[v], b)
            /\ Edits(serving[v], b)' <=> Edits(serving'[v], b)
      BY <1>1 DEF WillChain, Edits, TitleNow
    <3> QED
      BY <1>1, <2>1, <3>1 DEF TitlesChained, TitleChainedAt, TitleNow, Chained, B!Live
  <2>2. ~died
    BY <2>1 DEF Goes
  <2>3. /\ Chained(activity[b])
        /\ \A v \in Workers : Edits(serving[v], b) => WillChain(serving[v], b)
        /\ bug[b].title = TitleNow(b) \/ \E v \in Workers : WillChain(serving[v], b)
    BY <2>1, <2>2 DEF BugsInd, TitlesChained, TitleChainedAt
  <2>4. \A v \in Workers : Edits(serving'[v], b) => WillChain(serving'[v], b)
    BY <1>2, <2>1, <2>3 DEF Goes
  <2>5. CASE \E v \in Workers : WillChain(serving[v], b)
    <3>1. PICK v \in Workers : WillChain(serving[v], b)
      BY <2>5
    <3>2. CASE v = w
      BY <1>2, <2>1, <2>3, <2>4, <3>1, <3>2 DEF Goes
    <3>3. CASE v # w
      BY <1>2, <2>3, <2>4, <3>1, <3>3
    <3> QED
      BY <3>2, <3>3
  <2> QED
    BY <2>3, <2>4, <2>5
<1> QED
  BY <1>3, <1>5, <1>6, <1>7, <1>8, <1>9, <1>10, <1>11 DEF BugsInd

\* A request rewrites the row and the log of one bug, and goes on.
Rewrites(w, c, b, row, log) ==
  /\ bug' = [bug EXCEPT ![b] = row] /\ activity' = [activity EXCEPT ![b] = log]
  /\ serving' = [serving EXCEPT ![w] = c]
  /\ row.number \in {0, bug[b].number} /\ (row.number # 0 => row.env = bug[b].env)
  /\ UNCHANGED <<serial, catalog, born, loose, crowded>>
  /\ served' \in 0 .. BugRequests /\ served <= served' /\ died' \in BOOLEAN /\ (died => died')
  /\ serving[w].op \notin BugCreates /\ c.op \notin BugCreates \union {"update", "status"}
  /\ serving[w].op \in {"reload", "record"} => serving[w].bug = b
  /\ serial => (row.resolved <=> row.status \in B!TERMINAL_BUG_STATUSES)
  /\ serial => \A v \in Workers : v # w => serving[v].op = "none"
  /\ serial /\ ~Edits(c, b) => c.op = "none"
  /\ row.number # 0 => StatusRows(log) # {} /\ row.status = B!StatusIn(log)

LEMMA RowMoves ==
  ASSUME BugsInd, NEW w \in Workers, NEW c \in Services, NEW b \in 1 .. BugIds,
         NEW row \in BugRows, NEW log \in Seq(LogRows), Rewrites(w, c, b, row, log),
         ServiceHolds(c)', (~died => TitleLoggedAt(b))', (serial /\ ~died => TitleChainedAt(b))'
  PROVE  BugsInd'
<1>1. /\ bug \in [1 .. BugIds -> BugRows] /\ activity \in [1 .. BugIds -> Seq(LogRows)]
      /\ serving \in [Workers -> Services]
      /\ bug' = [bug EXCEPT ![b] = row] /\ activity' = [activity EXCEPT ![b] = log]
      /\ serving' = [serving EXCEPT ![w] = c]
      /\ UNCHANGED <<serial, catalog, born, loose, crowded>>
  BY DEF BugsInd, BugRowsTyped, Rewrites
<1>2. serving'[w] = c /\ \A v \in Workers : v # w => serving'[v] = serving[v]
  BY <1>1
<1>3. /\ bug'[b] = row /\ activity'[b] = log
      /\ \A a \in 1 .. BugIds : a # b => bug'[a] = bug[a] /\ activity'[a] = activity[a]
  BY <1>1
<1>4. row.number \in {0, bug[b].number} /\ (row.number # 0 => row.env = bug[b].env)
  BY DEF Rewrites
<1>5. BugRowsTyped'
  <2>1. served' \in 0 .. BugRequests /\ died' \in BOOLEAN /\ born <= served /\ served <= served'
          /\ born \in 0 .. BugIds /\ served \in 0 .. BugRequests
    BY DEF BugsInd, BugRowsTyped, Rewrites
  <2>2. born' <= served'
    BY <1>1, <2>1, BoundsAssumption
  <2> QED
    BY <1>1, <2>1, <2>2 DEF BugsInd, BugRowsTyped
<1>6. \A n \in Nat \ {0} : B!Taken(n)' => B!Taken(n)
  BY <1>3, <1>4 DEF B!Taken
<1>7. NumbersCounted'
  <2>1. BugRowsTyped /\ born' \in 0 .. BugIds /\ born' = born /\ serving'[w] = c
          /\ (\A v \in Workers : v # w => serving'[v].op = serving[v].op)
          /\ c.op \notin BugCreates /\ serving[w].op \notin BugCreates
    BY <1>1, <1>2, <1>5 DEF BugsInd, BugRowsTyped, Rewrites
  <2>2. Ended' = Ended
    BY <2>1, EndedMoves
  <2>3. 0 <= Ended' /\ \A a \in 1 .. BugIds : bug'[a].number <= Ended'
    BY <1>3, <1>4, <2>2 DEF BugsInd, NumbersCounted
  <2>4. c.op \notin {"insert", "inserted"}
    BY <2>1 DEF BugCreates
  <2>5. \A v \in Workers : serving'[v].op \in {"insert", "inserted"} =>
          serving'[v].seen.number <= Ended' + 1
    BY <1>2, <2>2, <2>4 DEF BugsInd, NumbersCounted
  <2> QED
    BY <2>3, <2>5 DEF NumbersCounted
<1>8. ServicesHold'
  <2>0. ServiceHolds(serving[w])'
    <3>1. EnvironmentHeld(serving[w])' <=> EnvironmentHeld(c)'
      BY <1>2 DEF EnvironmentHeld
    <3>2. ServiceHolds(c)' /\ serving'[w] = c
      BY <1>2
    <3> QED
      BY <3>1, <3>2 DEF ServiceHolds, B!Taken
  <2>1. SUFFICES ASSUME NEW v \in Workers, v # w PROVE ServiceHolds(serving[v])'
    <3>1. SUFFICES ASSUME NEW v \in Workers PROVE ServiceHolds(serving[v])'
      BY DEF ServicesHold
    <3>2. CASE v = w
      BY <2>0, <3>2
    <3>3. CASE v # w
      BY <3>3
    <3> QED
      BY <3>2, <3>3
  <2>2. ServiceHolds(serving[v]) /\ serving'[v] = serving[v] /\ loose' = loose
    BY <1>1, <1>2, <2>1 DEF BugsInd, ServicesHold
  <2>3. serving[v].op \in {"insert", "inserted"} =>
          (B!Taken(serving[v].seen.number)' => B!Taken(serving[v].seen.number))
    <3>1. serving[v].seen.number \in Nat
      BY <1>1 DEF Services, BugRows
    <3>2. serving[v].op \in {"insert", "inserted"} => serving[v].seen.number \in Nat \ {0}
      BY <2>2, <3>1 DEF ServiceHolds
    <3> QED
      BY <1>6, <2>2, <3>2 DEF B!Taken
  <2> QED
    BY <1>1, <2>2, <2>3 DEF ServiceHolds, EnvironmentHeld
<1>9. ServicesApart'
  <2>1. c.op # "inserted"
    BY DEF Rewrites, BugCreates
  <2> QED
    BY <1>2, <2>1 DEF BugsInd, ServicesApart
<1>10. ServedAlone'
  <2>1. SUFFICES ASSUME serial PROVE ServedAlone'
    BY <1>1 DEF ServedAlone
  <2>2. c.op \notin {"update", "status"} /\ \A v \in Workers : v # w => serving[v].op = "none"
    BY <2>1 DEF Rewrites
  <2> QED
    BY <1>2, <2>2 DEF ServedAlone
<1>11. crowded' /\ B!NumbersIdentify' /\ B!EnvironmentCatalogued'
  <2>1. B!NumbersIdentify'
    BY <1>3, <1>4 DEF BugsInd, B!NumbersIdentify, B!Live
  <2>2. B!EnvironmentCatalogued'
    BY <1>1, <1>3, <1>4 DEF BugsInd, B!EnvironmentCatalogued, B!Live
  <2> QED
    BY <1>1, <2>1, <2>2 DEF BugsInd
<1>12. B!ResolvedIffTerminal' /\ StatusesLogged'
  <2>1. B!ResolvedIffTerminal'
    BY <1>1, <1>3 DEF BugsInd, B!ResolvedIffTerminal, Rewrites
  <2>2. StatusesLogged'
    BY <1>3 DEF BugsInd, StatusesLogged, B!Live, Rewrites
  <2> QED
    BY <2>1, <2>2
<1>13. TitlesLogged'
  <2>1. SUFFICES ASSUME ~died', NEW a \in 1 .. BugIds, a # b PROVE TitleLoggedAt(a)'
    BY DEF TitlesLogged
  <2>2. TitleLoggedAt(a)
    BY <2>1 DEF BugsInd, TitlesLogged, Rewrites
  <2>3. bug'[a] = bug[a] /\ activity'[a] = activity[a]
    BY <1>3, <2>1
  <2>4. \A v \in Workers : WillLog(serving[v], a) => WillLog(serving[v], a)'
    <3>1. SUFFICES ASSUME NEW v \in Workers, WillLog(serving[v], a) PROVE WillLog(serving[v], a)'
      OBVIOUS
    <3>2. v # w
      BY <2>1, <3>1 DEF WillLog, Rewrites
    <3> QED
      BY <1>2, <2>3, <3>1, <3>2 DEF WillLog
  <2> QED
    BY <2>2, <2>3, <2>4 DEF TitleLoggedAt, TitleLogged, B!Live
<1>14. TitlesChained'
  <2>1. SUFFICES ASSUME ~died', serial, NEW a \in 1 .. BugIds, a # b PROVE TitleChainedAt(a)'
    BY <1>1 DEF TitlesChained
  <2>2. TitleChainedAt(a)
    BY <2>1 DEF BugsInd, TitlesChained, Rewrites
  <2>3. bug'[a] = bug[a] /\ activity'[a] = activity[a]
    BY <1>3, <2>1
  <2>4. \A v \in Workers : ~Edits(serving[v], a)
    BY <2>1 DEF Edits, Rewrites
  <2>5. \A v \in Workers : ~Edits(serving[v], a)'
    BY <1>2, <2>1, <2>4 DEF Edits, Rewrites
  <2>6. \A v \in Workers : ~WillChain(serving[v], a)
    BY <2>4 DEF WillChain
  <2> QED
    BY <2>2, <2>3, <2>5, <2>6 DEF TitleChainedAt, TitleNow, Chained, B!Live
<1> QED
  BY <1>5, <1>7, <1>8, <1>9, <1>10, <1>11, <1>12, <1>13, <1>14 DEF BugsInd

\* What a worker that does nothing holds.
LEMMA IdleHolds ==
  /\ B!NoBug \in BugRows /\ B!Idle \in Services
  /\ B!Idle.op = "none" /\ B!Idle.tries = 0 /\ B!Idle.lost = 0
  /\ B!Idle.holds = FALSE /\ B!Idle.sound = TRUE
  /\ B!NoBug.number = 0 /\ B!NoBug.status = "open" /\ ~B!NoBug.resolved
<1>1. B!NoBug \in BugRows
  BY TitlesAssumption DEF B!NoBug, BugRows, B!Statuses
<1>2. 0 \in 0 .. BugIds /\ 0 \in 0 .. Retries /\ 0 \in Nat
  BY BoundsAssumption
<1>3. B!Idle \in Services
  BY <1>1, <1>2, TitlesAssumption DEF B!Idle, Services, BugOps
<1> QED
  BY <1>1, <1>3 DEF B!Idle, B!NoBug

\* What is known of one worker.
LEMMA WorkerHolds ==
  ASSUME BugsInd, NEW w \in Workers
  PROVE  /\ serving[w] \in Services /\ serving[w].op \in BugOps /\ serving[w].bug \in 0 .. BugIds
         /\ serving[w].seen \in BugRows /\ serving[w].seen.number \in Nat
         /\ serving[w].tries \in 0 .. Retries /\ serving[w].lost \in Nat
         /\ ServiceHolds(serving[w])
         /\ serial /\ serving[w].op # "none" => \A v \in Workers : v # w => serving[v].op = "none"
<1>1. serving[w] \in Services /\ ServiceHolds(serving[w])
  BY DEF BugsInd, BugRowsTyped, ServicesHold
<1>2. /\ serving[w].op \in BugOps /\ serving[w].bug \in 0 .. BugIds /\ serving[w].seen \in BugRows
      /\ serving[w].tries \in 0 .. Retries /\ serving[w].lost \in Nat
  BY <1>1 DEF Services
<1>3. serving[w].seen.number \in Nat
  BY <1>2 DEF BugRows
<1>4. serial /\ serving[w].op # "none" => \A v \in Workers : v # w => serving[v].op = "none"
  BY DEF BugsInd, ServedAlone
<1> QED
  BY <1>1, <1>2, <1>3, <1>4

\* A worker takes a request only when it does nothing, and served one at a time when none does.
LEMMA ServeHolds ==
  ASSUME BugsInd, NEW w \in Workers, B!Serve(w)
  PROVE  /\ serving[w] = B!Idle /\ serving[w].op = "none"
         /\ serial => \A v \in Workers : serving[v].op = "none"
         /\ served' \in 0 .. BugRequests /\ served < served' /\ served' = served + 1
         /\ \A b \in 1 .. BugIds : ~WillLog(serving[w], b) /\ ~WillChain(serving[w], b)
<1>1. serving[w] = B!Idle /\ (serial => \A v \in Workers : serving[v] = B!Idle)
        /\ served < BugRequests /\ served' = served + 1
  BY DEF B!Serve
<1>2. served \in 0 .. BugRequests
  BY DEF BugsInd, BugRowsTyped
<1>3. served' \in 0 .. BugRequests /\ served < served'
  BY <1>1, <1>2, BoundsAssumption
<1> QED
  BY <1>1, <1>3, IdleHolds DEF WillLog, WillChain, Edits

\* What holds of every request that goes on, but for a creation that has a new number.
Continues(w, c) ==
  /\ serving' = [serving EXCEPT ![w] = c]
  /\ UNCHANGED <<serial, bug, catalog, activity, born>>
  /\ served' \in 0 .. BugRequests /\ served <= served'
  /\ loose \subseteq loose' /\ loose' \subseteq 1 .. BugIds
  /\ crowded' = TRUE /\ died' \in BOOLEAN /\ (died => died')
  /\ c.op \in BugCreates => serving[w].op \in BugCreates
  /\ c.op \in {"insert", "inserted"} => c.seen.number <= Ended + 1
  /\ c.op = "inserted" => \A v \in Workers : v # w /\ serving[v].op = "inserted" =>
       serving[v].seen.number # c.seen.number
  /\ c.op # "none" /\ serving[w].op = "none" /\ serial => \A v \in Workers : serving[v].op = "none"
  /\ serial /\ c.op \in {"update", "status"} => c.seen = bug[c.bug]
  /\ ~died' => \A b \in 1 .. BugIds :
       /\ WillLog(serving[w], b) => WillLog(c, b)
       /\ serial /\ WillChain(serving[w], b) => WillChain(c, b) \/ bug[b].title = TitleNow(b)
       /\ serial /\ B!Live(b) /\ Edits(c, b) => WillChain(c, b)

\* Such a request keeps what is known.
LEMMA RequestContinues ==
  ASSUME BugsInd, NEW w \in Workers, NEW c \in Services, Continues(w, c), ServiceHolds(c)'
  PROVE  BugsInd'
<1>1. /\ serving' = [serving EXCEPT ![w] = c]
      /\ UNCHANGED <<serial, bug, catalog, activity, born>> /\ serving \in [Workers -> Services]
  BY DEF Continues, BugsInd, BugRowsTyped
<1>2. born' \in 0 .. BugIds /\ served' \in 0 .. BugRequests /\ born' <= served'
  <2>1. born \in 0 .. BugIds /\ born <= served /\ served \in 0 .. BugRequests /\ served <= served'
          /\ served' \in 0 .. BugRequests
    BY DEF Continues, BugsInd, BugRowsTyped
  <2> QED
    BY <1>1, <2>1, BoundsAssumption
<1>3. Ended <= Ended'
  <2>1. BugRowsTyped /\ born' \in 0 .. BugIds /\ born' = born /\ serving'[w] = c
          /\ (\A v \in Workers : v # w => serving'[v].op = serving[v].op)
    BY <1>1, <1>2 DEF BugsInd
  <2>2. /\ Ended \in Int
        /\ (c.op \in BugCreates <=> serving[w].op \in BugCreates) => Ended' = Ended
        /\ c.op \notin BugCreates /\ serving[w].op \in BugCreates => Ended' = Ended + 1
    BY <2>1, EndedMoves
  <2>3. c.op \in BugCreates => serving[w].op \in BugCreates
    BY DEF Continues
  <2>4. Ended' = Ended \/ Ended' = Ended + 1
    BY <2>2, <2>3
  <2> QED
    BY <2>2, <2>4
<1>4. serial /\ c.op # "none" => \A v \in Workers : v # w => serving[v].op = "none"
  BY WorkerHolds DEF Continues
<1>5. Goes(w, c)
  BY <1>1, <1>2, <1>3, <1>4 DEF Continues, Goes
<1> QED
  BY <1>5, ServiceMoves

\* A request that ends has nothing left to log, or has died.
LEMMA RequestEnds ==
  ASSUME BugsInd, NEW w \in Workers, B!Ends(w),
         UNCHANGED <<serial, bug, catalog, activity, served, born>>,
         loose \subseteq loose', loose' \subseteq 1 .. BugIds,
         crowded' = TRUE, died' \in BOOLEAN, died => died',
         ~died' => \A b \in 1 .. BugIds : ~WillLog(serving[w], b)
           /\ (serial /\ WillChain(serving[w], b) => bug[b].title = TitleNow(b))
  PROVE  BugsInd'
<1>1. serving' = [serving EXCEPT ![w] = B!Idle]
  BY DEF B!Ends, B!Becomes
<1>2. served' \in 0 .. BugRequests /\ served <= served'
  BY BoundsAssumption DEF BugsInd, BugRowsTyped
<1>3. \A b \in 1 .. BugIds : ~Edits(B!Idle, b)
  BY IdleHolds DEF Edits
<1>4. B!Idle.op \notin BugCreates
  BY IdleHolds DEF BugCreates
<1>5. B!Idle.op = "none"
  BY IdleHolds
<1>6. Continues(w, B!Idle)
  BY <1>1, <1>2, <1>3, <1>4, <1>5 DEF Continues
<1>7. B!Idle \in Services /\ ServiceHolds(B!Idle)'
  <2>1. B!Idle.op = "none" /\ "none" \notin BugCreates
    BY IdleHolds DEF BugCreates
  <2>2. B!Idle' = B!Idle
    OBVIOUS
  <2> QED
    BY <2>1, IdleHolds DEF ServiceHolds, B!Idle, B!NoBug
<1> QED
  BY <1>6, <1>7, RequestContinues

\* A creation is begun: it has no number, and its environment is yet to be looked at, or is
\* there, or need not be.
LEMMA BeginCreateHolds ==
  ASSUME BugsInd, NEW w \in Workers, NEW env \in Environments \union {"none"},
         NEW catalogued \in BOOLEAN, NEW sound \in BOOLEAN, B!BeginCreate(w, env, catalogued, sound)
  PROVE  BugsInd'
<1> DEFINE missing == env \notin catalog \union {"none"}
           op == IF missing /\ catalogued THEN "environment" ELSE "number"
<1>1. PICK c : c = [B!Idle EXCEPT !.op = op, !.bug = born + 1, !.value = env, !.sound = sound]
  OBVIOUS
<1>2. /\ B!Serve(w) /\ born < B!Max(1 .. BugIds) /\ born' = born + 1
      /\ serving' = [serving EXCEPT ![w] = c]
      /\ loose' = IF missing /\ ~catalogued THEN loose \union {born + 1} ELSE loose
      /\ UNCHANGED <<serial, bug, catalog, activity, crowded, died>>
  BY <1>1 DEF B!BeginCreate, B!Becomes
<1>3. born' \in 0 .. BugIds /\ born + 1 \in 1 .. BugIds
  <2>1. BugIds \in Nat /\ 1 .. BugIds \in SUBSET (0 .. BugIds) /\ 1 .. BugIds # {}
    BY BoundsAssumption
  <2>2. B!Max(1 .. BugIds) \in 1 .. BugIds
    BY <2>1, GreatestNumber
  <2>3. born \in 0 .. BugIds
    BY DEF BugsInd, BugRowsTyped
  <2> QED
    BY <1>2, <2>2, <2>3, BoundsAssumption
<1>4. /\ serving[w].op = "none" /\ (serial => \A v \in Workers : serving[v].op = "none")
      /\ served' \in 0 .. BugRequests /\ served' = served + 1
      /\ \A b \in 1 .. BugIds : ~WillLog(serving[w], b) /\ ~WillChain(serving[w], b)
  BY <1>2, ServeHolds
<1>5. /\ c.op \in {"number", "environment"} /\ c.bug = born + 1 /\ c.value = env
      /\ c.tries = 0 /\ c.lost = 0 /\ c.holds = FALSE
      /\ c.op = "environment" \/ env = "none" \/ env \in catalog \/ c.bug \in loose'
      /\ c.op = "environment" => env # "none"
  <2>1. c = [op |-> op, bug |-> born + 1, value |-> env, seen |-> B!NoBug, tries |-> 0, lost |-> 0,
             holds |-> FALSE, sound |-> sound]
    BY <1>1 DEF B!Idle
  <2>2. op = "environment" \/ env = "none" \/ env \in catalog \/ born + 1 \in loose'
    BY <1>2
  <2>3. op \in {"number", "environment"} /\ (op = "environment" => env # "none")
    OBVIOUS
  <2> QED
    BY <2>1, <2>2, <2>3
<1>6. c \in Services
  <2>1. op \in BugOps /\ born + 1 \in 0 .. BugIds
    BY <1>3 DEF BugOps, BugCreates
  <2> QED
    BY <1>1, <2>1, IdleHolds DEF Services
<1>7. ServiceHolds(c)'
  <2>1. /\ c.bug \in 1 .. BugIds /\ c.value \in Environments \union {"none"} /\ c.tries <= c.lost
        /\ c.holds = FALSE /\ c.op \in {"number", "environment"}
        /\ (c.op = "environment" => c.value # "none")
    BY <1>3, <1>5
  <2>2. EnvironmentHeld(c)'
    BY <1>2, <1>5 DEF EnvironmentHeld
  <2> QED
    BY <2>1, <2>2 DEF ServiceHolds
<1>8. born' <= served'
  <2>1. born <= served /\ born \in 0 .. BugIds /\ served \in 0 .. BugRequests
    BY DEF BugsInd, BugRowsTyped
  <2> QED
    BY <1>2, <1>4, <2>1, BoundsAssumption
<1>9. Ended <= Ended'
  <2>1. BugRowsTyped /\ serving'[w] = c /\ (\A v \in Workers : v # w => serving'[v].op = serving[v].op)
          /\ c.op \in BugCreates /\ serving[w].op \notin BugCreates
    BY <1>2, <1>4, <1>5 DEF BugsInd, BugRowsTyped, BugCreates
  <2>2. Ended \in Int /\ Ended' = Ended
    BY <1>2, <1>3, <2>1, EndedMoves
  <2> QED
    BY <2>2
<1>10. ~(c.op \in {"insert", "inserted", "update", "status"}) /\ \A b \in 1 .. BugIds : ~Edits(c, b)
  BY <1>5 DEF Edits
<1>11. /\ crowded' = TRUE /\ died' \in BOOLEAN
       /\ loose \subseteq loose' /\ loose' \subseteq 1 .. BugIds
  <2>1. loose \subseteq 1 .. BugIds /\ crowded /\ died \in BOOLEAN
    BY DEF BugsInd, BugRowsTyped
  <2>2. loose \subseteq loose' /\ loose' \subseteq 1 .. BugIds
    BY <1>2, <1>3, <2>1
  <2> QED
    BY <1>2, <2>1, <2>2
<1>12. Goes(w, c)
  BY <1>2, <1>3, <1>4, <1>8, <1>9, <1>10, <1>11 DEF Goes
<1> QED
  BY <1>6, <1>7, <1>12, ServiceMoves

\* The environment is inserted, or the creation dies with the insert.
LEMMA InsertEnvironmentHolds ==
  ASSUME BugsInd, NEW w \in Workers, B!InsertEnvironment(w)
  PROVE  BugsInd'
<1>1. /\ serving[w].op = "environment"
      /\ UNCHANGED <<serial, bug, catalog, activity, served, born, loose, crowded>>
      /\ \/ B!Ends(w) /\ died' = TRUE
         \/ B!Becomes(w, [serving[w] EXCEPT !.op = "number", !.holds = TRUE]) /\ UNCHANGED died
  BY DEF B!InsertEnvironment, B!Does
<1>2. /\ crowded' = TRUE /\ died \in BOOLEAN /\ loose' \subseteq 1 .. BugIds
      /\ served' \in 0 .. BugRequests /\ served <= served' /\ loose \subseteq loose'
  BY <1>1, BoundsAssumption DEF BugsInd, BugRowsTyped
<1>3. CASE B!Ends(w) /\ died' = TRUE
  BY <1>1, <1>2, <1>3, RequestEnds
<1>4. CASE B!Becomes(w, [serving[w] EXCEPT !.op = "number", !.holds = TRUE]) /\ UNCHANGED died
  <2>1. PICK c : c = [serving[w] EXCEPT !.op = "number", !.holds = TRUE]
    OBVIOUS
  <2>2. serving[w] \in Services /\ ServiceHolds(serving[w])
    BY WorkerHolds
  <2>3. /\ c.op = "number" /\ c.bug = serving[w].bug /\ c.value = serving[w].value
        /\ c.tries = serving[w].tries /\ c.lost = serving[w].lost /\ c.sound = serving[w].sound
        /\ c.holds = TRUE /\ c \in Services
    BY <2>1, <2>2 DEF Services, BugOps, BugCreates
  <2>4. ServiceHolds(c)'
    <3>1. EnvironmentHeld(c)'
      BY <2>3 DEF EnvironmentHeld
    <3> QED
      BY <1>1, <2>2, <2>3, <3>1 DEF ServiceHolds, BugCreates
  <2>5. \A b \in 1 .. BugIds : ~WillLog(serving[w], b) /\ ~WillChain(serving[w], b) /\ ~Edits(c, b)
    BY <1>1, <2>3 DEF WillLog, WillChain, Edits
  <2>6. serving' = [serving EXCEPT ![w] = c]
    BY <1>4, <2>1 DEF B!Becomes
  <2>7. serving[w].op \in BugCreates /\ serving[w].op # "none"
    BY <1>1 DEF BugCreates
  <2>8. Continues(w, c)
    BY <1>1, <1>2, <1>4, <2>3, <2>5, <2>6, <2>7 DEF Continues
  <2> QED
    BY <2>3, <2>4, <2>8, RequestContinues
<1> QED
  BY <1>1, <1>3, <1>4

\* The next number is that of no bug, and at most the one after the creations that have ended.
LEMMA NextNumberHolds ==
  ASSUME BugsInd
  PROVE  /\ B!next_bug_number \in Nat /\ B!next_bug_number >= 1 /\ B!next_bug_number <= Ended + 1
         /\ ~B!Taken(B!next_bug_number)
<1> DEFINE numbers == {bug[b].number : b \in 1 .. BugIds} \union {0}
<1>1. /\ \A b \in 1 .. BugIds : bug[b].number \in Nat /\ bug[b].number <= Ended
      /\ 0 <= Ended
  BY DEF BugsInd, BugRowsTyped, BugRows, NumbersCounted
<1>2. Ended \in Nat
  <2>1. Ended \in Int
    <3>1. PICK n \in Nat : n = Cardinality(Creating)
      <4>1. Creating \in SUBSET Workers
        BY DEF Creating
      <4> QED
        BY <4>1, WorkersAssumption, FS_Subset, FS_CardinalityType
    <3>2. born \in Int
      BY BoundsAssumption DEF BugsInd, BugRowsTyped
    <3> QED
      BY <3>1, <3>2 DEF Ended
  <2> QED
    BY <1>1, <2>1
<1>3. numbers \in SUBSET (0 .. Ended) /\ numbers # {}
  BY <1>1, <1>2
<1>4. PICK m : m = B!Max(numbers)
  OBVIOUS
<1>5. m \in numbers /\ \A k \in numbers : m >= k
  BY <1>2, <1>3, <1>4, GreatestNumber
<1>6. B!next_bug_number = m + 1
  BY <1>4 DEF B!next_bug_number
<1>7. m \in Nat /\ m <= Ended
  BY <1>2, <1>3, <1>5
<1>8. ASSUME NEW b \in 1 .. BugIds PROVE bug[b].number # m + 1
  <2>1. PICK k : k = bug[b].number
    OBVIOUS
  <2>2. k \in Nat /\ m >= k
    BY <1>1, <1>5, <2>1
  <2> QED
    BY <1>7, <2>1, <2>2
<1> QED
  BY <1>2, <1>6, <1>7, <1>8 DEF B!Taken

\* A creation reads the next number.
LEMMA TakeNumberHolds ==
  ASSUME BugsInd, NEW w \in Workers, B!TakeNumber(w)
  PROVE  BugsInd'
<1>1. PICK n : n = B!next_bug_number
  OBVIOUS
<1>2. n \in Nat /\ n >= 1 /\ n <= Ended + 1 /\ ~B!Taken(n)
  BY <1>1, NextNumberHolds
<1>3. PICK c : c = [serving[w] EXCEPT !.op = "insert", !.seen.number = n]
  OBVIOUS
<1>4. /\ serving[w].op = "number" /\ serving' = [serving EXCEPT ![w] = c]
      /\ UNCHANGED <<serial, bug, catalog, activity, served, born, loose, crowded, died>>
  BY <1>1, <1>3 DEF B!TakeNumber, B!Does, B!Becomes
<1>5. /\ crowded' = TRUE /\ died' \in BOOLEAN /\ loose' \subseteq 1 .. BugIds
      /\ served' \in 0 .. BugRequests /\ served <= served'
  BY <1>4, BoundsAssumption DEF BugsInd, BugRowsTyped
<1>6. serving[w] \in Services /\ ServiceHolds(serving[w]) /\ serving[w].seen \in BugRows
  BY WorkerHolds
<1>7. /\ c.op = "insert" /\ c.bug = serving[w].bug /\ c.value = serving[w].value
      /\ c.tries = serving[w].tries /\ c.lost = serving[w].lost
      /\ c.holds = serving[w].holds /\ c.sound = serving[w].sound
      /\ c.seen = [serving[w].seen EXCEPT !.number = n]
  BY <1>3, <1>6 DEF Services
<1>8. c.seen \in BugRows /\ c.seen.number = n
  BY <1>2, <1>6, <1>7 DEF BugRows
<1>9. c \in Services
  <2>1. "insert" \in BugOps
    BY DEF BugOps, BugCreates
  <2>2. c = [serving[w] EXCEPT !.op = "insert", !.seen = c.seen]
    BY <1>3, <1>6, <1>7 DEF Services
  <2> QED
    BY <1>6, <1>8, <2>1, <2>2 DEF Services
<1>10. ServiceHolds(c)'
  <2>1. ~B!Taken(n)'
    BY <1>2, <1>4 DEF B!Taken
  <2>2. B!Taken(c.seen.number)' <=> B!Taken(n)'
    BY <1>8 DEF B!Taken
  <2>3. ServiceHolds(serving[w]) /\ serving[w].op \in BugCreates /\ loose' = loose
          /\ serving[w].op # "none"
    BY <1>4, <1>6 DEF BugCreates
  <2>4. /\ serving[w].bug \in 1 .. BugIds /\ serving[w].value \in Environments \union {"none"}
        /\ (serving[w].sound = TRUE => serving[w].tries <= serving[w].lost)
        /\ EnvironmentHeld(serving[w]) /\ (serving[w].holds = TRUE => serving[w].value # "none")
    BY <2>3 DEF ServiceHolds
  <2>5. EnvironmentHeld(c)'
    BY <1>4, <1>7, <2>4 DEF EnvironmentHeld
  <2> QED
    BY <1>2, <1>7, <1>8, <2>1, <2>2, <2>3, <2>4, <2>5 DEF ServiceHolds
<1>11. \A b \in 1 .. BugIds : ~WillLog(serving[w], b) /\ ~WillChain(serving[w], b) /\ ~Edits(c, b)
  BY <1>4, <1>7 DEF WillLog, WillChain, Edits
<1>12. serving[w].op \in BugCreates /\ serving[w].op # "none"
  BY <1>4 DEF BugCreates
<1>13. Continues(w, c)
  BY <1>2, <1>4, <1>5, <1>7, <1>8, <1>11, <1>12 DEF Continues
<1> QED
  BY <1>9, <1>10, <1>13, RequestContinues

\* The insert is let in, or refused and tried again, or gives up.
LEMMA InsertHolds ==
  ASSUME BugsInd, NEW w \in Workers, B!Insert(w)
  PROVE  BugsInd'
<1> DEFINE n == serving[w].seen.number
<1>1. /\ serving[w].op = "insert"
      /\ \A v \in Workers : serving[v].op = "inserted" => serving[v].seen.number # n
      /\ UNCHANGED <<serial, bug, catalog, activity, served, born, died>>
  BY DEF B!Insert, B!Does, B!Number
<1>2. \/ ~B!Taken(n) /\ B!Becomes(w, [serving[w] EXCEPT !.op = "inserted"])
           /\ UNCHANGED <<loose, crowded>>
      \/ /\ B!Taken(n) \/ ~serving[w].sound
         /\ loose' = IF serving[w].holds THEN loose \union {serving[w].bug} ELSE loose
         /\ \/ serving[w].tries + 1 < Retries /\ UNCHANGED crowded
                 /\ B!Becomes(w, [serving[w] EXCEPT !.op = "number", !.tries = @ + 1, !.holds = FALSE])
            \/ ~(serving[w].tries + 1 < Retries) /\ B!Ends(w)
                 /\ crowded' = (crowded /\ (serving[w].sound => serving[w].lost >= Retries))
  BY DEF B!Insert, B!Number, B!RolledBack
<1>3. /\ serving[w] \in Services /\ serving[w].seen.number \in Nat
      /\ serving[w].tries \in 0 .. Retries /\ serving[w].lost \in Nat
      /\ serving[w].holds \in BOOLEAN /\ serving[w].sound \in BOOLEAN
      /\ ServiceHolds(serving[w])
  BY WorkerHolds DEF Services
<1>4. /\ serving[w].bug \in 1 .. BugIds /\ serving[w].value \in Environments \union {"none"}
      /\ (serving[w].sound = TRUE => serving[w].tries <= serving[w].lost)
      /\ serving[w].seen.number >= 1
      /\ (B!Taken(n) /\ serving[w].sound = TRUE => serving[w].tries + 1 <= serving[w].lost)
      /\ EnvironmentHeld(serving[w]) /\ (serving[w].holds = TRUE => serving[w].value # "none")
  BY <1>1, <1>3 DEF ServiceHolds, BugCreates
<1>5. /\ died' \in BOOLEAN /\ loose \subseteq loose' /\ loose' \subseteq 1 .. BugIds
      /\ served' \in 0 .. BugRequests /\ served <= served' /\ crowded
  <2>1. /\ died \in BOOLEAN /\ loose \subseteq 1 .. BugIds /\ served \in 0 .. BugRequests
        /\ crowded
    BY DEF BugsInd, BugRowsTyped
  <2>2. served <= served
    BY <2>1, BoundsAssumption
  <2>3. loose \subseteq loose' /\ loose' \subseteq 1 .. BugIds
    <3>1. loose' = loose \/ loose' = loose \union {serving[w].bug}
      BY <1>2
    <3> QED
      BY <1>4, <2>1, <3>1
  <2> QED
    BY <1>1, <2>1, <2>2, <2>3
<1>6. \A b \in 1 .. BugIds : ~WillLog(serving[w], b) /\ ~WillChain(serving[w], b)
  BY <1>1 DEF WillLog, WillChain, Edits
<1>7. serving[w].op \in BugCreates /\ serving[w].op # "none"
  BY <1>1 DEF BugCreates
<1>8. n <= Ended + 1
  BY <1>1 DEF BugsInd, NumbersCounted
<1> HIDE DEF n
<1>9. CASE /\ ~B!Taken(n) /\ B!Becomes(w, [serving[w] EXCEPT !.op = "inserted"])
           /\ UNCHANGED <<loose, crowded>>
  <2>1. PICK c : c = [serving[w] EXCEPT !.op = "inserted"]
    OBVIOUS
  <2>2. /\ c.op = "inserted" /\ c.bug = serving[w].bug /\ c.value = serving[w].value /\ c.seen.number = n
        /\ c.tries = serving[w].tries /\ c.lost = serving[w].lost
        /\ c.holds = serving[w].holds /\ c.sound = serving[w].sound
    BY <1>3, <2>1 DEF Services, n
  <2>3. c \in Services
    BY <1>3, <2>1 DEF Services, BugOps, BugCreates
  <2>4. serving' = [serving EXCEPT ![w] = c]
    BY <1>9, <2>1 DEF B!Becomes
  <2>5. ServiceHolds(c)'
    <3>1. ~B!Taken(c.seen.number)'
      BY <1>1, <1>9, <2>2 DEF B!Taken
    <3>2. /\ c.bug \in 1 .. BugIds /\ c.value \in Environments \union {"none"}
          /\ (c.sound = TRUE => c.tries <= c.lost) /\ c.seen.number >= 1
          /\ (c.holds = TRUE => c.value # "none")
      BY <1>4, <1>5, <2>2 DEF n
    <3>3. EnvironmentHeld(c)'
      BY <1>1, <1>4, <1>9, <2>2 DEF EnvironmentHeld
    <3> QED
      BY <2>2, <3>1, <3>2, <3>3 DEF ServiceHolds
  <2>6. \A b \in 1 .. BugIds : ~Edits(c, b)
    BY <2>2 DEF Edits
  <2>7. Continues(w, c)
    BY <1>1, <1>5, <1>6, <1>7, <1>8, <1>9, <2>2, <2>4, <2>6 DEF Continues
  <2> QED
    BY <2>3, <2>5, <2>7, RequestContinues
<1>10. CASE /\ B!Taken(n) \/ ~serving[w].sound
            /\ loose' = IF serving[w].holds THEN loose \union {serving[w].bug} ELSE loose
            /\ serving[w].tries + 1 < Retries /\ UNCHANGED crowded
            /\ B!Becomes(w, [serving[w] EXCEPT !.op = "number", !.tries = @ + 1, !.holds = FALSE])
  <2>1. PICK c : c = [serving[w] EXCEPT !.op = "number", !.tries = @ + 1, !.holds = FALSE]
    OBVIOUS
  <2>2. /\ c.op = "number" /\ c.bug = serving[w].bug /\ c.value = serving[w].value
        /\ c.tries = serving[w].tries + 1 /\ c.lost = serving[w].lost
        /\ c.holds = FALSE /\ c.sound = serving[w].sound
    BY <1>3, <2>1 DEF Services
  <2>3. c \in Services
    <3>1. serving[w].tries + 1 \in 0 .. Retries /\ "number" \in BugOps
      BY <1>3, <1>10, BoundsAssumption DEF BugOps, BugCreates
    <3> QED
      BY <1>3, <2>1, <3>1 DEF Services
  <2>4. serving' = [serving EXCEPT ![w] = c]
    BY <1>10, <2>1 DEF B!Becomes
  <2>5. ServiceHolds(c)'
    <3>1. c.bug \in 1 .. BugIds /\ c.value \in Environments \union {"none"}
      BY <1>4, <2>2
    <3>2. c.sound = TRUE => c.tries <= c.lost
      BY <1>4, <1>10, <2>2
    <3>3. EnvironmentHeld(c)'
      <4>1. CASE serving[w].holds = TRUE
        <5>1. c.bug \in loose'
          BY <1>10, <2>2, <4>1
        <5> QED
          BY <5>1 DEF EnvironmentHeld
      <4>2. CASE serving[w].holds # TRUE
        BY <1>1, <1>4, <1>5, <2>2, <4>2 DEF EnvironmentHeld
      <4> QED
        BY <4>1, <4>2
    <3> QED
      BY <2>2, <3>1, <3>2, <3>3 DEF ServiceHolds
  <2>6. \A b \in 1 .. BugIds : ~Edits(c, b)
    BY <2>2 DEF Edits
  <2>7. Continues(w, c)
    BY <1>1, <1>5, <1>6, <1>7, <1>10, <2>2, <2>4, <2>6 DEF Continues
  <2> QED
    BY <2>3, <2>5, <2>7, RequestContinues
<1>11. CASE /\ B!Taken(n) \/ ~serving[w].sound
            /\ ~(serving[w].tries + 1 < Retries) /\ B!Ends(w)
            /\ crowded' = (crowded /\ (serving[w].sound => serving[w].lost >= Retries))
  <2>1. serving[w].sound => serving[w].lost >= Retries
    <3>1. PICK tries \in 0 .. Retries : tries = serving[w].tries
      BY <1>3
    <3>2. serving[w].sound = TRUE => tries + 1 <= serving[w].lost
      BY <1>4, <1>11, <3>1
    <3>3. tries + 1 >= Retries
      BY <1>11, <3>1, BoundsAssumption
    <3> QED
      BY <1>3, <3>2, <3>3, BoundsAssumption
  <2>2. crowded' = TRUE
    BY <1>5, <1>11, <2>1
  <2> QED
    BY <1>1, <1>5, <1>6, <1>11, <2>2, RequestEnds
<1> QED
  BY <1>2, <1>9, <1>10, <1>11 DEF n

\* An edit is begun with the row it has loaded, or refused for the title it started from.
LEMMA BeginUpdateHolds ==
  ASSUME BugsInd, NEW w \in Workers, NEW b \in 1 .. BugIds, NEW title \in Titles, NEW base,
         B!BeginUpdate(w, b, title, base)
  PROVE  BugsInd'
<1>1. /\ B!Serve(w)
      /\ \/ UNCHANGED serving
         \/ B!Becomes(w, [B!Idle EXCEPT !.op = "update", !.bug = b, !.value = title, !.seen = bug[b]])
      /\ UNCHANGED <<serial, bug, catalog, activity, born, loose, crowded, died>>
  BY DEF B!BeginUpdate
<1>2. /\ serving[w].op = "none" /\ (serial => \A v \in Workers : serving[v].op = "none")
      /\ served' \in 0 .. BugRequests /\ served < served'
      /\ \A a \in 1 .. BugIds : ~WillLog(serving[w], a) /\ ~WillChain(serving[w], a)
  BY <1>1, ServeHolds
<1>3. /\ crowded' = TRUE /\ died' \in BOOLEAN /\ loose' \subseteq 1 .. BugIds /\ served <= served'
      /\ bug[b] \in BugRows /\ serving \in [Workers -> Services]
  BY <1>1, <1>2, BoundsAssumption DEF BugsInd, BugRowsTyped
<1>4. CASE UNCHANGED serving
  <2>1. PICK c : c = serving[w]
    OBVIOUS
  <2>2. serving' = [serving EXCEPT ![w] = c]
    BY <1>3, <1>4, <2>1
  <2>3. c \in Services /\ c.op = "none"
    BY <1>2, <2>1, WorkerHolds
  <2>4. ServiceHolds(c)'
    BY <2>3 DEF ServiceHolds, BugCreates
  <2>5. c.op \notin BugCreates /\ \A a \in 1 .. BugIds : ~Edits(c, a)
    BY <2>3 DEF Edits, BugCreates
  <2>6. Continues(w, c)
    BY <1>1, <1>2, <1>3, <2>2, <2>3, <2>5 DEF Continues
  <2> QED
    BY <2>3, <2>4, <2>6, RequestContinues
<1>5. CASE B!Becomes(w, [B!Idle EXCEPT !.op = "update", !.bug = b, !.value = title, !.seen = bug[b]])
  <2>1. PICK c : c = [B!Idle EXCEPT !.op = "update", !.bug = b, !.value = title, !.seen = bug[b]]
    OBVIOUS
  <2>2. /\ c.op = "update" /\ c.bug = b /\ c.value = title /\ c.seen = bug[b]
    BY <2>1, IdleHolds DEF B!Idle
  <2>3. c \in Services
    <3>1. "update" \in BugOps /\ b \in 0 .. BugIds
      BY BoundsAssumption DEF BugOps
    <3> QED
      BY <1>3, <2>1, <3>1, IdleHolds DEF Services
  <2>4. ServiceHolds(c)'
    BY <2>2 DEF ServiceHolds, BugCreates
  <2>5. serving' = [serving EXCEPT ![w] = c]
    BY <1>5, <2>1 DEF B!Becomes
  <2>6. \A a \in 1 .. BugIds : ~Edits(c, a)
    BY <2>2 DEF Edits
  <2>7. c.op \notin BugCreates
    BY <2>2 DEF BugCreates
  <2>8. Continues(w, c)
    BY <1>1, <1>2, <1>3, <2>2, <2>5, <2>6, <2>7 DEF Continues
  <2> QED
    BY <2>3, <2>4, <2>8, RequestContinues
<1> QED
  BY <1>1, <1>4, <1>5

\* A change of status is begun with the row it has loaded.
LEMMA BeginStatusHolds ==
  ASSUME BugsInd, NEW w \in Workers, NEW b \in 1 .. BugIds, NEW s \in B!Statuses,
         B!BeginStatus(w, b, s)
  PROVE  BugsInd'
<1>1. PICK c : c = [B!Idle EXCEPT !.op = "status", !.bug = b, !.value = s, !.seen = bug[b]]
  OBVIOUS
<1>2. /\ B!Serve(w) /\ serving' = [serving EXCEPT ![w] = c]
      /\ UNCHANGED <<serial, bug, catalog, activity, born, loose, crowded, died>>
  BY <1>1 DEF B!BeginStatus, B!Becomes
<1>3. /\ serving[w].op = "none" /\ (serial => \A v \in Workers : serving[v].op = "none")
      /\ served' \in 0 .. BugRequests /\ served < served'
      /\ \A a \in 1 .. BugIds : ~WillLog(serving[w], a) /\ ~WillChain(serving[w], a)
  BY <1>2, ServeHolds
<1>4. /\ crowded' = TRUE /\ died' \in BOOLEAN /\ loose' \subseteq 1 .. BugIds /\ served <= served'
      /\ bug[b] \in BugRows
  BY <1>2, <1>3, BoundsAssumption DEF BugsInd, BugRowsTyped
<1>5. /\ c.op = "status" /\ c.bug = b /\ c.value = s /\ c.seen = bug[b]
  BY <1>1, IdleHolds DEF B!Idle
<1>6. c \in Services
  <2>1. "status" \in BugOps /\ b \in 0 .. BugIds
    BY BoundsAssumption DEF BugOps
  <2> QED
    BY <1>1, <1>4, <2>1, IdleHolds DEF Services
<1>7. ServiceHolds(c)'
  BY <1>5 DEF ServiceHolds, BugCreates
<1>8. c.op \notin BugCreates /\ \A a \in 1 .. BugIds : ~Edits(c, a)
  BY <1>5 DEF BugCreates, Edits
<1>9. Continues(w, c)
  BY <1>2, <1>3, <1>4, <1>5, <1>8 DEF Continues
<1> QED
  BY <1>6, <1>7, <1>9, RequestContinues

\* The refresh finds a title that has changed, which is yet to be logged, or none, or no bug.
LEMMA ReloadHolds ==
  ASSUME BugsInd, NEW w \in Workers, B!Reload(w)
  PROVE  BugsInd'
<1> DEFINE b == serving[w].bug
<1>1. /\ serving[w].op = "reload"
      /\ UNCHANGED <<serial, bug, catalog, activity, served, born, loose, crowded>>
      /\ \/ B!Ends(w) /\ died' = TRUE
         \/ B!Live(b) /\ UNCHANGED died /\ bug[b].title = serving[w].seen.title /\ B!Ends(w)
         \/ /\ B!Live(b) /\ UNCHANGED died /\ bug[b].title # serving[w].seen.title
            /\ B!Becomes(w, [serving[w] EXCEPT !.op = "record", !.value = bug[b].title])
  BY DEF B!Reload, B!Does
<1>2. serving[w] \in Services /\ ServiceHolds(serving[w]) /\ b \in 1 .. BugIds
  <2>1. serving[w] \in Services /\ ServiceHolds(serving[w])
    BY WorkerHolds
  <2> QED
    BY <1>1, <2>1 DEF ServiceHolds
<1>3. /\ crowded' = TRUE /\ died' \in BOOLEAN /\ loose' \subseteq 1 .. BugIds
      /\ loose \subseteq loose' /\ served' \in 0 .. BugRequests /\ served <= served'
      /\ bug[b] \in BugRows
  <2>1. served \in 0 .. BugRequests /\ bug[b] \in BugRows /\ crowded /\ died \in BOOLEAN
          /\ loose \subseteq 1 .. BugIds
    BY <1>2 DEF BugsInd, BugRowsTyped
  <2>2. served <= served
    BY <2>1, BoundsAssumption
  <2>3. died' \in BOOLEAN
    BY <1>1, <2>1
  <2> QED
    BY <1>1, <2>1, <2>2, <2>3
<1>4. CASE B!Ends(w) /\ died' = TRUE
  BY <1>1, <1>3, <1>4, RequestEnds
<1>5. CASE B!Live(b) /\ UNCHANGED died /\ bug[b].title = serving[w].seen.title /\ B!Ends(w)
  <2>1. \A a \in 1 .. BugIds : ~WillLog(serving[w], a)
    BY <1>1, <1>5 DEF WillLog
  <2>2. \A a \in 1 .. BugIds : WillChain(serving[w], a) => bug[a].title = TitleNow(a)
    BY <1>1, <1>5 DEF WillChain, Edits
  <2> QED
    BY <1>1, <1>3, <1>5, <2>1, <2>2, RequestEnds
<1>6. CASE /\ B!Live(b) /\ UNCHANGED died /\ bug[b].title # serving[w].seen.title
           /\ B!Becomes(w, [serving[w] EXCEPT !.op = "record", !.value = bug[b].title])
  <2>1. PICK c : c = [serving[w] EXCEPT !.op = "record", !.value = bug[b].title]
    OBVIOUS
  <2>2. /\ c.op = "record" /\ c.bug = b /\ c.value = bug[b].title /\ c.seen = serving[w].seen
    BY <1>2, <2>1 DEF Services
  <2>3. bug[b].title \in Titles
    BY <1>3 DEF BugRows
  <2>4. c \in Services
    <3>1. "record" \in BugOps
      BY DEF BugOps
    <3> QED
      BY <1>2, <2>1, <2>3, <3>1 DEF Services
  <2>5. ServiceHolds(c)'
    BY <1>2, <2>2, <2>3 DEF ServiceHolds, BugCreates
  <2>6. serving' = [serving EXCEPT ![w] = c]
    BY <1>6, <2>1 DEF B!Becomes
  <2>7. \A a \in 1 .. BugIds : /\ WillLog(serving[w], a) => WillLog(c, a)
                               /\ WillChain(serving[w], a) => WillChain(c, a)
                               /\ Edits(c, a) => Edits(serving[w], a)
    BY <1>1, <2>2 DEF WillLog, WillChain, Edits
  <2>8. ASSUME ~died', NEW a \in 1 .. BugIds, serial, B!Live(a), Edits(c, a)
        PROVE  WillChain(c, a)
    <3>1. ~died
      BY <1>6, <2>8
    <3>2. TitleChainedAt(a)
      BY <2>8, <3>1 DEF BugsInd, TitlesChained
    <3> QED
      BY <2>7, <2>8, <3>2 DEF TitleChainedAt
  <2>9. c.op \notin BugCreates /\ c.op \notin {"update", "status", "insert", "inserted"}
          /\ serving[w].op # "none"
    BY <1>1, <2>2 DEF BugCreates
  <2>10. Continues(w, c)
    BY <1>1, <1>3, <1>6, <2>6, <2>7, <2>8, <2>9 DEF Continues
  <2> QED
    BY <2>4, <2>5, <2>10, RequestContinues
<1> HIDE DEF b
<1> QED
  BY <1>1, <1>4, <1>5, <1>6

\* A worker that dies logs nothing more.
LEMMA BugDieHolds ==
  ASSUME BugsInd, NEW w \in Workers, B!Die(w)
  PROVE  BugsInd'
<1>1. B!Ends(w) /\ died' = TRUE
        /\ UNCHANGED <<serial, bug, catalog, activity, served, born, loose, crowded>>
  BY DEF B!Die
<1>2. crowded' = TRUE /\ loose \subseteq loose' /\ loose' \subseteq 1 .. BugIds
  BY <1>1 DEF BugsInd, BugRowsTyped
<1> QED
  BY <1>1, <1>2, RequestEnds

\* An edit writes its title, which is to be logged where the log ends, or finds its bug gone.
LEMMA CommitUpdateHolds ==
  ASSUME BugsInd, NEW w \in Workers, B!CommitUpdate(w)
  PROVE  BugsInd'
<1>0. PICK b : b = serving[w].bug
  OBVIOUS
<1>1. PICK c : c = [serving[w] EXCEPT !.op = "reload"]
  OBVIOUS
<1>2. /\ serving[w].op = "update"
      /\ UNCHANGED <<serial, catalog, activity, served, born, loose, crowded>>
      /\ \/ B!Ends(w) /\ died' = TRUE /\ UNCHANGED bug
         \/ B!Live(b) /\ UNCHANGED <<bug, died>> /\ serving' = [serving EXCEPT ![w] = c]
         \/ /\ B!Live(b) /\ UNCHANGED died /\ serving' = [serving EXCEPT ![w] = c]
            /\ serving[w].value # serving[w].seen.title
            /\ bug' = [bug EXCEPT ![b].title = serving[w].value]
  BY <1>0, <1>1 DEF B!CommitUpdate, B!Does, B!Becomes
<1>3. serving[w] \in Services /\ ServiceHolds(serving[w]) /\ b \in 1 .. BugIds
        /\ serving[w].value \in Titles
  <2>1. serving[w] \in Services /\ ServiceHolds(serving[w])
    BY WorkerHolds
  <2> QED
    BY <1>0, <1>2, <2>1 DEF ServiceHolds
<1>4. /\ crowded' = TRUE /\ died' \in BOOLEAN /\ loose' \subseteq 1 .. BugIds
      /\ loose \subseteq loose' /\ served' \in 0 .. BugRequests /\ served <= served'
      /\ bug[b] \in BugRows /\ activity[b] \in Seq(LogRows) /\ bug \in [1 .. BugIds -> BugRows]
      /\ activity \in [1 .. BugIds -> Seq(LogRows)]
  <2>1. /\ served \in 0 .. BugRequests /\ crowded /\ died \in BOOLEAN /\ loose \subseteq 1 .. BugIds
        /\ bug \in [1 .. BugIds -> BugRows] /\ activity \in [1 .. BugIds -> Seq(LogRows)]
    BY DEF BugsInd, BugRowsTyped
  <2>2. served <= served
    BY <2>1, BoundsAssumption
  <2>3. died' \in BOOLEAN /\ bug[b] \in BugRows /\ activity[b] \in Seq(LogRows)
    BY <1>2, <1>3, <2>1
  <2> QED
    BY <1>2, <2>1, <2>2, <2>3
<1>5. /\ c.op = "reload" /\ c.bug = b /\ c.value = serving[w].value /\ c.seen = serving[w].seen
      /\ c \in Services
  <2>1. "reload" \in BugOps
    BY DEF BugOps
  <2> QED
    BY <1>0, <1>1, <1>3, <2>1 DEF Services
<1>6. ServiceHolds(c)'
  BY <1>3, <1>5 DEF ServiceHolds, BugCreates
<1>7. \A a \in 1 .. BugIds : ~WillLog(serving[w], a) /\ ~WillChain(serving[w], a)
                               /\ ~Edits(serving[w], a)
  BY <1>2 DEF WillLog, WillChain, Edits
<1>8. serial => /\ \A v \in Workers : v # w => serving[v].op = "none"
                /\ serving[w].seen = bug[b]
  BY <1>0, <1>2, WorkerHolds DEF BugsInd, ServedAlone
\* Served alone, the log ends with the title that is replaced.
<1>9. serial /\ ~died /\ B!Live(b) => Chained(activity[b]) /\ bug[b].title = TitleNow(b)
  <2>1. SUFFICES ASSUME serial, ~died, B!Live(b)
                 PROVE  Chained(activity[b]) /\ bug[b].title = TitleNow(b)
    OBVIOUS
  <2>2. TitleChainedAt(b)
    BY <1>3, <2>1 DEF BugsInd, TitlesChained
  <2>3. \A v \in Workers : ~WillChain(serving[v], b)
    BY <1>3, <1>7, <1>8, <2>1 DEF WillChain, Edits
  <2> QED
    BY <2>1, <2>2, <2>3 DEF TitleChainedAt
<1>10. c.op \notin BugCreates /\ c.op \notin {"update", "status", "insert", "inserted"}
         /\ serving[w].op # "none" /\ serving[w].op \notin BugCreates
         /\ serving[w].op \notin {"reload", "record"}
  BY <1>2, <1>5 DEF BugCreates
<1>11. CASE B!Ends(w) /\ died' = TRUE /\ UNCHANGED bug
  BY <1>2, <1>4, <1>11, RequestEnds
<1>12. CASE B!Live(b) /\ UNCHANGED <<bug, died>> /\ serving' = [serving EXCEPT ![w] = c]
  <2>1. ASSUME ~died', NEW a \in 1 .. BugIds, serial, B!Live(a), Edits(c, a)
        PROVE  WillChain(c, a)
    <3>1. a = b /\ ~died
      BY <1>5, <1>12, <2>1 DEF Edits
    <3>2. c.seen.title = TitleNow(b)
      BY <1>5, <1>8, <1>9, <2>1, <3>1
    <3> QED
      BY <1>5, <2>1, <3>1, <3>2 DEF WillChain
  <2>2. Continues(w, c)
    BY <1>2, <1>4, <1>7, <1>10, <1>12, <2>1 DEF Continues
  <2> QED
    BY <1>5, <1>6, <2>2, RequestContinues
<1>13. CASE /\ B!Live(b) /\ UNCHANGED died /\ serving' = [serving EXCEPT ![w] = c]
            /\ serving[w].value # serving[w].seen.title
            /\ bug' = [bug EXCEPT ![b].title = serving[w].value]
  <2>1. PICK row : row = [bug[b] EXCEPT !.title = serving[w].value]
    OBVIOUS
  <2>2. /\ row.number = bug[b].number /\ row.title = serving[w].value /\ row.env = bug[b].env
        /\ row.status = bug[b].status /\ row.resolved = bug[b].resolved /\ row \in BugRows
    BY <1>3, <1>4, <2>1 DEF BugRows
  <2>3. bug' = [bug EXCEPT ![b] = row]
    BY <1>3, <1>4, <1>13, <2>1
  <2>4. PICK log : log = activity[b]
    OBVIOUS
  <2>5. activity' = [activity EXCEPT ![b] = log] /\ log \in Seq(LogRows)
    BY <1>2, <1>3, <1>4, <2>4
  <2>6. bug'[b] = row /\ activity'[b] = log /\ serving'[w] = c
    <3>1. serving \in [Workers -> Services]
      BY DEF BugsInd, BugRowsTyped
    <3> QED
      BY <1>3, <1>4, <1>13, <2>3, <2>5, <3>1
  <2>7. serial => (row.resolved <=> row.status \in B!TERMINAL_BUG_STATUSES)
    BY <1>3, <2>2 DEF BugsInd, B!ResolvedIffTerminal
  <2>8. row.number # 0 => StatusRows(log) # {} /\ row.status = B!StatusIn(log)
    BY <1>3, <2>2, <2>4 DEF BugsInd, StatusesLogged, B!Live
  <2>9. (~died => TitleLoggedAt(b))'
    <3>1. WillLog(serving[w], b)'
      BY <1>5, <1>13, <2>2, <2>6 DEF WillLog
    <3> QED
      BY <3>1 DEF TitleLoggedAt
  <2>10. (serial /\ ~died => TitleChainedAt(b))'
    <3>1. SUFFICES ASSUME serial, ~died PROVE TitleChainedAt(b)'
      BY <1>2, <1>13
    <3>2. Chained(activity[b])' /\ TitleNow(b)' = TitleNow(b)
      BY <1>2, <1>9, <1>13, <3>1 DEF Chained, TitleNow
    <3>3. WillChain(serving[w], b)'
      BY <1>5, <1>8, <1>9, <1>13, <2>6, <3>1, <3>2 DEF WillChain, Edits
    <3>4. \A v \in Workers : v # w => ~Edits(serving[v], b)'
      BY <1>8, <1>13, <3>1 DEF Edits
    <3> QED
      BY <3>2, <3>3, <3>4 DEF TitleChainedAt
  <2>11. serial => \A v \in Workers : v # w => serving[v].op = "none"
    BY <1>8
  <2>12. Edits(c, b)
    BY <1>5 DEF Edits
  <2>13. Rewrites(w, c, b, row, log)
    BY <1>2, <1>4, <1>10, <1>13, <2>2, <2>3, <2>5, <2>7, <2>8, <2>11, <2>12 DEF Rewrites
  <2> QED
    BY <1>3, <1>5, <1>6, <2>2, <2>5, <2>9, <2>10, <2>13, RowMoves
<1> QED
  BY <1>2, <1>11, <1>12, <1>13

\* An edit is logged from the title it replaced to the one that was read back, or its bug is gone.
LEMMA RecordChangeHolds ==
  ASSUME BugsInd, NEW w \in Workers, B!RecordChange(w)
  PROVE  BugsInd'
<1>0. PICK b : b = serving[w].bug
  OBVIOUS
<1>1. PICK row : row = B!Row("title", serving[w].seen.title, serving[w].value)
  OBVIOUS
<1>2. /\ serving[w].op = "record" /\ B!Ends(w) /\ serving' = [serving EXCEPT ![w] = B!Idle]
      /\ UNCHANGED <<serial, bug, catalog, served, born, loose, crowded>>
      /\ \/ died' = TRUE /\ UNCHANGED activity
         \/ B!Live(b) /\ UNCHANGED died /\ activity' = [activity EXCEPT ![b] = Append(@, row)]
  BY <1>0, <1>1 DEF B!RecordChange, B!Does, B!Ends, B!Becomes
<1>3. serving[w] \in Services /\ ServiceHolds(serving[w]) /\ b \in 1 .. BugIds
        /\ serving[w].value \in Titles /\ serving[w].seen.title \in Titles
  <2>1. serving[w] \in Services /\ ServiceHolds(serving[w]) /\ serving[w].seen \in BugRows
    BY WorkerHolds
  <2> QED
    BY <1>0, <1>2, <2>1 DEF ServiceHolds, BugRows
<1>4. /\ crowded' = TRUE /\ died' \in BOOLEAN /\ loose' \subseteq 1 .. BugIds
      /\ loose \subseteq loose' /\ served' \in 0 .. BugRequests /\ served <= served'
      /\ bug[b] \in BugRows /\ activity[b] \in Seq(LogRows) /\ bug \in [1 .. BugIds -> BugRows]
      /\ activity \in [1 .. BugIds -> Seq(LogRows)] /\ serving \in [Workers -> Services]
  <2>1. /\ served \in 0 .. BugRequests /\ crowded /\ died \in BOOLEAN /\ loose \subseteq 1 .. BugIds
        /\ bug \in [1 .. BugIds -> BugRows] /\ activity \in [1 .. BugIds -> Seq(LogRows)]
        /\ serving \in [Workers -> Services]
    BY DEF BugsInd, BugRowsTyped
  <2>2. served <= served
    BY <2>1, BoundsAssumption
  <2>3. died' \in BOOLEAN /\ bug[b] \in BugRows /\ activity[b] \in Seq(LogRows)
    BY <1>2, <1>3, <2>1
  <2> QED
    BY <1>2, <2>1, <2>2, <2>3
<1>5. row \in LogRows /\ row.field = "title" /\ row.from = serving[w].seen.title
        /\ row.to = serving[w].value
  BY <1>1, <1>3 DEF B!Row, LogRows
<1>6. serial => \A v \in Workers : v # w => serving[v].op = "none"
  BY <1>2, WorkerHolds
<1>7. CASE died' = TRUE /\ UNCHANGED activity
  BY <1>2, <1>4, <1>7, RequestEnds
<1>8. CASE B!Live(b) /\ UNCHANGED died /\ activity' = [activity EXCEPT ![b] = Append(@, row)]
  <2>1. PICK log : log = Append(activity[b], row)
    OBVIOUS
  <2>2. log \in Seq(LogRows) /\ Len(activity[b]) \in Nat /\ DOMAIN activity[b] = 1 .. Len(activity[b])
          /\ Len(log) = Len(activity[b]) + 1 /\ DOMAIN log = 1 .. Len(activity[b]) + 1
          /\ log[Len(activity[b]) + 1] = row /\ \A i \in 1 .. Len(activity[b]) : log[i] = activity[b][i]
    BY <1>4, <1>5, <2>1, RowAppended
  <2>3. activity' = [activity EXCEPT ![b] = log] /\ activity'[b] = log
    BY <1>3, <1>4, <1>8, <2>1
  <2>4. PICK now : now = bug[b]
    OBVIOUS
  <2>5. now \in BugRows /\ bug' = [bug EXCEPT ![b] = now]
    BY <1>2, <1>3, <1>4, <2>4
  <2>6. StatusRows(log) # {} /\ now.status = B!StatusIn(log)
    <3>1. StatusRows(activity[b]) # {} /\ now.status = B!StatusIn(activity[b])
      BY <1>3, <1>8, <2>4 DEF BugsInd, StatusesLogged
    <3> QED
      BY <1>4, <1>5, <2>1, <3>1, StatusOfLonger
  <2>7. (~died => TitleLoggedAt(b))'
    <3>1. SUFFICES ASSUME ~died, bug[b].title # 0 PROVE TitleLoggedAt(b)'
      BY <1>2, <1>8 DEF TitleLoggedAt
    <3>2. TitleLogged(b) \/ \E v \in Workers : WillLog(serving[v], b)
      BY <1>3, <1>8, <3>1 DEF BugsInd, TitlesLogged, TitleLoggedAt
    <3>3. TitleLogged(b) => TitleLogged(b)'
      BY <1>2, <2>2, <2>3 DEF TitleLogged
    <3>4. WillLog(serving[w], b) => TitleLogged(b)'
      <4>1. SUFFICES ASSUME serving[w].value = bug[b].title PROVE TitleLogged(b)'
        BY <1>2 DEF WillLog
      <4>2. Len(activity[b]) + 1 \in DOMAIN log
        BY <2>2
      <4> QED
        BY <1>2, <1>5, <2>2, <2>3, <4>1, <4>2 DEF TitleLogged
    <3>5. \A v \in Workers : v # w /\ WillLog(serving[v], b) => WillLog(serving[v], b)'
      BY <1>2, <1>4 DEF WillLog
    <3> QED
      BY <3>2, <3>3, <3>4, <3>5 DEF TitleLoggedAt
  <2>8. (serial /\ ~died => TitleChainedAt(b))'
    <3>1. SUFFICES ASSUME serial, ~died PROVE TitleChainedAt(b)'
      BY <1>2, <1>8
    <3>2. TitleChainedAt(b) /\ Edits(serving[w], b)
      BY <1>0, <1>2, <1>3, <3>1 DEF BugsInd, TitlesChained, Edits
    <3>3. /\ Chained(activity[b]) /\ serving[w].seen.title = B!TitleBefore(activity[b], Len(activity[b]) + 1)
          /\ serving[w].value = bug[b].title
      BY <1>2, <1>8, <3>2 DEF TitleChainedAt, WillChain, TitleNow
    <3>4. Chained(log)
      BY <1>4, <1>5, <2>1, <3>3, ChainOfLonger
    <3>5. B!TitleBefore(log, Len(log) + 1) = bug[b].title
      BY <1>4, <1>5, <2>1, <3>3, TitleOfLonger
    <3>6. Chained(activity[b])' /\ TitleNow(b)' = bug[b].title /\ bug'[b].title = bug[b].title
      BY <1>2, <2>3, <3>4, <3>5 DEF Chained, TitleNow
    <3>7. \A v \in Workers : ~Edits(serving[v], b)'
      BY <1>2, <1>4, <1>6, <3>1, IdleHolds DEF Edits
    <3> QED
      BY <3>6, <3>7 DEF TitleChainedAt
  <2>9. B!Idle \in Services /\ ServiceHolds(B!Idle)'
    BY IdleHolds DEF ServiceHolds, BugCreates, B!Idle, B!NoBug
  <2>10. serial => (now.resolved <=> now.status \in B!TERMINAL_BUG_STATUSES)
    BY <1>3, <2>4 DEF BugsInd, B!ResolvedIffTerminal
  <2>11. B!Idle.op = "none" /\ serving[w].op \notin BugCreates
           /\ B!Idle.op \notin BugCreates \union {"update", "status"} /\ serving[w].bug = b
    BY <1>0, <1>2, IdleHolds DEF BugCreates
  <2>12. Rewrites(w, B!Idle, b, now, log)
    BY <1>2, <1>4, <1>6, <1>8, <2>3, <2>4, <2>5, <2>6, <2>10, <2>11 DEF Rewrites
  <2> QED
    BY <1>3, <2>2, <2>5, <2>7, <2>8, <2>9, <2>12, RowMoves
<1> QED
  BY <1>2, <1>7, <1>8

\* A change of status writes what differs from the row it has loaded, and logs it with that.
LEMMA CommitStatusHolds ==
  ASSUME BugsInd, NEW w \in Workers, B!CommitStatus(w)
  PROVE  BugsInd'
<1>1. PICK b, s, seen : b = serving[w].bug /\ s = serving[w].value /\ seen = serving[w].seen
  OBVIOUS
<1>2. PICK row, logged :
        /\ row = [bug[b] EXCEPT
                    !.status = IF s = seen.status THEN @ ELSE s,
                    !.resolved = IF B!ResolvedAt(seen, s) = seen.resolved THEN @ ELSE B!ResolvedAt(seen, s)]
        /\ logged = B!Row("status", seen.status, s)
  OBVIOUS
<1>3. serving[w] \in Services /\ seen \in BugRows /\ s \in B!Statuses /\ b \in 1 .. BugIds
  <2>1. serving[w] \in Services /\ ServiceHolds(serving[w]) /\ seen \in BugRows
          /\ serving[w].op = "status"
    BY <1>1, WorkerHolds DEF B!CommitStatus, B!Does
  <2> QED
    BY <1>1, <2>1 DEF ServiceHolds
<1>4. /\ crowded /\ died \in BOOLEAN /\ loose \subseteq 1 .. BugIds /\ served \in 0 .. BugRequests
      /\ bug[b] \in BugRows /\ activity[b] \in Seq(LogRows) /\ bug \in [1 .. BugIds -> BugRows]
      /\ activity \in [1 .. BugIds -> Seq(LogRows)] /\ serving \in [Workers -> Services]
  BY <1>3 DEF BugsInd, BugRowsTyped
<1>5. /\ serving[w].op = "status" /\ B!Ends(w) /\ serving' = [serving EXCEPT ![w] = B!Idle]
      /\ UNCHANGED <<serial, catalog, served, born, loose, crowded>>
      /\ \/ died' = TRUE /\ UNCHANGED <<bug, activity>>
         \/ /\ B!Live(b) /\ UNCHANGED died /\ bug' = [bug EXCEPT ![b] = row]
            /\ activity' = [activity EXCEPT ![b] = Append(@, logged)]
  <2>1. B!Live(b) \/ ~B!Live(b)
    OBVIOUS
  <2>2. /\ serving[w].op = "status" /\ B!Ends(w)
        /\ UNCHANGED <<serial, catalog, served, born, loose, crowded>>
        /\ ~B!Live(b) => died' = TRUE /\ UNCHANGED <<bug, activity>>
        /\ B!Live(b) =>
             /\ UNCHANGED died
             /\ bug' = [bug EXCEPT
                  ![b].status = IF s = seen.status THEN @ ELSE s,
                  ![b].resolved = IF B!ResolvedAt(seen, s) = seen.resolved THEN @ ELSE B!ResolvedAt(seen, s)]
             /\ activity' = [activity EXCEPT ![b] = Append(@, logged)]
    BY <1>1, <1>2 DEF B!CommitStatus, B!Does
  <2>3. B!Live(b) => bug' = [bug EXCEPT ![b] = row]
    BY <1>2, <1>3, <1>4, <2>2
  <2>4. serving' = [serving EXCEPT ![w] = B!Idle]
    BY <2>2 DEF B!Ends, B!Becomes
  <2> QED
    BY <2>1, <2>2, <2>3, <2>4
<1>6. /\ row.number = bug[b].number /\ row.title = bug[b].title /\ row.env = bug[b].env
      /\ row.status = (IF s = seen.status THEN bug[b].status ELSE s)
      /\ row.resolved = (IF B!ResolvedAt(seen, s) = seen.resolved THEN bug[b].resolved
                         ELSE B!ResolvedAt(seen, s))
      /\ row \in BugRows
  <2>1. B!ResolvedAt(seen, s) \in BOOLEAN
    BY DEF B!ResolvedAt
  <2> QED
    BY <1>2, <1>3, <1>4, <2>1 DEF BugRows
<1>7. logged \in LogRows /\ logged.field = "status" /\ logged.from = seen.status /\ logged.to = s
  BY <1>2, <1>3 DEF B!Row, LogRows, BugRows
<1>8. serial => (\A v \in Workers : v # w => serving[v].op = "none") /\ seen = bug[b]
  BY <1>1, <1>5, WorkerHolds DEF BugsInd, ServedAlone
<1>9. served' \in 0 .. BugRequests /\ served <= served' /\ died' \in BOOLEAN
  <2>1. served <= served
    BY <1>4, BoundsAssumption
  <2>2. died' \in BOOLEAN
    BY <1>4, <1>5
  <2> QED
    BY <1>4, <1>5, <2>1, <2>2
<1>10. CASE died' = TRUE /\ UNCHANGED <<bug, activity>>
  BY <1>4, <1>5, <1>10, RequestEnds
<1>11. CASE /\ B!Live(b) /\ UNCHANGED died /\ bug' = [bug EXCEPT ![b] = row]
            /\ activity' = [activity EXCEPT ![b] = Append(@, logged)]
  <2>1. PICK log : log = Append(activity[b], logged)
    OBVIOUS
  <2>2. log \in Seq(LogRows) /\ Len(activity[b]) \in Nat /\ DOMAIN activity[b] = 1 .. Len(activity[b])
          /\ Len(log) = Len(activity[b]) + 1 /\ DOMAIN log = 1 .. Len(activity[b]) + 1
          /\ log[Len(activity[b]) + 1] = logged /\ \A i \in 1 .. Len(activity[b]) : log[i] = activity[b][i]
    BY <1>4, <1>7, <2>1, RowAppended
  <2>3. activity' = [activity EXCEPT ![b] = log] /\ activity'[b] = log /\ bug'[b] = row
    BY <1>3, <1>4, <1>11, <2>1
  <2>4. StatusRows(log) # {} /\ row.status = B!StatusIn(log)
    <3>1. StatusRows(activity[b]) # {} /\ bug[b].status = B!StatusIn(activity[b])
      BY <1>3, <1>11 DEF BugsInd, StatusesLogged
    <3>2. CASE s = seen.status
      <4>1. ~(logged.field = "status" /\ logged.from # logged.to)
        BY <1>7, <3>2
      <4>2. StatusRows(log) # {} /\ B!StatusIn(log) = B!StatusIn(activity[b])
        BY <1>4, <1>7, <2>1, <3>1, <4>1, StatusOfLonger
      <4> QED
        BY <1>6, <3>1, <3>2, <4>2
    <3>3. CASE s # seen.status
      <4>1. logged.field = "status" /\ logged.from # logged.to
        BY <1>7, <3>3
      <4>2. StatusRows(log) # {} /\ B!StatusIn(log) = logged.to
        BY <1>4, <1>7, <2>1, <4>1, StatusOfLonger
      <4> QED
        BY <1>6, <1>7, <3>3, <4>2
    <3> QED
      BY <3>2, <3>3
  <2>5. (~died => TitleLoggedAt(b))'
    <3>1. SUFFICES ASSUME ~died, bug[b].title # 0, B!Live(b)
                   PROVE  TitleLogged(b)' \/ \E v \in Workers : WillLog(serving[v], b)'
      BY <1>6, <1>11, <2>3 DEF TitleLoggedAt
    <3>2. TitleLogged(b) \/ \E v \in Workers : WillLog(serving[v], b)
      BY <1>3, <3>1 DEF BugsInd, TitlesLogged, TitleLoggedAt
    <3>3. TitleLogged(b) => TitleLogged(b)'
      BY <1>6, <2>2, <2>3 DEF TitleLogged
    <3>4. ~WillLog(serving[w], b)
      BY <1>5 DEF WillLog
    <3>5. \A v \in Workers : v # w /\ WillLog(serving[v], b) => WillLog(serving[v], b)'
      BY <1>4, <1>5, <1>6, <2>3 DEF WillLog
    <3> QED
      BY <3>2, <3>3, <3>4, <3>5
  <2>6. (serial /\ ~died => TitleChainedAt(b))'
    <3>1. SUFFICES ASSUME serial, ~died PROVE TitleChainedAt(b)'
      BY <1>5, <1>11
    <3>2. TitleChainedAt(b) /\ \A v \in Workers : ~WillChain(serving[v], b)
      BY <1>3, <1>5, <1>8, <3>1 DEF BugsInd, TitlesChained, WillChain, Edits
    <3>3. Chained(activity[b]) /\ bug[b].title = B!TitleBefore(activity[b], Len(activity[b]) + 1)
      BY <1>11, <3>2 DEF TitleChainedAt, TitleNow
    <3>4. logged.field # "title"
      BY <1>7
    <3>5. Chained(log)
      BY <1>4, <1>7, <2>1, <3>3, <3>4, ChainOfLonger
    <3>6. B!TitleBefore(log, Len(log) + 1) = bug[b].title
      BY <1>4, <1>7, <2>1, <3>3, <3>4, TitleOfLonger
    <3>7. Chained(activity[b])' /\ TitleNow(b)' = bug[b].title /\ bug'[b].title = bug[b].title
      BY <1>6, <2>3, <3>5, <3>6 DEF Chained, TitleNow
    <3>8. \A v \in Workers : ~Edits(serving[v], b)'
      BY <1>4, <1>5, <1>8, <3>1, IdleHolds DEF Edits
    <3> QED
      BY <3>7, <3>8 DEF TitleChainedAt
  <2>7. B!Idle \in Services /\ ServiceHolds(B!Idle)'
    BY IdleHolds DEF ServiceHolds, BugCreates, B!Idle, B!NoBug
  <2>8. serial => (row.resolved <=> row.status \in B!TERMINAL_BUG_STATUSES)
    <3>1. SUFFICES ASSUME serial PROVE row.resolved <=> row.status \in B!TERMINAL_BUG_STATUSES
      OBVIOUS
    <3>2. row.status = s
      BY <1>6, <1>8, <3>1
    <3>3. row.resolved <=> B!ResolvedAt(seen, s)
      <4>1. CASE B!ResolvedAt(seen, s) = seen.resolved
        BY <1>6, <1>8, <3>1, <4>1
      <4>2. CASE B!ResolvedAt(seen, s) # seen.resolved
        BY <1>6, <4>2
      <4> QED
        BY <4>1, <4>2
    <3> QED
      BY <3>2, <3>3 DEF B!ResolvedAt
  <2>9. B!Idle.op = "none" /\ serving[w].op \notin BugCreates
          /\ B!Idle.op \notin BugCreates \union {"update", "status"}
          /\ serving[w].op \notin {"reload", "record"}
    BY <1>5, IdleHolds DEF BugCreates
  <2>10. Rewrites(w, B!Idle, b, row, log)
    BY <1>5, <1>6, <1>8, <1>9, <1>11, <2>3, <2>4, <2>8, <2>9 DEF Rewrites
  <2> QED
    BY <1>3, <1>6, <2>2, <2>5, <2>6, <2>7, <2>10, RowMoves
<1> QED
  BY <1>5, <1>10, <1>11

\* A bug is deleted, with its log.
LEMMA DeleteHolds ==
  ASSUME BugsInd, NEW w \in Workers, NEW b \in 1 .. BugIds, B!Delete(w, b)
  PROVE  BugsInd'
<1>1. /\ B!Serve(w) /\ bug' = [bug EXCEPT ![b] = B!NoBug] /\ activity' = [activity EXCEPT ![b] = <<>>]
      /\ UNCHANGED <<serial, catalog, serving, born, loose, crowded, died>>
  BY DEF B!Delete
<1>2. /\ serving[w] = B!Idle /\ (serial => \A v \in Workers : serving[v].op = "none")
      /\ served' \in 0 .. BugRequests /\ served < served'
  BY <1>1, ServeHolds
<1>3. /\ died \in BOOLEAN /\ served \in 0 .. BugRequests /\ serving \in [Workers -> Services]
      /\ bug \in [1 .. BugIds -> BugRows] /\ activity \in [1 .. BugIds -> Seq(LogRows)]
  BY DEF BugsInd, BugRowsTyped
<1>4. serving' = [serving EXCEPT ![w] = B!Idle] /\ served <= served'
  BY <1>1, <1>2, <1>3, BoundsAssumption
<1>5. B!Idle \in Services /\ ServiceHolds(B!Idle)'
  BY IdleHolds DEF ServiceHolds, BugCreates, B!Idle, B!NoBug
<1>6. bug'[b].number = 0
  BY <1>1, <1>3, IdleHolds
<1>7. (~died => TitleLoggedAt(b))' /\ (serial /\ ~died => TitleChainedAt(b))'
  BY <1>6 DEF TitleLoggedAt, TitleChainedAt, B!Live
<1>8. serving[w].op \notin BugCreates /\ serving[w].op \notin {"reload", "record"}
        /\ B!Idle.op \notin BugCreates \union {"update", "status"} /\ B!Idle.op = "none"
  BY <1>2, IdleHolds DEF BugCreates
<1>9. ~B!NoBug.resolved /\ B!NoBug.status \notin B!TERMINAL_BUG_STATUSES /\ B!NoBug.number = 0
        /\ B!NoBug \in BugRows
  BY IdleHolds DEF B!TERMINAL_BUG_STATUSES
<1>10. PICK log : log = <<>> /\ log \in Seq(LogRows)
  <2>1. <<>> \in Seq(LogRows)
    OBVIOUS
  <2> QED
    BY <2>1
<1>11. PICK row : row = B!NoBug
  OBVIOUS
<1>12. Rewrites(w, B!Idle, b, row, log)
  BY <1>1, <1>2, <1>3, <1>4, <1>8, <1>9, <1>10, <1>11 DEF Rewrites
<1> QED
  BY <1>5, <1>7, <1>9, <1>10, <1>11, <1>12, RowMoves

\* What the others hold when a creation commits: each has lost a number.
Loses(v) == IF serving[v].op = "none" THEN B!Idle ELSE [serving[v] EXCEPT !.lost = @ + 1]

LEMMA LosesHolds ==
  ASSUME BugsInd, NEW v \in Workers
  PROVE  /\ Loses(v) \in Services /\ Loses(v).op = serving[v].op
         /\ serving[v].op # "none" =>
              /\ Loses(v).bug = serving[v].bug /\ Loses(v).value = serving[v].value
              /\ Loses(v).seen = serving[v].seen /\ Loses(v).tries = serving[v].tries
              /\ Loses(v).lost = serving[v].lost + 1
              /\ Loses(v).holds = serving[v].holds /\ Loses(v).sound = serving[v].sound
<1>1. serving[v] \in Services /\ serving[v].lost \in Nat
  BY WorkerHolds
<1>2. CASE serving[v].op = "none"
  BY <1>2, IdleHolds DEF Loses
<1>3. CASE serving[v].op # "none"
  <2>1. PICK c : c = [serving[v] EXCEPT !.lost = @ + 1]
    OBVIOUS
  <2>2. /\ c \in Services /\ c.op = serving[v].op /\ c.bug = serving[v].bug /\ c.value = serving[v].value
        /\ c.seen = serving[v].seen /\ c.tries = serving[v].tries /\ c.lost = serving[v].lost + 1
        /\ c.holds = serving[v].holds /\ c.sound = serving[v].sound
    <3>1. serving[v].lost + 1 \in Nat
      BY <1>1
    <3> QED
      BY <1>1, <2>1, <3>1 DEF Services
  <2>3. Loses(v) = c
    BY <1>3, <2>1 DEF Loses
  <2> QED
    BY <2>2, <2>3
<1> QED
  BY <1>2, <1>3

\* The first row of a log.
LEMMA FirstRow ==
  ASSUME NEW row, row = B!Row("status", "none", "open"), NEW log, log = <<row>>
  PROVE  /\ row \in LogRows /\ log \in Seq(LogRows) /\ Chained(log)
         /\ StatusRows(log) # {} /\ B!StatusIn(log) = "open" /\ B!TitleBefore(log, Len(log) + 1) = 0
<1>1. row \in LogRows /\ row.field = "status" /\ row.from = "none" /\ row.to = "open"
  BY DEF B!Row, LogRows, B!Statuses
<1>2. PICK none : none = <<>>
  OBVIOUS
<1>3. none \in Seq(LogRows) /\ log = Append(none, row) /\ Len(none) = 0
  BY <1>1, <1>2
<1>4. Chained(none)
  BY <1>2 DEF Chained
<1>5. log \in Seq(LogRows)
  BY <1>1, <1>3, RowAppended
<1>6. Chained(log)
  <2>1. row.field = "title" => row.from = B!TitleBefore(none, Len(none) + 1)
    BY <1>1
  <2> QED
    BY <1>1, <1>3, <1>4, <2>1, ChainOfLonger
<1>7. StatusRows(log) # {} /\ B!StatusIn(log) = "open"
  BY <1>1, <1>3, StatusOfLonger
<1>8. B!TitleBefore(log, Len(log) + 1) = 0
  <2>1. B!TitleBefore(log, Len(log) + 1) = B!TitleBefore(none, Len(none) + 1)
    <3>1. none \in Seq(LogRows) /\ row \in LogRows /\ log = Append(none, row) /\ row.field # "title"
      BY <1>1, <1>3
    <3>2. B!TitleBefore(log, Len(log) + 1) =
            IF row.field = "title" THEN row.to ELSE B!TitleBefore(none, Len(none) + 1)
      BY <3>1, TitleOfLonger
    <3> QED
      BY <3>1, <3>2
  <2>2. {j \in 1 .. 1 - 1 : none[j].field = "title"} = {}
    OBVIOUS
  <2>3. B!TitleBefore(none, 1) = 0
    BY <2>2 DEF B!TitleBefore
  <2>4. Len(none) + 1 = 1
    BY <1>3
  <2> QED
    BY <2>1, <2>3, <2>4
<1> QED
  BY <1>1, <1>5, <1>6, <1>7, <1>8

\* A creation commits: its number is that of no other bug, and counts against all that overlap.
LEMMA CommitCreateHolds ==
  ASSUME BugsInd, NEW w \in Workers, B!CommitCreate(w)
  PROVE  BugsInd'
<1>1. PICK b, n, env : b = serving[w].bug /\ n = serving[w].seen.number /\ env = serving[w].value
  OBVIOUS
<1>2. PICK row, first :
        /\ row = [number |-> n, title |-> 0, status |-> "open", resolved |-> FALSE, env |-> env]
        /\ first = B!Row("status", "none", "open")
  OBVIOUS
<1>3. PICK log : log = <<first>>
  OBVIOUS
<1>4. /\ serving[w].op = "inserted"
      /\ bug' = [bug EXCEPT ![b] = row] /\ activity' = [activity EXCEPT ![b] = log]
      /\ catalog' = IF serving[w].holds THEN catalog \union {env} ELSE catalog
      /\ serving' = [v \in Workers |-> IF v = w THEN B!Idle ELSE Loses(v)]
      /\ UNCHANGED <<serial, served, born, loose, crowded, died>>
  BY <1>1, <1>2, <1>3 DEF B!CommitCreate, B!Does, B!Number, Loses
<1>5. serving'[w] = B!Idle /\ \A v \in Workers : v # w => serving'[v] = Loses(v)
  BY <1>4
<1>6. /\ b \in 1 .. BugIds /\ n \in Nat /\ n >= 1 /\ n <= Ended + 1 /\ ~B!Taken(n)
      /\ env \in Environments \union {"none"} /\ (serving[w].holds = TRUE => env # "none")
      /\ env = "none" \/ env \in catalog \/ serving[w].holds = TRUE \/ b \in loose
      /\ serving[w].holds \in BOOLEAN
  <2>1. ServiceHolds(serving[w]) /\ serving[w].seen.number \in Nat /\ serving[w].holds \in BOOLEAN
    BY WorkerHolds DEF Services
  <2>2. serving[w].op \in BugCreates /\ serving[w].op # "none"
    BY <1>4 DEF BugCreates
  <2>3. serving[w].seen.number <= Ended + 1
    BY <1>4 DEF BugsInd, NumbersCounted
  <2>4. /\ serving[w].bug \in 1 .. BugIds /\ serving[w].value \in Environments \union {"none"}
        /\ EnvironmentHeld(serving[w]) /\ (serving[w].holds = TRUE => serving[w].value # "none")
        /\ serving[w].seen.number >= 1 /\ ~B!Taken(serving[w].seen.number)
    BY <1>4, <2>1, <2>2 DEF ServiceHolds
  <2> QED
    BY <1>1, <1>4, <2>1, <2>3, <2>4 DEF EnvironmentHeld
<1>7. row \in BugRows /\ row.number = n /\ row.title = 0 /\ row.status = "open" /\ ~row.resolved
        /\ row.env = env
  BY <1>2, <1>6, TitlesAssumption DEF BugRows, B!Statuses
<1>8. /\ log \in Seq(LogRows) /\ Chained(log)
      /\ StatusRows(log) # {} /\ B!StatusIn(log) = "open" /\ B!TitleBefore(log, Len(log) + 1) = 0
  BY <1>2, <1>3, FirstRow
<1>9. /\ bug'[b] = row /\ activity'[b] = log
      /\ \A a \in 1 .. BugIds : a # b => bug'[a] = bug[a] /\ activity'[a] = activity[a]
      /\ bug' \in [1 .. BugIds -> BugRows] /\ activity' \in [1 .. BugIds -> Seq(LogRows)]
  <2>1. bug \in [1 .. BugIds -> BugRows] /\ activity \in [1 .. BugIds -> Seq(LogRows)]
    BY DEF BugsInd, BugRowsTyped
  <2> QED
    BY <1>4, <1>6, <1>7, <1>8, <2>1
<1>10. BugRowsTyped'
  <2>1. serving' \in [Workers -> Services]
    BY <1>4, IdleHolds, LosesHolds
  <2>2. catalog' \subseteq Environments
    BY <1>4, <1>6 DEF BugsInd, BugRowsTyped
  <2> QED
    BY <1>4, <1>9, <2>1, <2>2 DEF BugsInd, BugRowsTyped
<1>11. Ended \in Int /\ Ended' = Ended + 1
  <2>1. BugRowsTyped /\ born' \in 0 .. BugIds /\ born' = born /\ serving'[w] = B!Idle
          /\ (\A v \in Workers : v # w => serving'[v].op = serving[v].op)
          /\ B!Idle.op \notin BugCreates /\ serving[w].op \in BugCreates
    BY <1>4, <1>5, <1>10, IdleHolds, LosesHolds DEF BugsInd, BugRowsTyped, BugCreates
  <2> QED
    BY <2>1, EndedMoves
<1>12. NumbersCounted'
  <2>1. 0 <= Ended'
    BY <1>11 DEF BugsInd, NumbersCounted
  <2>2. ASSUME NEW a \in 1 .. BugIds PROVE bug'[a].number <= Ended'
    <3>1. CASE a = b
      BY <1>6, <1>7, <1>9, <1>11, <3>1
    <3>2. CASE a # b
      <4>1. bug[a].number \in Nat /\ bug[a].number <= Ended
        BY DEF BugsInd, BugRowsTyped, BugRows, NumbersCounted
      <4> QED
        BY <1>9, <1>11, <3>2, <4>1
    <3> QED
      BY <3>1, <3>2
  <2>3. ASSUME NEW v \in Workers, serving'[v].op \in {"insert", "inserted"}
        PROVE  serving'[v].seen.number <= Ended' + 1
    <3>1. v # w
      BY <1>5, <2>3, IdleHolds
    <3>2. serving'[v].seen.number = serving[v].seen.number /\ serving[v].op \in {"insert", "inserted"}
      BY <1>5, <2>3, <3>1, LosesHolds
    <3>3. serving[v].seen.number \in Nat /\ serving[v].seen.number <= Ended + 1
      BY <3>2, WorkerHolds DEF BugsInd, NumbersCounted
    <3> QED
      BY <1>11, <3>2, <3>3
  <2> QED
    BY <2>1, <2>2, <2>3 DEF NumbersCounted
<1>13. ServicesHold'
  <2>1. SUFFICES ASSUME NEW v \in Workers, v # w, serving[v].op # "none" PROVE ServiceHolds(serving[v])'
    <3>1. ServiceHolds(serving[w])'
      BY <1>5, IdleHolds DEF ServiceHolds, BugCreates
    <3>2. ASSUME NEW v \in Workers, v # w, serving[v].op = "none" PROVE ServiceHolds(serving[v])'
      <4>1. serving'[v].op = "none"
        BY <1>5, <3>2, LosesHolds
      <4> QED
        BY <4>1 DEF ServiceHolds, BugCreates
    <3> QED
      BY <2>1, <3>1, <3>2 DEF ServicesHold
  <2>2. /\ serving'[v].op = serving[v].op /\ serving'[v].bug = serving[v].bug
        /\ serving'[v].value = serving[v].value /\ serving'[v].seen = serving[v].seen
        /\ serving'[v].tries = serving[v].tries /\ serving'[v].lost = serving[v].lost + 1
        /\ serving'[v].holds = serving[v].holds /\ serving'[v].sound = serving[v].sound
    BY <1>5, <2>1, LosesHolds
  <2>3. ServiceHolds(serving[v]) /\ serving[v].seen.number \in Nat /\ serving[v].tries \in 0 .. Retries
          /\ serving[v].lost \in Nat
    BY WorkerHolds
  <2>4. B!Taken(serving[v].seen.number)' => B!Taken(serving[v].seen.number) \/ serving[v].seen.number = n
    BY <1>6, <1>7, <1>9, <2>2 DEF B!Taken
  <2>5. serving[v].op \in BugCreates /\ serving[v].sound = TRUE =>
          serving[v].tries + 1 <= serving[v].lost + 1 /\ serving[v].tries <= serving[v].lost + 1
    <3>1. serving[v].op \in BugCreates /\ serving[v].sound = TRUE => serving[v].tries <= serving[v].lost
      BY <2>3 DEF ServiceHolds
    <3>2. serving[v].tries \in Nat
      BY <2>3, BoundsAssumption
    <3> QED
      BY <2>3, <3>1, <3>2
  <2>6. serving[v].op = "insert" /\ B!Taken(serving[v].seen.number)' /\ serving[v].sound = TRUE =>
          serving[v].tries + 1 <= serving[v].lost + 1
    BY <2>5 DEF BugCreates
  <2>7. serving[v].op = "inserted" => ~B!Taken(serving[v].seen.number)'
    <3>1. serving[v].op = "inserted" => serving[v].seen.number # n
      BY <1>1, <1>4, <2>1 DEF BugsInd, ServicesApart
    <3>2. serving[v].op = "inserted" => ~B!Taken(serving[v].seen.number)
      BY <2>3 DEF ServiceHolds
    <3> QED
      BY <2>4, <3>1, <3>2
  <2>8. serving[v].op \in {"insert", "inserted"} => serving[v].seen.number >= 1
    BY <2>3 DEF ServiceHolds
  <2>9. /\ serving[v].bug \in 1 .. BugIds
        /\ serving[v].op \in BugCreates => serving[v].value \in Environments \union {"none"}
             /\ (serving[v].op = "environment" \/ serving[v].holds = TRUE => serving[v].value # "none")
        /\ serving[v].op \in {"update", "record"} => serving[v].value \in Titles
        /\ serving[v].op = "status" => serving[v].value \in B!Statuses
    BY <1>4, <2>1, <2>3 DEF ServiceHolds
  <2>10. serving[v].op \in BugCreates => EnvironmentHeld(serving[v])'
    <3>1. serving[v].op \in BugCreates => EnvironmentHeld(serving[v])
      BY <2>3 DEF ServiceHolds
    <3>2. catalog \subseteq catalog' /\ loose' = loose
      BY <1>4
    <3> QED
      BY <2>2, <3>1, <3>2 DEF EnvironmentHeld
  <2> QED
    BY <2>2, <2>5, <2>6, <2>7, <2>8, <2>9, <2>10 DEF ServiceHolds
<1>14. ServicesApart'
  <2>1. \A v \in Workers : serving'[v].op = "inserted" =>
          v # w /\ serving[v].op = "inserted" /\ serving'[v].seen = serving[v].seen
    BY <1>5, IdleHolds, LosesHolds
  <2> QED
    BY <2>1 DEF BugsInd, ServicesApart
<1>15. serial => \A v \in Workers : serving'[v].op = "none"
  <2>1. serial => \A v \in Workers : v # w => serving[v].op = "none"
    BY <1>4, WorkerHolds
  <2> QED
    BY <1>5, <2>1, IdleHolds, LosesHolds
<1>16. ServedAlone'
  BY <1>4, <1>15 DEF ServedAlone
<1>17. B!NumbersIdentify'
  <2>1. \A a \in 1 .. BugIds : bug[a].number # n
    BY <1>6 DEF B!Taken
  <2> QED
    BY <1>7, <1>9, <2>1 DEF BugsInd, B!NumbersIdentify, B!Live
<1>18. B!EnvironmentCatalogued'
  <2>1. env # "none" => env \in catalog' \/ b \in loose
    BY <1>4, <1>6
  <2>2. catalog \subseteq catalog' /\ loose' = loose
    BY <1>4
  <2> QED
    BY <1>7, <1>9, <2>1, <2>2 DEF BugsInd, B!EnvironmentCatalogued, B!Live
<1>19. B!ResolvedIffTerminal'
  <2>1. ~row.resolved /\ row.status \notin B!TERMINAL_BUG_STATUSES
    BY <1>7 DEF B!TERMINAL_BUG_STATUSES
  <2> QED
    BY <1>4, <1>9, <2>1 DEF BugsInd, B!ResolvedIffTerminal
<1>20. StatusesLogged'
  BY <1>7, <1>8, <1>9 DEF BugsInd, StatusesLogged, B!Live
<1>21. TitlesLogged'
  <2>1. SUFFICES ASSUME ~died, NEW a \in 1 .. BugIds, a # b PROVE TitleLoggedAt(a)'
    <3>1. TitleLoggedAt(b)'
      BY <1>7, <1>9 DEF TitleLoggedAt
    <3> QED
      BY <1>4, <2>1, <3>1 DEF TitlesLogged
  <2>2. TitleLoggedAt(a) /\ bug'[a] = bug[a] /\ activity'[a] = activity[a]
    BY <1>9, <2>1 DEF BugsInd, TitlesLogged
  <2>3. ASSUME NEW v \in Workers, WillLog(serving[v], a) PROVE WillLog(serving[v], a)'
    <3>1. v # w /\ serving[v].op # "none"
      BY <1>4, <2>3 DEF WillLog
    <3>2. /\ serving'[v].op = serving[v].op /\ serving'[v].bug = serving[v].bug
          /\ serving'[v].value = serving[v].value /\ serving'[v].seen = serving[v].seen
      BY <1>5, <3>1, LosesHolds
    <3> QED
      BY <2>2, <2>3, <3>2 DEF WillLog
  <2> QED
    BY <2>2, <2>3 DEF TitleLoggedAt, TitleLogged, B!Live
<1>22. TitlesChained'
  <2>1. SUFFICES ASSUME ~died, serial, NEW a \in 1 .. BugIds PROVE TitleChainedAt(a)'
    BY <1>4 DEF TitlesChained
  <2>2. \A v \in Workers : ~Edits(serving[v], a)'
    BY <1>15, <2>1 DEF Edits
  <2>3. CASE a = b
    <3>1. Chained(activity[b])' /\ TitleNow(b)' = 0 /\ bug'[b].title = 0
      BY <1>7, <1>8, <1>9 DEF Chained, TitleNow
    <3> QED
      BY <2>2, <2>3, <3>1 DEF TitleChainedAt
  <2>4. CASE a # b
    <3>1. TitleChainedAt(a) /\ bug'[a] = bug[a] /\ activity'[a] = activity[a]
      BY <1>9, <2>1, <2>4 DEF BugsInd, TitlesChained
    <3>2. \A v \in Workers : ~WillChain(serving[v], a)
      <4>1. \A v \in Workers : v # w => serving[v].op = "none"
        BY <1>4, <2>1, WorkerHolds
      <4> QED
        BY <1>4, <4>1 DEF WillChain, Edits
    <3> QED
      BY <2>2, <3>1, <3>2 DEF TitleChainedAt, TitleNow, Chained, B!Live
  <2> QED
    BY <2>3, <2>4
<1>23. crowded'
  BY <1>4 DEF BugsInd
<1> QED
  BY <1>10, <1>12, <1>13, <1>14, <1>16, <1>17, <1>18, <1>19, <1>20, <1>21, <1>22, <1>23 DEF BugsInd

\* The catalog is edited: what is taken out of it is promised to no bug.
LEMMA EditCatalogHolds ==
  ASSUME BugsInd, NEW w \in Workers, NEW gone, NEW new,
         new \subseteq Environments, B!EditCatalog(w, gone, new)
  PROVE  BugsInd'
<1> DEFINE named == {b \in 1 .. BugIds : bug[b].env \in gone}
           begun == {serving[v].bug : v \in {u \in Workers : B!Creates(u) /\ serving[u].value \in gone}}
<1>1. /\ B!Serve(w) /\ catalog' = (catalog \ gone) \union new
      /\ loose' = loose \union named \union begun
      /\ UNCHANGED <<serial, bug, activity, serving, born, crowded, died>>
  BY DEF B!EditCatalog
<1>2. served' \in 0 .. BugRequests /\ served <= served'
  <2>1. served' \in 0 .. BugRequests /\ served < served' /\ served \in 0 .. BugRequests
    BY <1>1, ServeHolds DEF BugsInd, BugRowsTyped
  <2> QED
    BY <2>1, BoundsAssumption
<1>3. \A v \in Workers : B!Creates(v) <=> serving[v].op \in BugCreates
  BY DEF B!Creates, BugCreates
<1>4. begun \subseteq 1 .. BugIds
  <2>1. SUFFICES ASSUME NEW v \in Workers, B!Creates(v) PROVE serving[v].bug \in 1 .. BugIds
    OBVIOUS
  <2>2. serving[v].op # "none"
    BY <2>1 DEF B!Creates
  <2> QED
    BY <2>2, WorkerHolds DEF ServiceHolds
<1>5. BugRowsTyped'
  <2>1. catalog' \subseteq Environments /\ loose' \subseteq 1 .. BugIds
    BY <1>1, <1>4 DEF BugsInd, BugRowsTyped
  <2>2. born \in 0 .. BugIds /\ born <= served /\ served \in 0 .. BugRequests
    BY DEF BugsInd, BugRowsTyped
  <2>3. born <= served'
    BY <1>2, <2>2, BoundsAssumption
  <2> QED
    BY <1>1, <1>2, <2>1, <2>3 DEF BugsInd, BugRowsTyped
<1>6. NumbersCounted' /\ ServicesApart' /\ ServedAlone'
  BY <1>1 DEF BugsInd, NumbersCounted, Ended, Creating, ServicesApart, ServedAlone
<1>7. ServicesHold'
  <2>1. SUFFICES ASSUME NEW v \in Workers PROVE ServiceHolds(serving[v])'
    BY DEF ServicesHold
  <2>2. ServiceHolds(serving[v]) /\ serving'[v] = serving[v] /\ bug' = bug
    BY <1>1, WorkerHolds
  <2>3. ASSUME serving[v].op \in BugCreates PROVE EnvironmentHeld(serving[v])'
    <3>1. EnvironmentHeld(serving[v])
      BY <2>2, <2>3 DEF ServiceHolds
    <3>2. CASE serving[v].value \in gone
      BY <1>1, <1>3, <2>2, <2>3, <3>2 DEF EnvironmentHeld
    <3>3. CASE serving[v].value \notin gone
      BY <1>1, <2>2, <3>1, <3>3 DEF EnvironmentHeld
    <3> QED
      BY <3>2, <3>3
  <2> QED
    BY <2>2, <2>3 DEF ServiceHolds, B!Taken
<1>8. B!EnvironmentCatalogued'
  <2>1. SUFFICES ASSUME NEW b \in 1 .. BugIds, B!Live(b), bug[b].env # "none"
                 PROVE  bug[b].env \in catalog' \/ b \in loose'
    BY <1>1 DEF B!EnvironmentCatalogued, B!Live
  <2>2. bug[b].env \in catalog \/ b \in loose
    BY <2>1 DEF BugsInd, B!EnvironmentCatalogued
  <2> QED
    BY <1>1, <2>2
<1>9. crowded' /\ B!NumbersIdentify' /\ B!ResolvedIffTerminal'
  BY <1>1 DEF BugsInd, B!NumbersIdentify, B!ResolvedIffTerminal, B!Live
<1>10. StatusesLogged' /\ TitlesLogged' /\ TitlesChained'
  BY <1>1 DEF BugsInd, StatusesLogged, TitlesLogged, TitleLoggedAt, TitleLogged, TitlesChained,
    TitleChainedAt, TitleNow, Chained, WillLog, WillChain, Edits, B!Live
<1> QED
  BY <1>5, <1>6, <1>7, <1>8, <1>9, <1>10 DEF BugsInd

\* The invariant holds at the start.
LEMMA BugsInit == B!Init => BugsInd
<1> SUFFICES ASSUME B!Init PROVE BugsInd
  OBVIOUS
<1>1. /\ serial \in BOOLEAN /\ bug = [b \in 1 .. BugIds |-> B!NoBug] /\ catalog = {}
      /\ activity = [b \in 1 .. BugIds |-> <<>>] /\ serving = [w \in Workers |-> B!Idle]
      /\ served = 0 /\ born = 0 /\ loose = {} /\ crowded = TRUE /\ died = FALSE
  BY DEF B!Init
<1>2. /\ \A b \in 1 .. BugIds : bug[b] = B!NoBug /\ bug[b].number = 0 /\ ~B!Live(b)
      /\ \A w \in Workers : serving[w] = B!Idle /\ serving[w].op = "none"
  BY <1>1, IdleHolds DEF B!Live
<1>3. BugRowsTyped
  <2>1. <<>> \in Seq(LogRows) /\ 0 \in 0 .. BugRequests /\ 0 \in 0 .. BugIds /\ 0 <= 0
    BY BoundsAssumption
  <2> QED
    BY <1>1, <2>1, IdleHolds DEF BugRowsTyped
<1>4. Ended = 0
  <2>1. Creating = {}
    BY <1>2 DEF Creating, BugCreates
  <2> QED
    BY <1>1, <2>1, FS_EmptySet DEF Ended
<1>5. NumbersCounted
  BY <1>2, <1>4 DEF NumbersCounted
<1>6. ServicesHold /\ ServicesApart /\ ServedAlone
  BY <1>2 DEF ServicesHold, ServiceHolds, ServicesApart, ServedAlone, BugCreates
<1>7. B!ResolvedIffTerminal
  BY <1>2, IdleHolds DEF B!ResolvedIffTerminal, B!TERMINAL_BUG_STATUSES
<1>8. crowded /\ B!NumbersIdentify /\ B!EnvironmentCatalogued
  BY <1>1, <1>2 DEF B!NumbersIdentify, B!EnvironmentCatalogued
<1>9. StatusesLogged /\ TitlesLogged /\ TitlesChained
  BY <1>2 DEF StatusesLogged, TitlesLogged, TitleLoggedAt, TitlesChained, TitleChainedAt
<1> QED
  BY <1>3, <1>5, <1>6, <1>7, <1>8, <1>9 DEF BugsInd

\* What the other machines do is nothing to it.
LEMMA BugsStill ==
  ASSUME BugsInd, UNCHANGED <<serial, served, bugVars>> PROVE BugsInd'
<1>1. UNCHANGED <<serial, served, bug, catalog, activity, serving, born, loose, crowded, died>>
  BY DEF bugVars
<1>2. BugRowsTyped' /\ crowded'
  BY <1>1 DEF BugsInd, BugRowsTyped
<1>3. NumbersCounted'
  BY <1>1 DEF BugsInd, NumbersCounted, Ended, Creating
<1>4. ServicesHold' /\ ServicesApart' /\ ServedAlone'
  BY <1>1 DEF BugsInd, ServicesHold, ServiceHolds, EnvironmentHeld, ServicesApart, ServedAlone, B!Taken
<1>5. B!NumbersIdentify' /\ B!EnvironmentCatalogued' /\ B!ResolvedIffTerminal'
  BY <1>1 DEF BugsInd, B!NumbersIdentify, B!EnvironmentCatalogued, B!ResolvedIffTerminal, B!Live
<1>6. StatusesLogged' /\ TitlesLogged' /\ TitlesChained'
  BY <1>1 DEF BugsInd, StatusesLogged, TitlesLogged, TitleLoggedAt, TitleLogged, TitlesChained,
    TitleChainedAt, TitleNow, Chained, WillLog, WillChain, Edits, B!Live
<1> QED
  BY <1>2, <1>3, <1>4, <1>5, <1>6 DEF BugsInd

\* Every step of the tracker keeps it.
LEMMA BugsNext == ASSUME BugsInd, B!Next PROVE BugsInd'
<1>1. PICK w \in Workers :
        \/ \E env \in Environments \union {"none"}, catalogued, sound \in BOOLEAN :
             B!BeginCreate(w, env, catalogued, sound)
        \/ B!InsertEnvironment(w) \/ B!TakeNumber(w) \/ B!Insert(w) \/ B!CommitCreate(w)
        \/ \E gone, new \in {{}} \union {{env} : env \in Environments} : B!EditCatalog(w, gone, new)
        \/ \E b \in 1 .. BugIds, t \in Titles, base \in Titles \union {-1} : B!BeginUpdate(w, b, t, base)
        \/ B!CommitUpdate(w) \/ B!Reload(w) \/ B!RecordChange(w)
        \/ \E b \in 1 .. BugIds, s \in B!Statuses : B!BeginStatus(w, b, s)
        \/ B!CommitStatus(w)
        \/ \E b \in 1 .. BugIds : B!Delete(w, b)
        \/ B!Die(w)
  BY DEF B!Next
<1>2. CASE \E env \in Environments \union {"none"}, catalogued, sound \in BOOLEAN :
             B!BeginCreate(w, env, catalogued, sound)
  BY <1>2, BeginCreateHolds
<1>3. CASE B!InsertEnvironment(w) \/ B!TakeNumber(w) \/ B!Insert(w) \/ B!CommitCreate(w)
  BY <1>3, InsertEnvironmentHolds, TakeNumberHolds, InsertHolds, CommitCreateHolds
<1>4. CASE \E b \in 1 .. BugIds, t \in Titles, base \in Titles \union {-1} : B!BeginUpdate(w, b, t, base)
  BY <1>4, BeginUpdateHolds
<1>5. CASE B!CommitUpdate(w) \/ B!Reload(w) \/ B!RecordChange(w)
  BY <1>5, CommitUpdateHolds, ReloadHolds, RecordChangeHolds
<1>6. CASE \E b \in 1 .. BugIds, s \in B!Statuses : B!BeginStatus(w, b, s)
  BY <1>6, BeginStatusHolds
<1>7. CASE B!CommitStatus(w) \/ B!Die(w)
  BY <1>7, CommitStatusHolds, BugDieHolds
<1>8. CASE \E b \in 1 .. BugIds : B!Delete(w, b)
  BY <1>8, DeleteHolds
<1>9. CASE \E gone, new \in {{}} \union {{env} : env \in Environments} : B!EditCatalog(w, gone, new)
  BY <1>9, EditCatalogHolds
<1> QED
  BY <1>1, <1>2, <1>3, <1>4, <1>5, <1>6, <1>7, <1>8, <1>9

BugsHold == part = "bugs" => BugsInd

\* Every step of the machines keeps it.
LEMMA BugsStep == ASSUME BugsHold, [Next]_vars PROVE BugsHold'
<1>1. SUFFICES ASSUME part' = "bugs" PROVE BugsInd'
  BY DEF BugsHold
<1>2. CASE BugStep
  BY <1>2, BugsNext DEF BugStep, BugsHold
<1>3. CASE ReportStep \/ SchemaStep \/ LinkStep \/ TicketStep \/ NotificationStep
  <2>1. part' = part /\ part # "reports"
    BY <1>1, <1>3 DEF ReportStep, SchemaStep, LinkStep, TicketStep, NotificationStep
  <2> QED
    BY <1>1, <1>3, <2>1 DEF ReportStep, SchemaStep, LinkStep, TicketStep, NotificationStep
<1>4. CASE UNCHANGED vars
  BY <1>1, <1>4, BugsStill DEF vars, BugsHold
<1> QED
  BY <1>2, <1>3, <1>4 DEF Next

\* It holds in every state.
LEMMA BugsAlways == Spec => []BugsHold
<1>1. Init => BugsHold
  BY BugsInit DEF Init, BugsHold
<1>2. BugsHold /\ [Next]_vars => BugsHold'
  BY BugsStep
<1> QED
  BY <1>1, <1>2, PTL DEF Spec

\* It is what BugsAgree needs: once nobody is at work, what was to be logged has been.
LEMMA BugsIndHolds == BugsInd => B!RowsAgree /\ B!StatusIsLogged /\ B!EditsAreLogged
<1> SUFFICES ASSUME BugsInd PROVE B!RowsAgree /\ B!StatusIsLogged /\ B!EditsAreLogged
  OBVIOUS
<1>1. B!TypeOK
  <2>1. /\ served \in 0 .. BugRequests /\ born \in 0 .. BugIds /\ born <= served
        /\ bug \in [1 .. BugIds -> BugRows]
    BY DEF BugsInd, BugRowsTyped
  <2>2. B!Max(1 .. BugIds) = BugIds
    <3>1. BugIds \in Nat \ {0} /\ 1 .. BugIds \in SUBSET (0 .. BugIds) /\ 1 .. BugIds # {}
      BY BoundsAssumption
    <3>2. PICK m : m = B!Max(1 .. BugIds)
      OBVIOUS
    <3>3. m \in 1 .. BugIds /\ \A k \in 1 .. BugIds : m >= k
      BY <3>1, <3>2, GreatestNumber
    <3>4. m >= BugIds
      BY <3>1, <3>3
    <3>5. m = BugIds
      BY <3>1, <3>3, <3>4
    <3> QED
      BY <3>2, <3>5
  <2>3. ASSUME NEW b \in 1 .. BugIds PROVE bug[b].number \in 0 .. BugRequests
    <3>1. PICK n \in Nat : n = Cardinality(Creating)
      <4>1. Creating \in SUBSET Workers
        BY DEF Creating
      <4> QED
        BY <4>1, WorkersAssumption, FS_Subset, FS_CardinalityType
    <3>2. bug[b].number \in Nat /\ bug[b].number <= born - n
      BY <2>1, <3>1 DEF BugsInd, NumbersCounted, Ended, BugRows
    <3> QED
      BY <2>1, <3>1, <3>2, BoundsAssumption
  <2>4. bug \in [1 .. BugIds -> [number : 0 .. BugRequests, title : Titles, status : B!Statuses,
                                 resolved : BOOLEAN, env : Environments \union {"none"}]]
    BY <2>1, <2>3 DEF BugRows
  <2>5. \A w \in Workers : serving[w].tries \in 0 .. Retries /\ serving[w].holds \in BOOLEAN
    BY WorkerHolds DEF Services
  <2> QED
    BY <2>1, <2>2, <2>4, <2>5 DEF B!TypeOK, BugsInd, BugRowsTyped
<1>2. B!RowsAgree
  BY <1>1 DEF BugsInd, B!RowsAgree, B!RefusedWhenCrowded
<1>3. B!StatusIsLogged
  BY DEF BugsInd, StatusesLogged, B!StatusIsLogged
<1>4. B!Quiet => \A w \in Workers, b \in 1 .. BugIds : ~WillLog(serving[w], b) /\ ~WillChain(serving[w], b)
  BY IdleHolds DEF B!Quiet, WillLog, WillChain, Edits
<1>5. B!TitleChain
  <2>1. SUFFICES ASSUME serial, ~died, B!Quiet, NEW b \in 1 .. BugIds, B!Live(b)
                 PROVE  Chained(activity[b]) /\ bug[b].title = TitleNow(b)
    BY DEF B!TitleChain, Chained, TitleNow
  <2>2. TitleChainedAt(b)
    BY <2>1 DEF BugsInd, TitlesChained
  <2> QED
    BY <1>4, <2>1, <2>2 DEF TitleChainedAt
<1>6. B!TitleIsLogged
  <2>1. SUFFICES ASSUME ~died, B!Quiet, NEW b \in 1 .. BugIds, B!Live(b), bug[b].title # 0
                 PROVE  TitleLogged(b)
    BY DEF B!TitleIsLogged, TitleLogged
  <2>2. TitleLoggedAt(b)
    BY <2>1 DEF BugsInd, TitlesLogged
  <2> QED
    BY <1>4, <2>1, <2>2 DEF TitleLoggedAt
<1> QED
  BY <1>2, <1>3, <1>5, <1>6 DEF B!EditsAreLogged

\* However creations, edits, changes of status and deletions overlap, and whichever of them die,
\* a number is that of one bug, a creation gives up only when it has lost as many numbers as it may
\* try or a row it refers to is gone, an environment a bug was given is catalogued unless its row was
\* rolled back or taken out, and the log of a bug tells its status, and, nobody having died, its title.
THEOREM BugsKeepTheirLog == Spec => []BugsAgree
<1>1. BugsHold => BugsAgree
  BY BugsIndHolds DEF BugsHold, BugsAgree
<1> QED
  BY <1>1, BugsAlways, PTL

-----------------------------------------------------------------------------
(* What surrounds a bug. *)

\* What is assumed of the constants of links, tickets and notifications.
LEMMA TrackerConstants ==
  /\ MaxLinks \in Nat /\ MaxTickets \in Nat /\ MaxMoves \in Nat
  /\ MaxRequests \in Nat /\ MaxWindows \in Nat
  /\ NoTarget \notin LinkedBugs /\ "none" \notin TicketBugs
  /\ Members \subseteq Users /\ Nobody \notin Users
  /\ IsFiniteSet(Workers)
  BY BoundsAssumption, NobodyAssumption, WorkersAssumption

-----------------------------------------------------------------------------
(* Tickets. *)
CallOps == {"none", "create", "store", "fetch", "update"}
Calls == [op : CallOps, bug : TicketBugs \union {"none"}, ticket : 0 .. MaxTickets,
          status : {"unknown", "open", "closed"}, at : 0 .. MaxMoves]
LinkRows == [there : BOOLEAN, integration : BOOLEAN, status : {"unknown", "open", "closed"},
             at : 0 .. MaxMoves]

Created(i) == ticket[i] # T!NoTicket
Syncs(w) == calls[w].op \in {"fetch", "update"}

TicketsTyped ==
  /\ T!TypeOK
  /\ calls \in [Workers -> Calls] /\ link \in [T!Tickets -> LinkRows]

\* A link is of a bug that there is, and no newer than the clock.
LinkedIsOwned ==
  \A i \in T!Tickets : link[i].there => ticket[i].bug \in owners /\ link[i].at <= clock

\* A worker about to store a link has created its ticket, which has no link.
StoresInHand ==
  \A w \in Workers : calls[w].op = "store" =>
    /\ calls[w].ticket \in T!Tickets /\ Created(calls[w].ticket)
    /\ ticket[calls[w].ticket].bug = calls[w].bug
    /\ ~link[calls[w].ticket].there /\ calls[w].ticket \notin unlinked

\* No two workers are about to store the same ticket.
StoresApart ==
  \A v, w \in Workers : calls[v].op = "store" /\ calls[w].op = "store" /\ v # w =>
    calls[v].ticket # calls[w].ticket

\* A sync is of a ticket that was created, and has read nothing newer than the clock.
SyncsInHand ==
  \A w \in Workers :
    /\ calls[w].op = "create" => calls[w].bug \in TicketBugs
    /\ Syncs(w) => calls[w].ticket \in T!Tickets /\ Created(calls[w].ticket)
    /\ calls[w].op = "update" => calls[w].at <= clock

UnlinkedIsGone == \A i \in unlinked : Created(i) /\ ~link[i].there

\* Unless syncs overlap, a ticket has one sync, which has read nothing older than its link.
SyncsApart ==
  ~overlapped =>
    /\ \A v, w \in Workers : Syncs(v) /\ Syncs(w) /\ v # w => calls[v].ticket # calls[w].ticket
    /\ \A w \in Workers : calls[w].op = "update" /\ link[calls[w].ticket].there =>
         link[calls[w].ticket].at <= calls[w].at

TicketsInd ==
  /\ TicketsTyped /\ LinkedIsOwned /\ StoresInHand /\ StoresApart /\ SyncsInHand
  /\ UnlinkedIsGone /\ SyncsApart /\ T!TicketsAreLinked

\* A step of another machine.
LEMMA TicketsStill == TicketsInd /\ UNCHANGED ticketVars => TicketsInd'
  BY DEF TicketsInd, TicketsTyped, LinkedIsOwned, StoresInHand, StoresApart, SyncsInHand,
    UnlinkedIsGone, SyncsApart, Created, Syncs, T!TicketsAreLinked, T!TypeOK, T!Does, ticketVars

\* The invariant holds at the start.
LEMMA TicketsInit == T!Init => TicketsInd
<1> SUFFICES ASSUME T!Init PROVE TicketsInd
  OBVIOUS
<1> USE TrackerConstants
<1>1. TicketsTyped
  BY DEF TicketsTyped, T!Init, T!TypeOK, T!NoTicket, T!NoLink, T!Idle, Calls, CallOps, LinkRows, T!Tickets
<1> QED
  BY <1>1 DEF T!Init, TicketsInd, LinkedIsOwned, StoresInHand, StoresApart, SyncsInHand,
    UnlinkedIsGone, SyncsApart, Created, Syncs, T!TicketsAreLinked, T!NoTicket, T!NoLink, T!Idle

\* A worker begins to create a ticket for a bug.
LEMMA PushBegins ==
  ASSUME TicketsInd, NEW w \in Workers, NEW b \in TicketBugs, T!BeginPush(w, b)
  PROVE TicketsInd'
<1> USE TrackerConstants DEF T!BeginPush, T!Becomes, T!history
<1>1. TicketsTyped'
  BY DEF TicketsInd, TicketsTyped, T!TypeOK, T!Idle, Calls, CallOps
<1>2. calls' = [calls EXCEPT ![w] = [T!Idle EXCEPT !.op = "create", !.bug = b]]
        /\ UNCHANGED <<ticket, clock, owners, link, unlinked, orphaned, overlapped>>
  OBVIOUS
<1> QED
  BY <1>1, <1>2 DEF TicketsInd, TicketsTyped, LinkedIsOwned, StoresInHand, StoresApart, SyncsInHand,
    UnlinkedIsGone, SyncsApart, Created, Syncs, T!TicketsAreLinked, T!Does, T!Idle

\* A worker ends its call, with no link written: a ticket it was to store is orphaned.
LEMMA CallEnds ==
  ASSUME TicketsInd, NEW w \in Workers,
         calls' = [calls EXCEPT ![w] = T!Idle],
         UNCHANGED <<ticket, clock, owners, integration, link, unlinked, overlapped>>,
         orphaned \subseteq orphaned', orphaned' \subseteq T!Tickets,
         calls[w].op = "store" => calls[w].ticket \in orphaned'
  PROVE TicketsInd'
<1> USE TrackerConstants
<1>1. TicketsTyped'
  BY DEF TicketsInd, TicketsTyped, T!TypeOK, T!Idle, Calls, CallOps
<1>2. T!TicketsAreLinked'
  BY DEF TicketsInd, TicketsTyped, T!TicketsAreLinked, T!Does, T!Idle
<1> QED
  BY <1>1, <1>2 DEF TicketsInd, TicketsTyped, LinkedIsOwned, StoresInHand, StoresApart, SyncsInHand,
    UnlinkedIsGone, SyncsApart, Created, Syncs, T!Does, T!Idle

\* The other tracker creates the ticket, which no link names yet.
LEMMA TicketCreated ==
  ASSUME TicketsInd, NEW w \in Workers, T!CreateTicket(w)
  PROVE TicketsInd'
<1>1. PICK i \in T!Tickets :
        /\ ~Created(i)
        /\ ticket' = [ticket EXCEPT ![i] = [bug |-> calls[w].bug, status |-> "open"]]
        /\ \/ calls' = [calls EXCEPT ![w] = [calls[w] EXCEPT !.op = "store", !.ticket = i]]
                /\ UNCHANGED orphaned
           \/ calls' = [calls EXCEPT ![w] = T!Idle] /\ orphaned' = orphaned \union {i}
  BY DEF Created, T!CreateTicket, T!Becomes, T!Ends
<1>2. UNCHANGED <<clock, owners, link, unlinked, overlapped, integration>> /\ calls[w].op = "create"
  BY DEF T!CreateTicket, T!Does
<1>3. calls[w].bug \in TicketBugs /\ calls[w] \in Calls
  BY <1>2 DEF TicketsInd, SyncsInHand, TicketsTyped
<1>30. PICK c : c = calls'[w]
  OBVIOUS
<1>31. calls \in [Workers -> Calls]
  BY DEF TicketsInd, TicketsTyped
<1>32. calls' = [calls EXCEPT ![w] = c]
  BY <1>1, <1>30, <1>31
<1>33. c = [calls[w] EXCEPT !.op = "store", !.ticket = i] \/ c = T!Idle
  BY <1>1, <1>30, <1>31
<1>34. c \in Calls /\ c.op \in {"none", "store"}
         /\ (c.op = "store" => c.ticket = i /\ c.bug = calls[w].bug)
  <2>1. i \in 0 .. MaxTickets /\ 0 \in 0 .. MaxTickets /\ 0 \in 0 .. MaxMoves
    BY TrackerConstants DEF T!Tickets
  <2>2. T!Idle \in Calls /\ T!Idle.op = "none"
    BY <2>1 DEF T!Idle, Calls, CallOps
  <2>3. CASE c = [calls[w] EXCEPT !.op = "store", !.ticket = i]
    <3>1. c.op = "store" /\ c.ticket = i /\ c.bug = calls[w].bug
      BY <1>3, <2>3 DEF Calls
    <3>2. c \in Calls
      BY <1>3, <2>1, <2>3 DEF Calls, CallOps
    <3> QED
      BY <3>1, <3>2
  <2> QED
    BY <1>33, <2>2, <2>3
<1>4. TicketsTyped'
  <2>1. calls' \in [Workers -> Calls]
    BY <1>31, <1>32, <1>34
  <2>2. T!TypeOK'
    BY <1>1, <1>2, <1>3, TrackerConstants DEF TicketsInd, TicketsTyped, T!TypeOK, Created, T!NoTicket
  <2> QED
    BY <1>2, <2>1, <2>2 DEF TicketsInd, TicketsTyped
<1>5. /\ \A j \in T!Tickets : Created(j)' <=> Created(j) \/ j = i
      /\ \A j \in T!Tickets : j # i => ticket'[j] = ticket[j]
      /\ ticket'[i].bug = calls[w].bug
  BY <1>1, <1>3, TrackerConstants DEF Created, T!NoTicket, TicketsInd, TicketsTyped, T!TypeOK
<1>6. ~link[i].there /\ i \notin unlinked
  BY <1>1 DEF TicketsInd, TicketsTyped, T!TypeOK, Created, UnlinkedIsGone
<1>7. \A v \in Workers : v # w => calls'[v] = calls[v]
  BY <1>31, <1>32
<1>8. calls'[w].op \in {"none", "store"}
        /\ (calls'[w].op = "store" => calls'[w].ticket = i /\ calls'[w].bug = calls[w].bug)
        /\ (calls'[w].op = "none" => i \in orphaned')
        /\ orphaned \subseteq orphaned'
  <2>1. CASE c = T!Idle
    <3>1. i \in orphaned' /\ orphaned \subseteq orphaned'
      <4>1. calls'[w].op # "store"
        BY <2>1, <1>30 DEF T!Idle
      <4> QED
        BY <1>1, <1>31, <1>3, <4>1 DEF Calls
    <3> QED
      BY <3>1, <1>30, <1>34
  <2>2. CASE c = [calls[w] EXCEPT !.op = "store", !.ticket = i]
    <3>1. c.op = "store"
      BY <2>2, <1>3 DEF Calls
    <3> QED
      BY <3>1, <1>30, <1>34, <1>1
  <2> QED
    BY <2>1, <2>2, <1>33
<1>9. UnlinkedIsGone' /\ LinkedIsOwned'
  BY <1>2, <1>5, <1>6 DEF TicketsInd, UnlinkedIsGone, LinkedIsOwned, TicketsTyped, T!TypeOK
<1>10. StoresInHand' /\ StoresApart'
  BY <1>1, <1>2, <1>5, <1>6, <1>7, <1>8 DEF TicketsInd, StoresInHand, StoresApart
<1>11. SyncsInHand' /\ SyncsApart'
  BY <1>2, <1>5, <1>7, <1>8 DEF TicketsInd, SyncsInHand, SyncsApart, Syncs
<1>12. T!TicketsAreLinked'
  <2>1. SUFFICES ASSUME NEW j \in T!Tickets, Created(j)'
                 PROVE \/ link'[j].there /\ ticket'[j].bug \in owners'
                       \/ j \in unlinked' \union orphaned'
                       \/ \E v \in Workers : calls'[v].op = "store" /\ calls'[v].ticket = j
    BY DEF T!TicketsAreLinked, Created, T!Does
  <2>2. CASE j = i
    BY <2>2, <1>8
  <2>3. CASE j # i
    BY <2>1, <2>3, <1>2, <1>5, <1>7, <1>8 DEF TicketsInd, T!TicketsAreLinked, Created, T!Does
  <2> QED
    BY <2>2, <2>3
<1> QED
  BY <1>4, <1>9, <1>10, <1>11, <1>12 DEF TicketsInd

\* The link to a created ticket is stored, or the ticket is orphaned: its bug or its integration
\* has gone.
LEMMA PushCommits ==
  ASSUME TicketsInd, NEW w \in Workers, T!CommitPush(w)
  PROVE TicketsInd'
<1> USE TrackerConstants DEF T!CommitPush, T!Becomes, T!Ends, T!Does
<1>1. PICK t : t = calls[w].ticket
  OBVIOUS
<1>2. t \in T!Tickets /\ Created(t) /\ ~link[t].there /\ t \notin unlinked /\ calls[w].op = "store"
        /\ ticket[t].bug = calls[w].bug
  BY <1>1 DEF TicketsInd, StoresInHand
<1>3. CASE calls[w].bug \in owners /\ integration # "deleted"
  <2>1. /\ link' = [link EXCEPT ![t] = [there |-> TRUE, integration |-> TRUE, status |-> "open", at |-> 0]]
        /\ calls' = [calls EXCEPT ![w] = T!Idle]
        /\ UNCHANGED <<ticket, clock, owners, integration, unlinked, overlapped, orphaned>>
    BY <1>1, <1>3
  <2>2. TicketsTyped'
    BY <1>2, <2>1 DEF TicketsInd, TicketsTyped, T!TypeOK, T!Idle, Calls, CallOps, LinkRows, Created
  <2>3. /\ link'[t] = [there |-> TRUE, integration |-> TRUE, status |-> "open", at |-> 0]
        /\ \A j \in T!Tickets : j # t => link'[j] = link[j]
        /\ calls'[w] = T!Idle /\ \A v \in Workers : v # w => calls'[v] = calls[v]
    BY <1>2, <2>1 DEF TicketsInd, TicketsTyped
  <2>4. LinkedIsOwned' /\ UnlinkedIsGone'
    BY <1>2, <1>3, <2>1, <2>3 DEF TicketsInd, TicketsTyped, T!TypeOK, LinkedIsOwned, UnlinkedIsGone, Created
  <2>5. StoresInHand' /\ StoresApart'
    BY <1>1, <1>2, <2>1, <2>3 DEF TicketsInd, StoresInHand, StoresApart, T!Idle, Created
  <2>6. SyncsInHand'
    BY <2>1, <2>3 DEF TicketsInd, SyncsInHand, Syncs, T!Idle, Created
  <2>7. SyncsApart'
    <3>1. \A v \in Workers : calls[v].at >= 0
      BY DEF TicketsInd, TicketsTyped, Calls
    <3> QED
      BY <2>1, <2>3, <3>1 DEF TicketsInd, SyncsApart, SyncsInHand, Syncs, T!Idle, Created
  <2>8. T!TicketsAreLinked'
    BY <1>1, <1>2, <1>3, <2>1, <2>3 DEF TicketsInd, T!TicketsAreLinked, Created
  <2> QED
    BY <2>2, <2>4, <2>5, <2>6, <2>7, <2>8 DEF TicketsInd
<1>4. CASE ~(calls[w].bug \in owners /\ integration # "deleted")
  <2>1. orphaned' = orphaned \union {t} /\ UNCHANGED <<link, ticket, clock, owners, integration, unlinked, overlapped>>
    BY <1>1, <1>4
  <2>2. orphaned \subseteq T!Tickets
    BY DEF TicketsInd, TicketsTyped, T!TypeOK
  <2> QED
    BY <1>1, <1>2, <2>1, <2>2, CallEnds
<1> QED
  BY <1>3, <1>4

\* A worker dies, and its call is lost.
LEMMA CallDies ==
  ASSUME TicketsInd, NEW w \in Workers, T!Die(w)
  PROVE TicketsInd'
<1>1. orphaned \subseteq T!Tickets /\ (calls[w].op = "store" => calls[w].ticket \in T!Tickets)
  BY DEF TicketsInd, TicketsTyped, T!TypeOK, StoresInHand
<1> QED
  BY <1>1, CallEnds DEF T!Die, T!Ends, T!Becomes, T!Does

\* The other tracker refuses the ticket.
LEMMA CreationFails ==
  ASSUME TicketsInd, NEW w \in Workers, T!CreateFails(w)
  PROVE TicketsInd'
<1>1. orphaned \subseteq T!Tickets
  BY DEF TicketsInd, TicketsTyped, T!TypeOK
<1> QED
  BY <1>1, CallEnds DEF T!CreateFails, T!Ends, T!Becomes, T!Does, T!history

\* A worker begins to sync a link, alone with its ticket unless syncs overlap.
LEMMA SyncBegins ==
  ASSUME TicketsInd, NEW w \in Workers, NEW i \in T!Tickets, T!BeginSync(w, i)
  PROVE TicketsInd'
<1>1. Created(i)
  BY DEF TicketsInd, TicketsTyped, T!TypeOK, Created, T!BeginSync
<1>2. overlapped' = (overlapped \/ \E v \in Workers : Syncs(v) /\ calls[v].ticket = i)
  BY DEF Syncs, T!BeginSync
<1>20. PICK c : c = [T!Idle EXCEPT !.op = "fetch", !.ticket = i]
  OBVIOUS
<1>21. calls' = [calls EXCEPT ![w] = c] /\ calls \in [Workers -> Calls]
  BY <1>20 DEF T!BeginSync, T!Becomes, TicketsInd, TicketsTyped
<1>22. c \in Calls /\ c.op = "fetch" /\ c.ticket = i
  <2>1. i \in 0 .. MaxTickets /\ 0 \in 0 .. MaxMoves
    BY TrackerConstants DEF T!Tickets
  <2> QED
    BY <1>20, <2>1 DEF T!Idle, Calls, CallOps
<1>5. UNCHANGED <<ticket, clock, owners, integration, link, unlinked, orphaned>>
  BY DEF T!BeginSync
<1>3. TicketsTyped'
  BY <1>5, <1>21, <1>22 DEF TicketsInd, TicketsTyped, T!TypeOK
<1>4. calls'[w].op = "fetch" /\ calls'[w].ticket = i
        /\ \A v \in Workers : v # w => calls'[v] = calls[v]
  BY <1>21, <1>22
<1>6. calls[w].op = "none"
  BY DEF T!Idle, T!BeginSync
<1>7. SyncsApart'
  <2>1. SUFFICES ASSUME ~overlapped' PROVE SyncsApart'
    BY DEF SyncsApart
  <2>2. ~overlapped /\ \A v \in Workers : ~(Syncs(v) /\ calls[v].ticket = i)
    BY <1>2, <2>1
  <2> QED
    BY <1>4, <1>5, <2>2 DEF TicketsInd, SyncsApart, Syncs
<1>8. StoresInHand' /\ StoresApart' /\ SyncsInHand'
  BY <1>1, <1>4, <1>5 DEF TicketsInd, StoresInHand, StoresApart, SyncsInHand, Syncs, Created
<1>9. LinkedIsOwned' /\ UnlinkedIsGone' /\ T!TicketsAreLinked'
  BY <1>4, <1>5, <1>6 DEF TicketsInd, LinkedIsOwned, UnlinkedIsGone, T!TicketsAreLinked, Created, T!Does
<1> QED
  BY <1>3, <1>7, <1>8, <1>9 DEF TicketsInd

\* A sync reads the status of its ticket, at the clock of now.
LEMMA StatusFetched ==
  ASSUME TicketsInd, NEW w \in Workers, T!FetchStatus(w)
  PROVE TicketsInd'
<1>1. CASE calls' = [calls EXCEPT ![w] = T!Idle]
  <2>1. orphaned \subseteq T!Tickets /\ calls[w].op # "store"
          /\ UNCHANGED <<ticket, clock, owners, integration, link, unlinked, orphaned, overlapped>>
    BY DEF TicketsInd, TicketsTyped, T!TypeOK, T!FetchStatus, T!history, T!Does
  <2> QED
    BY <1>1, <2>1, CallEnds
<1>2. CASE calls' = [calls EXCEPT ![w] = [calls[w] EXCEPT !.op = "update", !.at = clock,
                                                         !.status = ticket[calls[w].ticket].status]]
  <2>1. calls[w].op = "fetch" /\ calls[w].ticket \in T!Tickets /\ Created(calls[w].ticket)
    BY DEF TicketsInd, SyncsInHand, Syncs, T!FetchStatus, T!Does
  <2>2. ticket[calls[w].ticket].status \in {"open", "closed"} /\ clock \in 0 .. MaxMoves
    BY <2>1 DEF TicketsInd, TicketsTyped, T!TypeOK, Created
  <2>20. PICK c : c = [calls[w] EXCEPT !.op = "update", !.at = clock,
                                      !.status = ticket[calls[w].ticket].status]
    OBVIOUS
  <2>21. calls' = [calls EXCEPT ![w] = c] /\ calls \in [Workers -> Calls]
    BY <1>2, <2>20 DEF TicketsInd, TicketsTyped
  <2>22. c \in Calls /\ c.op = "update" /\ c.ticket = calls[w].ticket /\ c.at = clock
    BY <2>2, <2>20, <2>21 DEF Calls, CallOps
  <2>5. UNCHANGED <<ticket, clock, owners, integration, link, unlinked, orphaned, overlapped>>
    BY DEF T!FetchStatus, T!history
  <2>3. TicketsTyped'
    BY <2>5, <2>21, <2>22 DEF TicketsInd, TicketsTyped, T!TypeOK
  <2>4. /\ calls'[w].op = "update" /\ calls'[w].ticket = calls[w].ticket /\ calls'[w].at = clock
        /\ \A v \in Workers : v # w => calls'[v] = calls[v]
    BY <2>21, <2>22
  <2>6. SyncsInHand' /\ SyncsApart'
    BY <2>1, <2>2, <2>4, <2>5 DEF TicketsInd, SyncsInHand, SyncsApart, Syncs, Created, LinkedIsOwned
  <2>7. StoresInHand' /\ StoresApart'
    BY <2>4, <2>5 DEF TicketsInd, StoresInHand, StoresApart, Created
  <2>8. LinkedIsOwned' /\ UnlinkedIsGone' /\ T!TicketsAreLinked'
    BY <2>1, <2>4, <2>5 DEF TicketsInd, LinkedIsOwned, UnlinkedIsGone, T!TicketsAreLinked, Created, T!Does
  <2> QED
    BY <2>3, <2>6, <2>7, <2>8 DEF TicketsInd
<1> QED
  BY <1>1, <1>2 DEF T!FetchStatus, T!Becomes, T!Ends

\* A sync writes what it read, which is not older unless syncs overlap.
LEMMA SyncCommits ==
  ASSUME TicketsInd, NEW w \in Workers, T!CommitSync(w)
  PROVE TicketsInd'
<1>1. PICK t : t = calls[w].ticket
  OBVIOUS
<1>0. calls[w].op = "update" /\ calls' = [calls EXCEPT ![w] = T!Idle]
        /\ UNCHANGED <<ticket, clock, owners, integration, unlinked, overlapped, orphaned>>
  BY DEF T!CommitSync, T!Becomes, T!Ends, T!history, T!Does
<1>2. CASE link[t].there /\ integration # "deleted"
  <2>1. /\ link' = [link EXCEPT ![t].status = calls[w].status, ![t].at = calls[w].at]
        /\ calls' = [calls EXCEPT ![w] = T!Idle]
        /\ UNCHANGED <<ticket, clock, owners, integration, unlinked, overlapped, orphaned>>
    BY <1>0, <1>1, <1>2 DEF T!CommitSync
  <2>2. t \in T!Tickets /\ calls[w].op = "update" /\ calls[w].at <= clock
    BY <1>0, <1>1 DEF TicketsInd, SyncsInHand, Syncs
  <2>20. calls \in [Workers -> Calls] /\ calls[w] \in Calls /\ link \in [T!Tickets -> LinkRows]
           /\ link[t] \in LinkRows
    BY <2>2 DEF TicketsInd, TicketsTyped
  <2>21. PICK row : row = [link[t] EXCEPT !.status = calls[w].status, !.at = calls[w].at]
    OBVIOUS
  <2>22. row \in LinkRows /\ row.there = link[t].there /\ row.at = calls[w].at
    BY <2>20, <2>21 DEF LinkRows, Calls
  <2>23. link' = [link EXCEPT ![t] = row]
    BY <2>1, <2>2, <2>20, <2>21
  <2>24. T!Idle \in Calls
    BY TrackerConstants DEF T!Idle, Calls, CallOps
  <2>4. /\ link'[t].there /\ link'[t].at = calls[w].at
        /\ \A j \in T!Tickets : j # t => link'[j] = link[j]
        /\ calls'[w] = T!Idle /\ \A v \in Workers : v # w => calls'[v] = calls[v]
    BY <1>0, <1>2, <2>2, <2>20, <2>22, <2>23
  <2>3. TicketsTyped'
    <3>1. calls' \in [Workers -> Calls] /\ link' \in [T!Tickets -> LinkRows]
      BY <1>0, <2>20, <2>22, <2>23, <2>24
    <3>2. \A i \in T!Tickets : link'[i].there => link[i].there
      BY <1>2, <2>4
    <3>3. T!TypeOK'
      BY <1>0, <3>2 DEF TicketsInd, TicketsTyped, T!TypeOK
    <3> QED
      BY <3>1, <3>3 DEF TicketsTyped
  <2>5. SyncsInHand' /\ SyncsApart'
    BY <1>0, <1>1, <2>2, <2>4 DEF TicketsInd, SyncsInHand, SyncsApart, Syncs, Created, T!Idle
  <2>6. StoresInHand' /\ StoresApart'
    BY <1>0, <1>2, <2>4 DEF TicketsInd, StoresInHand, StoresApart, Created, T!Idle
  <2>7. LinkedIsOwned' /\ UnlinkedIsGone'
    BY <1>0, <1>2, <2>2, <2>4 DEF TicketsInd, LinkedIsOwned, UnlinkedIsGone, Created, TicketsTyped, T!TypeOK
  <2>8. T!TicketsAreLinked'
    BY <1>0, <1>2, <2>2, <2>4 DEF TicketsInd, T!TicketsAreLinked, Created, T!Does, T!Idle
  <2> QED
    BY <2>3, <2>5, <2>6, <2>7, <2>8 DEF TicketsInd
<1>3. CASE ~(link[t].there /\ integration # "deleted")
  <2>1. orphaned \subseteq T!Tickets
    BY DEF TicketsInd, TicketsTyped, T!TypeOK
  <2> QED
    BY <1>0, <1>1, <1>3, <2>1, CallEnds DEF T!CommitSync
<1> QED
  BY <1>2, <1>3

\* A step that only takes links away keeps the requests as they are.
LEMMA LinksTaken ==
  ASSUME TicketsInd, NEW gone \in SUBSET T!Tickets,
         \A i \in gone : Created(i),
         link' \in [T!Tickets -> LinkRows],
         \A i \in gone : ~link'[i].there,
         \A i \in T!Tickets \ gone : link'[i].there = link[i].there /\ link'[i].at = link[i].at,
         unlinked' = unlinked \union gone,
         owners' \subseteq owners,
         \A i \in T!Tickets : link'[i].there => ticket[i].bug \in owners',
         integration' \in {"active", "disabled", "deleted"},
         UNCHANGED <<ticket, clock, calls, orphaned, overlapped>>,
         \A i \in gone : link[i].there
  PROVE TicketsInd'
<1> USE TrackerConstants
<1>1. TicketsTyped'
  BY DEF TicketsInd, TicketsTyped, T!TypeOK
<1>2. LinkedIsOwned' /\ UnlinkedIsGone'
  BY DEF TicketsInd, LinkedIsOwned, UnlinkedIsGone, TicketsTyped, T!TypeOK, Created
<1>3. StoresInHand' /\ StoresApart' /\ SyncsInHand'
  BY DEF TicketsInd, StoresInHand, StoresApart, SyncsInHand, Syncs, Created
<1>4. SyncsApart'
  BY DEF TicketsInd, SyncsApart, SyncsInHand, Syncs, Created
<1>5. T!TicketsAreLinked'
  BY DEF TicketsInd, T!TicketsAreLinked, T!Does
<1> QED
  BY <1>1, <1>2, <1>3, <1>4, <1>5 DEF TicketsInd

\* A link is deleted, and recorded as unlinked.
LEMMA LinkDeleted ==
  ASSUME TicketsInd, NEW w \in Workers, NEW i \in T!Tickets, T!DeleteLink(w, i)
  PROVE TicketsInd'
<1>1. Created(i) /\ link[i].there /\ T!NoLink \in LinkRows /\ ~T!NoLink.there
  BY TrackerConstants DEF TicketsInd, TicketsTyped, T!TypeOK, Created, T!DeleteLink, T!NoLink, LinkRows
<1>2. link' = [link EXCEPT ![i] = T!NoLink] /\ unlinked' = unlinked \union {i}
        /\ UNCHANGED <<ticket, clock, owners, integration, calls, orphaned, overlapped>>
  BY DEF T!DeleteLink
<1>3. /\ link' \in [T!Tickets -> LinkRows] /\ ~link'[i].there
      /\ \A j \in T!Tickets \ {i} : link'[j].there = link[j].there /\ link'[j].at = link[j].at
  BY <1>1, <1>2 DEF TicketsInd, TicketsTyped
<1>4. \A j \in T!Tickets : link'[j].there => ticket[j].bug \in owners'
  BY <1>2, <1>3 DEF TicketsInd, LinkedIsOwned
<1>5. integration' \in {"active", "disabled", "deleted"} /\ {i} \in SUBSET T!Tickets
  BY <1>2 DEF TicketsInd, TicketsTyped, T!TypeOK
<1> QED
  BY <1>1, <1>2, <1>3, <1>4, <1>5, LinksTaken

\* An integration is updated: no link moves.
LEMMA IntegrationUpdated ==
  ASSUME TicketsInd, NEW w \in Workers, NEW active \in BOOLEAN, T!UpdateIntegration(w, active)
  PROVE TicketsInd'
<1>1. link' \in [T!Tickets -> LinkRows] /\ unlinked' = unlinked \union {}
        /\ integration' \in {"active", "disabled", "deleted"}
        /\ UNCHANGED <<ticket, clock, owners, calls, link, orphaned, overlapped>>
  BY DEF T!UpdateIntegration, T!history, TicketsInd, TicketsTyped
<1>2. \A j \in T!Tickets : link'[j].there => ticket[j].bug \in owners'
  BY <1>1 DEF TicketsInd, LinkedIsOwned
<1>9. {} \in SUBSET T!Tickets
  OBVIOUS
<1>11. PICK gone \in SUBSET T!Tickets : gone = {}
  BY <1>9
<1>10. /\ \A i \in gone : Created(i) /\ ~link'[i].there /\ link[i].there
       /\ \A i \in T!Tickets \ gone : link'[i].there = link[i].there /\ link'[i].at = link[i].at
       /\ unlinked' = unlinked \union gone /\ owners' \subseteq owners
  BY <1>1, <1>11
<1> QED
  BY <1>9, <1>10, <1>1, <1>2, LinksTaken

\* An integration is deleted: its links stay, without it.
LEMMA IntegrationDeleted ==
  ASSUME TicketsInd, NEW w \in Workers, T!DeleteIntegration(w)
  PROVE TicketsInd'
<1>1. link' = [i \in T!Tickets |-> [link[i] EXCEPT !.integration = FALSE]]
  BY DEF T!DeleteIntegration
<1>2. /\ link' \in [T!Tickets -> LinkRows]
      /\ \A j \in T!Tickets : link'[j].there = link[j].there /\ link'[j].at = link[j].at
  BY <1>1 DEF TicketsInd, TicketsTyped, LinkRows
<1>3. unlinked' = unlinked \union {} /\ integration' \in {"active", "disabled", "deleted"}
        /\ UNCHANGED <<ticket, clock, owners, calls, orphaned, overlapped>>
  BY DEF T!DeleteIntegration, T!history
<1>4. \A j \in T!Tickets : link'[j].there => ticket[j].bug \in owners'
  BY <1>2, <1>3 DEF TicketsInd, LinkedIsOwned
<1>9. {} \in SUBSET T!Tickets
  OBVIOUS
<1>11. PICK gone \in SUBSET T!Tickets : gone = {}
  BY <1>9
<1>10. /\ \A i \in gone : Created(i) /\ ~link'[i].there /\ link[i].there
       /\ \A i \in T!Tickets \ gone : link'[i].there = link[i].there /\ link'[i].at = link[i].at
       /\ unlinked' = unlinked \union gone /\ owners' \subseteq owners
  BY <1>2, <1>3, <1>11
<1> QED
  BY <1>9, <1>10, <1>2, <1>3, <1>4, LinksTaken

\* A bug is deleted with its links.
LEMMA OwnerDeleted ==
  ASSUME TicketsInd, NEW w \in Workers, NEW b \in TicketBugs, T!DeleteBug(w, b)
  PROVE TicketsInd'
<1>1. PICK gone : gone = {i \in T!Tickets : link[i].there /\ ticket[i].bug = b}
  OBVIOUS
<1>2. /\ link' = [i \in T!Tickets |-> IF i \in gone THEN T!NoLink ELSE link[i]]
      /\ unlinked' = unlinked \union gone /\ owners' = owners \ {b}
      /\ UNCHANGED <<ticket, clock, integration, calls, orphaned, overlapped>>
  BY <1>1 DEF T!DeleteBug
<1>3. T!NoLink \in LinkRows /\ ~T!NoLink.there
  BY TrackerConstants DEF T!NoLink, LinkRows
<1>4. /\ link' \in [T!Tickets -> LinkRows]
      /\ \A i \in gone : ~link'[i].there
      /\ \A i \in T!Tickets \ gone : link'[i].there = link[i].there /\ link'[i].at = link[i].at
  BY <1>1, <1>2, <1>3 DEF TicketsInd, TicketsTyped
<1>5. \A i \in gone : Created(i) /\ link[i].there
  BY <1>1 DEF TicketsInd, TicketsTyped, T!TypeOK, Created
<1>6. \A i \in T!Tickets : link'[i].there => ticket[i].bug \in owners'
  BY <1>1, <1>2, <1>4 DEF TicketsInd, LinkedIsOwned
<1>7. integration' \in {"active", "disabled", "deleted"} /\ gone \in SUBSET T!Tickets /\ owners' \subseteq owners
  BY <1>1, <1>2 DEF TicketsInd, TicketsTyped, T!TypeOK
<1> QED
  BY <1>2, <1>4, <1>5, <1>6, <1>7, LinksTaken

\* A ticket moves in the other tracker, and the clock with it.
LEMMA TicketMoved ==
  ASSUME TicketsInd, NEW i \in T!Tickets, T!TicketMoves(i)
  PROVE TicketsInd'
<1> USE TrackerConstants
<1>1. PICK s \in {"open", "closed"} : ticket' = [ticket EXCEPT ![i].status = s]
  BY DEF T!TicketMoves
<1>2. clock' = clock + 1 /\ clock < MaxMoves /\ ticket[i] # T!NoTicket
        /\ UNCHANGED <<owners, integration, link, calls, unlinked, orphaned, overlapped>>
  BY DEF T!TicketMoves, T!history
<1>3. clock \in 0 .. MaxMoves /\ ticket[i] \in [bug : TicketBugs, status : {"open", "closed"}]
        /\ clock' \in 0 .. MaxMoves
  BY <1>2 DEF TicketsInd, TicketsTyped, T!TypeOK
<1>4. /\ ticket'[i] = [ticket[i] EXCEPT !.status = s]
      /\ \A j \in T!Tickets : j # i => ticket'[j] = ticket[j]
      /\ ticket' \in [T!Tickets -> [bug : TicketBugs, status : {"open", "closed"}] \union {T!NoTicket}]
  BY <1>1, <1>3 DEF TicketsInd, TicketsTyped, T!TypeOK
<1>5. ticket'[i].bug = ticket[i].bug /\ ticket'[i] # T!NoTicket
  BY <1>3, <1>4 DEF T!NoTicket
<1>6. \A j \in T!Tickets : (Created(j)' <=> Created(j)) /\ (Created(j) => ticket'[j].bug = ticket[j].bug)
  BY <1>2, <1>4, <1>5 DEF Created
<1>7. TicketsTyped'
  BY <1>2, <1>3, <1>4, <1>5 DEF TicketsInd, TicketsTyped, T!TypeOK
<1>8. LinkedIsOwned' /\ UnlinkedIsGone'
  <2>1. \A j \in T!Tickets : link[j].at \in Nat
    BY DEF TicketsInd, TicketsTyped, LinkRows
  <2> QED
    BY <1>2, <1>3, <1>6, <2>1 DEF TicketsInd, LinkedIsOwned, UnlinkedIsGone, TicketsTyped, T!TypeOK, Created
<1>9. StoresInHand' /\ StoresApart'
  BY <1>2, <1>6 DEF TicketsInd, StoresInHand, StoresApart
<1>10. SyncsInHand' /\ SyncsApart'
  <2>1. \A v \in Workers : calls[v].at \in Nat
    BY DEF TicketsInd, TicketsTyped, Calls
  <2> QED
    BY <1>2, <1>3, <1>6, <2>1 DEF TicketsInd, SyncsInHand, SyncsApart, Syncs
<1>11. T!TicketsAreLinked'
  BY <1>2, <1>6 DEF TicketsInd, T!TicketsAreLinked, Created, T!Does
<1> QED
  BY <1>7, <1>8, <1>9, <1>10, <1>11 DEF TicketsInd

\* Every step of the machine keeps it.
LEMMA TicketsNext == TicketsInd /\ T!Next => TicketsInd'
  BY PushBegins, OwnerDeleted, TicketCreated, CreationFails, PushCommits, SyncBegins, LinkDeleted,
    StatusFetched, SyncCommits, IntegrationUpdated, IntegrationDeleted, CallDies, TicketMoved DEF T!Next

\* So does every step of the specification.
LEMMA TicketsStep == TicketsInd /\ [Next]_vars => TicketsInd'
<1>1. TicketsInd /\ TicketStep => TicketsInd'
  BY TicketsNext DEF TicketStep
<1>2. TicketsInd /\ (BugStep \/ ReportStep \/ SchemaStep \/ LinkStep \/ NotificationStep \/ UNCHANGED vars) => TicketsInd'
  BY TicketsStill DEF BugStep, ReportStep, SchemaStep, LinkStep, NotificationStep, trackerVars, vars
<1> QED
  BY <1>1, <1>2 DEF Next

\* So it holds in every state.
LEMMA TicketsAlways == Spec => []TicketsInd
<1>1. Init => TicketsInd
  BY TicketsInit DEF Init
<1> QED
  BY <1>1, TicketsStep, PTL DEF Spec, vars

\* It is what LinksAndTickets needs.
LEMMA TicketsIndHolds == TicketsInd => T!LinksAndTickets
<1>1. TicketsInd => unlinked \subseteq T!Tickets
  BY DEF TicketsInd, TicketsTyped, T!TypeOK
<1> QED
  BY <1>1 DEF TicketsInd, TicketsTyped, T!LinksAndTickets, T!DeletedStaysDeleted, UnlinkedIsGone

\* A link names a ticket that was made elsewhere, of a bug that there is; what was unlinked
\* stays so, and a ticket without a link is orphaned, unlinked or about to be stored.
THEOREM TicketsStayLinked == Spec => []T!LinksAndTickets
<1>1. TicketsInd => T!LinksAndTickets
  BY TicketsIndHolds
<1> QED
  BY <1>1, TicketsAlways, PTL

\* What LinksKeepHistory says of each link in a step.
Kept(i) ==
  link[i].there =>
    /\ link'[i].there \/ i \in unlinked'
    /\ link'[i].there /\ ~overlapped => link'[i].at >= link[i].at

\* What LinksKeepHistory says is so of every link, in every step of the machine.
LEMMA LinkKept == TicketsInd /\ T!Next => \A i \in T!Tickets : Kept(i)
<1> SUFFICES ASSUME TicketsInd, T!Next, NEW i \in T!Tickets, link[i].there
             PROVE /\ link'[i].there \/ i \in unlinked'
                   /\ link'[i].there /\ ~overlapped => link'[i].at >= link[i].at
  BY DEF Kept
<1>1. link \in [T!Tickets -> LinkRows] /\ link[i].at \in Nat
  BY DEF TicketsInd, TicketsTyped, LinkRows
<1>2. CASE UNCHANGED link
  BY <1>1, <1>2
<1>3. ASSUME NEW w \in Workers, T!CommitPush(w), ~UNCHANGED link
      PROVE link'[i] = link[i]
  <2>1. ~link[calls[w].ticket].there
    BY <1>3 DEF T!CommitPush, T!Does, TicketsInd, StoresInHand
  <2>2. i # calls[w].ticket
    BY <2>1
  <2>3. link' = [link EXCEPT ![calls[w].ticket] =
                        [there |-> TRUE, integration |-> TRUE, status |-> "open", at |-> 0]]
    BY <1>3 DEF T!CommitPush
  <2> QED
    BY <1>1, <2>2, <2>3
<1>4. ASSUME NEW w \in Workers, T!CommitSync(w), ~UNCHANGED link
      PROVE link'[i].there /\ (~overlapped => link'[i].at >= link[i].at)
  <2>1. PICK t : t = calls[w].ticket
    OBVIOUS
  <2>2. link' = [link EXCEPT ![t].status = calls[w].status, ![t].at = calls[w].at]
          /\ calls[w].op = "update"
    BY <1>4, <2>1 DEF T!CommitSync, T!Does
  <2>3. t \in T!Tickets /\ calls[w].at \in Nat
    BY <2>1, <2>2 DEF TicketsInd, SyncsInHand, Syncs, TicketsTyped, Calls
  <2>4. CASE i = t
    <3>1. link[t] \in LinkRows
      BY <1>1, <2>3
    <3>2. PICK row : row = [link[t] EXCEPT !.status = calls[w].status, !.at = calls[w].at]
      OBVIOUS
    <3>3. row.there = link[t].there /\ row.at = calls[w].at
      BY <3>1, <3>2 DEF LinkRows
    <3>4. link' = [link EXCEPT ![t] = row]
      BY <1>1, <2>2, <2>3, <3>2
    <3>5. link'[i].there /\ link'[i].at = calls[w].at
      BY <1>1, <2>3, <2>4, <3>3, <3>4
    <3>6. ~overlapped => calls[w].at >= link[i].at
      BY <1>1, <2>1, <2>2, <2>3, <2>4 DEF TicketsInd, SyncsApart
    <3> QED
      BY <3>5, <3>6
  <2>5. CASE i # t
    <3>1. link'[i] = link[i]
      BY <1>1, <2>2, <2>3, <2>5
    <3> QED
      BY <1>1, <3>1
  <2> QED
    BY <2>4, <2>5
<1>5. ASSUME NEW w \in Workers, NEW j \in T!Tickets, T!DeleteLink(w, j)
      PROVE (i \in unlinked' /\ ~link'[i].there) \/ link'[i] = link[i]
  BY <1>1, <1>5 DEF T!DeleteLink, T!NoLink
<1>6. ASSUME NEW w \in Workers, T!DeleteIntegration(w)
      PROVE link'[i].there /\ link'[i].at = link[i].at
  BY <1>1, <1>6 DEF T!DeleteIntegration, LinkRows
<1>7. ASSUME NEW w \in Workers, NEW b \in TicketBugs, T!DeleteBug(w, b)
      PROVE (i \in unlinked' /\ ~link'[i].there) \/ link'[i] = link[i]
  <2>1. PICK gone : gone = {k \in T!Tickets : link[k].there /\ ticket[k].bug = b}
    OBVIOUS
  <2>2. link' = [k \in T!Tickets |-> IF k \in gone THEN T!NoLink ELSE link[k]]
          /\ unlinked' = unlinked \union gone
    BY <1>7, <2>1 DEF T!DeleteBug
  <2> QED
    BY <2>2 DEF T!NoLink
<1>8. UNCHANGED link
        \/ \E w \in Workers :
             \/ T!CommitPush(w) \/ T!CommitSync(w) \/ T!DeleteIntegration(w)
             \/ \E j \in T!Tickets : T!DeleteLink(w, j)
             \/ \E b \in TicketBugs : T!DeleteBug(w, b)
  BY DEF T!Next, T!BeginPush, T!CreateTicket, T!CreateFails, T!BeginSync, T!FetchStatus,
    T!UpdateIntegration, T!Die, T!TicketMoves
<1> QED
  BY <1>1, <1>2, <1>3, <1>4, <1>5, <1>6, <1>7, <1>8

\* A link to a ticket is only deleted for its bug or on its own, and what it says of the
\* ticket never goes back unless two syncs of it overlap.
THEOREM HistoryIsKept == Spec => LinksKeepHistory
<1> DEFINE Step == \A i \in T!Tickets : link[i].there =>
                     /\ link'[i].there \/ i \in unlinked'
                     /\ link'[i].there /\ ~overlapped => link'[i].at >= link[i].at
<1>1. TicketsInd /\ [Next]_vars => [Step]_(T!vars)
  <2>1. TicketsInd /\ T!Next => Step
    BY LinkKept DEF Kept
  <2> QED
    BY <2>1 DEF Next, BugStep, ReportStep, SchemaStep, TicketStep, LinkStep, NotificationStep,
      trackerVars, vars, ticketVars, T!vars
<1>2. Spec => [][Step]_(T!vars)
  <2> HIDE DEF Step
  <2> QED
    BY <1>1, TicketsAlways, PTL DEF Spec, vars
<1> QED
  BY <1>2 DEF LinksKeepHistory, T!LinksKeepHistory

-----------------------------------------------------------------------------
(* Links. *)
Recip(k) == L!RECIPROCAL_LINK_KIND[k]
RowsOf(b, k, t) == {l \in links : l.bug = b /\ l.kind = k /\ l.target = t}
OwnMirror(b, k, t) == b = t /\ Recip(k) = k
Mirrors(l, m) == m.bug = l.target /\ m.target = l.bug /\ m.kind = Recip(l.kind)

LinksTyped ==
  /\ L!TypeOK /\ serial \in BOOLEAN /\ twice \in BOOLEAN
  /\ \A l \in links : l.id <= made
  /\ \A l, m \in links : l.id = m.id => l = m
  /\ req \in [Workers -> SUBSET (1 .. made)]

\* Served one at a time, one worker is deleting.
OneServed == serial => \A v, w \in Workers : req[v] # {} /\ req[w] # {} => v = w

\* Unless rows were made twice, a triple that is not its own mirror has one row.
OneRowEach ==
  ~twice => \A b, t \in bugs, k \in L!Kinds :
    OwnMirror(b, k, t) \/ \A l, m \in RowsOf(b, k, t) : l = m

\* Unless rows were made twice, a row has its mirror.
EachMirrored ==
  ~twice => \A b, t \in bugs, k \in L!Kinds :
    RowsOf(b, k, t) # {} => RowsOf(t, Recip(k), b) # {}

\* Unless rows were made twice, a deletion that takes a row takes its mirror.
TakesBoth ==
  ~twice => \A w \in Workers : \A l, m \in links :
    l.id \in req[w] /\ Mirrors(l, m) /\ ~OwnMirror(l.bug, l.kind, l.target) => m.id \in req[w]

\* Served one at a time, a triple has as many rows as its mirror.
CountsAgree ==
  serial => \A b, t \in bugs, k \in L!Kinds :
    Cardinality(RowsOf(b, k, t)) = Cardinality(RowsOf(t, Recip(k), b))

\* Served one at a time, a deletion takes a pair of mirrors, or a row without a target.
TakesPair ==
  serial => \A w \in Workers : req[w] # {} =>
    \E l, m \in links :
      req[w] = {l.id, m.id} /\ (Mirrors(l, m) \/ (l = m /\ l.target = NoTarget))

LinksInd ==
  /\ LinksTyped /\ OneServed /\ OneRowEach /\ EachMirrored /\ TakesBoth /\ CountsAgree /\ TakesPair

\* The library and the model of links count alike.
LEMMA SameSizeOfLinks == \A set : L!Cardinality(set) = Cardinality(set)
  BY DEF Cardinality, L!Cardinality

\* The mirror of a mirror is the kind itself.
LEMMA RecipIsInvolution == \A k \in L!Kinds : Recip(k) \in L!Kinds /\ Recip(Recip(k)) = k
  BY DEF Recip, L!Kinds, L!RECIPROCAL_LINK_KIND

\* There are finitely many links, having each an id of its own.
LEMMA LinksFinite ==
  ASSUME LinksTyped
  PROVE IsFiniteSet(links) /\ \A b, k, t : IsFiniteSet(RowsOf(b, k, t))
<1>1. PICK f : f = [l \in links |-> l.id]
  OBVIOUS
<1>2. f \in [links -> 1 .. MaxLinks]
  BY <1>1 DEF LinksTyped, L!TypeOK
<1>3. \A l, m \in links : f[l] = f[m] => l = m
  BY <1>1 DEF LinksTyped
<1>4. f \in Injection(links, 1 .. MaxLinks)
  BY <1>2, <1>3 DEF Injection, IsInjective
<1>5. IsFiniteSet(1 .. MaxLinks)
  BY TrackerConstants, FS_Interval
<1>6. IsFiniteSet(links)
  BY <1>4, <1>5, FS_Injection DEF ExistsInjection
<1>7. ASSUME NEW b, NEW k, NEW t PROVE IsFiniteSet(RowsOf(b, k, t))
  <2>1. RowsOf(b, k, t) \subseteq links
    BY DEF RowsOf
  <2> QED
    BY <1>6, <2>1, FS_Subset
<1> QED
  BY <1>6, <1>7

\* A step of another machine.
LEMMA LinksStill == LinksInd /\ UNCHANGED <<serial, linkVars>> => LinksInd'
  BY DEF LinksInd, LinksTyped, OneServed, OneRowEach, EachMirrored, TakesBoth, CountsAgree, TakesPair,
    L!TypeOK, RowsOf, OwnMirror, Mirrors, linkVars

\* The invariant holds at the start.
LEMMA LinksInit == L!Init => LinksInd
<1> SUFFICES ASSUME L!Init PROVE LinksInd
  OBVIOUS
<1>1. \A b, k, t : RowsOf(b, k, t) = {}
  BY DEF L!Init, RowsOf
<1>2. L!Cardinality({}) = 0
  BY SameSizeOfLinks, FS_EmptySet
<1>3. \A w \in Workers : req[w] = {}
  BY DEF L!Init
<1>4. L!TypeOK
  <2>1. \A w \in Workers : L!Cardinality(req[w]) <= 2
    BY <1>2, <1>3
  <2>2. 0 \in 0 .. MaxLinks
    BY TrackerConstants
  <2> QED
    BY <2>1, <2>2 DEF L!Init, L!TypeOK
<1>5. LinksTyped
  BY <1>4 DEF L!Init, LinksTyped
<1> QED
  BY <1>1, <1>3, <1>5 DEF L!Init, LinksInd, OneServed, OneRowEach, EachMirrored, TakesBoth, CountsAgree, TakesPair

\* add_bug_link: two rows, each the mirror of the other, or one that is its own.
LEMMA LinkAdded ==
  ASSUME LinksInd, NEW w \in Workers, NEW b \in LinkedBugs, NEW t \in LinkedBugs, NEW k \in L!Kinds,
         L!AddLink(w, b, k, t)
  PROVE LinksInd'
<1>1. PICK r : r = L!Row(made + 1, b, k, t)
  OBVIOUS
<1>2. PICK s : s = L!Row(made + 2, t, Recip(k), b)
  OBVIOUS
<1>3. /\ b \in bugs /\ t \in bugs /\ made + 2 <= MaxLinks /\ made' = made + 2
      /\ links' = links \union {r, s}
      /\ twice' = (twice \/ \E l \in links : l.bug = b /\ l.kind = k /\ l.target = t)
      /\ UNCHANGED <<serial, bugs, req>>
  BY <1>1, <1>2 DEF L!AddLink, Recip
<1>4. /\ r.id = made + 1 /\ r.bug = b /\ r.kind = k /\ r.target = t
      /\ s.id = made + 2 /\ s.bug = t /\ s.kind = Recip(k) /\ s.target = b
  BY <1>1, <1>2 DEF L!Row
<1>5. made \in Nat /\ made' \in 0 .. MaxLinks /\ \A l \in links : l.id \in Nat /\ l.id <= made
  BY <1>3, TrackerConstants DEF LinksInd, LinksTyped, L!TypeOK
<1>6. LinksTyped'
  <2>1. r \in [id : 1 .. MaxLinks, bug : bugs, kind : L!Kinds, target : bugs \union {NoTarget}]
    BY <1>1, <1>3, <1>5, TrackerConstants DEF L!Row
  <2>2. s \in [id : 1 .. MaxLinks, bug : bugs, kind : L!Kinds, target : bugs \union {NoTarget}]
    BY <1>2, <1>3, <1>5, RecipIsInvolution, TrackerConstants DEF L!Row
  <2>3. L!TypeOK'
    BY <1>3, <1>5, <2>1, <2>2 DEF LinksInd, LinksTyped, L!TypeOK
  <2>4. \A l \in links' : l.id <= made'
    BY <1>3, <1>4, <1>5
  <2>5. \A l, m \in links' : l.id = m.id => l = m
    BY <1>3, <1>4, <1>5 DEF LinksInd, LinksTyped
  <2>6. req' \in [Workers -> SUBSET (1 .. made')]
    <3>1. 1 .. made \subseteq 1 .. made'
      BY <1>3, <1>5
    <3> QED
      BY <1>3, <3>1 DEF LinksInd, LinksTyped
  <2>7. twice' \in BOOLEAN
    BY <1>3
  <2> QED
    BY <1>3, <2>3, <2>4, <2>5, <2>6, <2>7 DEF LinksTyped, LinksInd
<1>7. \A c, j, u : RowsOf(c, j, u)' =
        RowsOf(c, j, u) \union {x \in {r, s} : x.bug = c /\ x.kind = j /\ x.target = u}
  BY <1>3 DEF RowsOf
<1>8. r \notin links /\ s \notin links /\ r # s
  BY <1>4, <1>5
<1>9. ~twice' => ~twice /\ RowsOf(b, k, t) = {} /\ RowsOf(t, Recip(k), b) = {}
  <2>1. ~twice' => ~twice /\ RowsOf(b, k, t) = {}
    BY <1>3 DEF RowsOf
  <2>2. ~twice /\ RowsOf(t, Recip(k), b) # {} => RowsOf(b, Recip(Recip(k)), t) # {}
    BY <1>3, RecipIsInvolution DEF LinksInd, EachMirrored
  <2> QED
    BY <2>1, <2>2, RecipIsInvolution
<1>10. OneRowEach'
  <2>1. SUFFICES ASSUME ~twice', NEW c \in bugs, NEW u \in bugs, NEW j \in L!Kinds,
                        ~OwnMirror(c, j, u), NEW l \in RowsOf(c, j, u)', NEW m \in RowsOf(c, j, u)'
                 PROVE l = m
    BY <1>3 DEF OneRowEach, OwnMirror
  <2>2. ~(RowsOf(c, j, u) # {} /\ {x \in {r, s} : x.bug = c /\ x.kind = j /\ x.target = u} # {})
    BY <1>4, <1>9, <2>1
  <2>3. ~(r.bug = c /\ r.kind = j /\ r.target = u /\ s.bug = c /\ s.kind = j /\ s.target = u)
    BY <1>4, <2>1 DEF OwnMirror
  <2>4. \A x, y \in RowsOf(c, j, u) : x = y
    BY <1>9, <2>1 DEF LinksInd, OneRowEach
  <2>5. CASE RowsOf(c, j, u) = {}
    BY <1>7, <2>1, <2>3, <2>5
  <2>6. CASE {x \in {r, s} : x.bug = c /\ x.kind = j /\ x.target = u} = {}
    BY <1>7, <2>1, <2>4, <2>6
  <2> QED
    BY <2>2, <2>5, <2>6
<1>11. EachMirrored'
  <2>1. SUFFICES ASSUME ~twice', NEW c \in bugs, NEW u \in bugs, NEW j \in L!Kinds,
                        NEW l \in RowsOf(c, j, u)'
                 PROVE RowsOf(u, Recip(j), c)' # {}
    BY <1>3 DEF EachMirrored
  <2>2. CASE l \in RowsOf(c, j, u)
    BY <1>7, <1>9, <2>1, <2>2 DEF LinksInd, EachMirrored
  <2>3. CASE l = r /\ r.bug = c /\ r.kind = j /\ r.target = u
    BY <1>4, <1>7, <2>3
  <2>4. CASE l = s /\ s.bug = c /\ s.kind = j /\ s.target = u
    BY <1>4, <1>7, <2>4, RecipIsInvolution
  <2> QED
    BY <1>7, <2>1, <2>2, <2>3, <2>4
<1>12. TakesBoth'
  <2>1. SUFFICES ASSUME ~twice', NEW v \in Workers, NEW l \in links', NEW m \in links',
                        l.id \in req[v], Mirrors(l, m), ~OwnMirror(l.bug, l.kind, l.target)
                 PROVE m.id \in req[v]
    BY <1>3 DEF TakesBoth, Mirrors, OwnMirror
  <2>2. l.id <= made
    BY <2>1, <1>5 DEF LinksInd, LinksTyped
  <2>3. l \in links
    BY <1>3, <1>4, <1>5, <2>1, <2>2
  <2>4. CASE m \in links
    BY <1>9, <2>1, <2>3, <2>4 DEF LinksInd, TakesBoth
  <2>5. l.kind \in L!Kinds
    BY <2>3 DEF LinksInd, LinksTyped, L!TypeOK
  <2>6. CASE m = r
    <3>1. l.bug = t /\ l.target = b /\ Recip(l.kind) = k
      BY <1>4, <2>1, <2>6 DEF Mirrors
    <3>2. l.kind = Recip(k)
      BY <3>1, <2>5, RecipIsInvolution
    <3>3. l \in RowsOf(t, Recip(k), b)
      BY <2>3, <3>1, <3>2 DEF RowsOf
    <3> QED
      BY <1>9, <2>1, <3>3
  <2>7. CASE m = s
    <3>1. l.bug = b /\ l.target = t /\ Recip(l.kind) = Recip(k)
      BY <1>4, <2>1, <2>7 DEF Mirrors
    <3>2. l.kind = k
      BY <3>1, <2>5, RecipIsInvolution
    <3>3. l \in RowsOf(b, k, t)
      BY <2>3, <3>1, <3>2 DEF RowsOf
    <3> QED
      BY <1>9, <2>1, <3>3
  <2> QED
    BY <1>3, <2>4, <2>6, <2>7
<1>13. \A v \in Workers : serial => req[v] = {}
  BY DEF L!AddLink, L!MayServe
<1>14. CountsAgree'
  <2>1. SUFFICES ASSUME serial, NEW c \in bugs, NEW u \in bugs, NEW j \in L!Kinds, ~OwnMirror(c, j, u)
                 PROVE Cardinality(RowsOf(c, j, u)') = Cardinality(RowsOf(u, Recip(j), c)')
    BY <1>3 DEF CountsAgree, OwnMirror
  <2>2. Cardinality(RowsOf(c, j, u)) = Cardinality(RowsOf(u, Recip(j), c))
    BY <2>1 DEF LinksInd, CountsAgree
  <2>3. IsFiniteSet(RowsOf(c, j, u)) /\ IsFiniteSet(RowsOf(u, Recip(j), c))
    BY LinksFinite DEF LinksInd
  <2>4. \A x \in {r, s} : x \notin RowsOf(c, j, u) /\ x \notin RowsOf(u, Recip(j), c)
    BY <1>8 DEF RowsOf
  <2>5. ASSUME NEW x \in {r, s}
        PROVE /\ Cardinality(RowsOf(c, j, u) \union {x}) = Cardinality(RowsOf(c, j, u)) + 1
              /\ Cardinality(RowsOf(u, Recip(j), c) \union {x}) = Cardinality(RowsOf(u, Recip(j), c)) + 1
    <3>1. Cardinality(RowsOf(c, j, u) \union {x}) = Cardinality(RowsOf(c, j, u)) + 1
      BY <2>3, <2>4, FS_AddElement
    <3>2. Cardinality(RowsOf(u, Recip(j), c) \union {x}) = Cardinality(RowsOf(u, Recip(j), c)) + 1
      BY <2>3, <2>4, FS_AddElement
    <3> QED
      BY <3>1, <3>2
  <2>6. CASE c = b /\ j = k /\ u = t
    <3>1. RowsOf(c, j, u)' = RowsOf(c, j, u) \union {r}
      BY <1>4, <1>7, <2>1, <2>6 DEF OwnMirror
    <3>2. RowsOf(u, Recip(j), c)' = RowsOf(u, Recip(j), c) \union {s}
      BY <1>4, <1>7, <2>1, <2>6 DEF OwnMirror
    <3> QED
      BY <3>1, <3>2, <2>2, <2>5
  <2>7. CASE c = t /\ j = Recip(k) /\ u = b
    <3>1. RowsOf(c, j, u)' = RowsOf(c, j, u) \union {s}
      BY <1>4, <1>7, <2>1, <2>7, RecipIsInvolution DEF OwnMirror
    <3>2. RowsOf(u, Recip(j), c)' = RowsOf(u, Recip(j), c) \union {r}
      BY <1>4, <1>7, <2>1, <2>7, RecipIsInvolution DEF OwnMirror
    <3> QED
      BY <3>1, <3>2, <2>2, <2>5
  <2>8. CASE ~(c = b /\ j = k /\ u = t) /\ ~(c = t /\ j = Recip(k) /\ u = b)
    <3>1. RowsOf(c, j, u)' = RowsOf(c, j, u)
      BY <1>4, <1>7, <2>8
    <3>2. ~(u = b /\ Recip(j) = k /\ c = t) /\ ~(u = t /\ Recip(j) = Recip(k) /\ c = b)
      BY <2>8, RecipIsInvolution
    <3>3. RowsOf(u, Recip(j), c)' = RowsOf(u, Recip(j), c)
      BY <1>4, <1>7, <3>2
    <3> QED
      BY <3>1, <3>3, <2>2
  <2> QED
    BY <2>6, <2>7, <2>8
<1>15. OneServed' /\ TakesPair'
  BY <1>3, <1>13 DEF OneServed, TakesPair
<1> QED
  BY <1>6, <1>10, <1>11, <1>12, <1>14, <1>15 DEF LinksInd

\* When one deletion lets go of its rows, none holds more than two.
LEMMA StillFew ==
  ASSUME LinksInd, NEW w \in Workers, req'[w] = {},
         \A v \in Workers : v # w => req'[v] = req[v]
  PROVE \A v \in Workers : L!Cardinality(req'[v]) <= 2
<1> SUFFICES ASSUME NEW v \in Workers PROVE L!Cardinality(req'[v]) <= 2
  OBVIOUS
<1>1. CASE v = w
  <2>1. L!Cardinality({}) = 0 /\ req'[v] = {}
    BY <1>1, SameSizeOfLinks, FS_EmptySet
  <2>2. L!Cardinality(req'[v]) = 0
    BY <2>1
  <2> QED
    BY <2>2
<1>2. CASE v # w
  <2>1. L!Cardinality(req[v]) <= 2 /\ req'[v] = req[v]
    BY <1>2 DEF LinksInd, LinksTyped, L!TypeOK
  <2> QED
    BY <2>1
<1> QED
  BY <1>1, <1>2

\* A link of a kind and its mirror are in the rows of a triple and of its mirror.
LEMMA MirrorRows ==
  ASSUME LinksInd, NEW l \in links, NEW m \in links, Mirrors(l, m),
         NEW b \in bugs, NEW t \in bugs, NEW k \in L!Kinds
  PROVE /\ l \in RowsOf(b, k, t) <=> m \in RowsOf(t, Recip(k), b)
        /\ m \in RowsOf(b, k, t) <=> l \in RowsOf(t, Recip(k), b)
<1>1. l.kind \in L!Kinds /\ m.kind \in L!Kinds
  BY DEF LinksInd, LinksTyped, L!TypeOK
<1>2. m.bug = l.target /\ m.target = l.bug /\ m.kind = Recip(l.kind)
  BY DEF Mirrors
<1>3. (l.kind = k <=> m.kind = Recip(k)) /\ (m.kind = k <=> l.kind = Recip(k))
  BY <1>1, <1>2, RecipIsInvolution
<1> QED
  BY <1>2, <1>3 DEF RowsOf

\* delete_bug_link picks a row, and its mirror if it finds one.
LEMMA DeletionBegins ==
  ASSUME LinksInd, NEW w \in Workers, NEW l \in links, L!BeginDeleteLink(w, l)
  PROVE LinksInd'
<1>1. /\ serial => \A v \in Workers : req[v] = {}
      /\ UNCHANGED <<serial, bugs, links, made, twice>>
  BY DEF L!BeginDeleteLink, L!MayServe
<1>2. \A r : r \in L!Reciprocals(l) <=> r \in links /\ Mirrors(l, r)
  BY DEF L!Reciprocals, Mirrors, Recip
<1>3. \E m \in links : /\ req' = [req EXCEPT ![w] = {l.id, m.id}]
                       /\ \/ Mirrors(l, m)
                          \/ m = l /\ \A r \in links : ~Mirrors(l, r)
  <2>1. CASE L!Reciprocals(l) = {} /\ req' = [req EXCEPT ![w] = {l.id}]
    <3>1. {l.id} = {l.id, l.id}
      OBVIOUS
    <3> QED
      BY <1>2, <2>1, <3>1
  <2>2. CASE \E r \in L!Reciprocals(l) : req' = [req EXCEPT ![w] = {l.id, r.id}]
    BY <1>2, <2>2
  <2> QED
    BY <2>1, <2>2 DEF L!BeginDeleteLink
<1>4. PICK m \in links : /\ req' = [req EXCEPT ![w] = {l.id, m.id}]
                         /\ \/ Mirrors(l, m)
                            \/ m = l /\ \A r \in links : ~Mirrors(l, r)
  BY <1>3
<1>5. PICK ids : ids = {l.id, m.id}
  OBVIOUS
<1>6. req' = [req EXCEPT ![w] = ids] /\ req \in [Workers -> SUBSET (1 .. made)]
  BY <1>4, <1>5 DEF LinksInd, LinksTyped
<1>7. req'[w] = ids /\ \A v \in Workers : v # w => req'[v] = req[v]
  BY <1>6
<1>8. ids \in SUBSET (1 .. made)
  <2>1. \A r \in links : r.id \in 1 .. made
    <3>1. \A r \in links : r.id \in 1 .. MaxLinks /\ r.id <= made
      BY DEF LinksInd, LinksTyped, L!TypeOK
    <3>2. made \in Nat
      BY TrackerConstants DEF LinksInd, LinksTyped, L!TypeOK
    <3> QED
      BY <3>1, <3>2, TrackerConstants
  <2> QED
    BY <1>5, <2>1
<1>9. LinksTyped'
  <2>1. Cardinality(ids) <= 2
    <3>1. ids = {l.id} \union {m.id}
      BY <1>5
    <3>2. IsFiniteSet({l.id}) /\ Cardinality({l.id}) = 1
      BY FS_Singleton
    <3>3. Cardinality({l.id} \union {m.id})
            = IF m.id \in {l.id} THEN Cardinality({l.id}) ELSE Cardinality({l.id}) + 1
      BY <3>2, FS_AddElement
    <3> QED
      BY <3>1, <3>2, <3>3
  <2>2. \A v \in Workers : L!Cardinality(req'[v]) <= 2
    BY <1>7, <2>1, SameSizeOfLinks DEF LinksInd, LinksTyped, L!TypeOK
  <2>3. L!TypeOK'
    BY <1>1, <2>2 DEF LinksInd, LinksTyped, L!TypeOK
  <2>4. req' \in [Workers -> SUBSET (1 .. made)]
    BY <1>6, <1>8
  <2> QED
    BY <1>1, <2>3, <2>4 DEF LinksInd, LinksTyped
<1>10. OneServed'
  BY <1>1, <1>7 DEF OneServed
<1>11. OneRowEach' /\ EachMirrored' /\ CountsAgree'
  BY <1>1 DEF LinksInd, OneRowEach, EachMirrored, CountsAgree, RowsOf, OwnMirror
<1>12. TakesBoth'
  <2>1. SUFFICES ASSUME ~twice, NEW v \in Workers, NEW x \in links, NEW y \in links,
                        x.id \in req'[v], Mirrors(x, y), ~OwnMirror(x.bug, x.kind, x.target)
                 PROVE y.id \in req'[v]
    BY <1>1 DEF TakesBoth, Mirrors, OwnMirror
  <2>2. CASE v # w
    BY <1>7, <2>1, <2>2 DEF LinksInd, TakesBoth
  <2>3. CASE v = w
    <3>1. x = l \/ x = m
      BY <1>5, <1>7, <2>1, <2>3 DEF LinksInd, LinksTyped
    <3>2. Mirrors(l, m)
      BY <1>4, <2>1, <3>1
    <3>3. l.kind \in L!Kinds /\ {l.bug, m.bug} \subseteq bugs /\ x.kind \in L!Kinds /\ y.kind \in L!Kinds
            /\ {x.bug, y.bug} \subseteq bugs
      BY DEF LinksInd, LinksTyped, L!TypeOK
    <3>4. y.bug = x.target /\ y.target = x.bug /\ y.kind = Recip(x.kind)
            /\ m.bug = l.target /\ m.target = l.bug /\ m.kind = Recip(l.kind)
      BY <2>1, <3>2 DEF Mirrors
    <3>5. y \in RowsOf(y.bug, y.kind, y.target) /\ ~OwnMirror(y.bug, y.kind, y.target)
      BY <2>1, <3>3, <3>4, RecipIsInvolution DEF RowsOf, OwnMirror
    <3>6. y.bug \in bugs /\ y.target \in bugs /\ y.kind \in L!Kinds
      BY <3>3, <3>4
    <3>7. \A z \in RowsOf(y.bug, y.kind, y.target) : z = y
      BY <2>1, <3>5, <3>6 DEF LinksInd, OneRowEach
    <3>8. CASE x = l
      <4>1. m \in RowsOf(y.bug, y.kind, y.target)
        BY <3>4, <3>8 DEF RowsOf
      <4> QED
        BY <3>7, <4>1, <1>5, <1>7, <2>3
    <3>9. CASE x = m
      <4>1. l \in RowsOf(y.bug, y.kind, y.target)
        BY <3>3, <3>4, <3>9, RecipIsInvolution DEF RowsOf
      <4> QED
        BY <3>7, <4>1, <1>5, <1>7, <2>3
    <3> QED
      BY <3>1, <3>8, <3>9
  <2> QED
    BY <2>2, <2>3
<1>13. TakesPair'
  <2>1. SUFFICES ASSUME serial
                 PROVE Mirrors(l, m) \/ (l = m /\ l.target = NoTarget)
    <3>1. \A v \in Workers : serial /\ req'[v] # {} => v = w
      BY <1>1, <1>7
    <3>2. serial => req'[w] = {l.id, m.id} /\ (Mirrors(l, m) \/ (l = m /\ l.target = NoTarget))
      BY <1>5, <1>7, <2>1
    <3>3. (Mirrors(l, m) <=> Mirrors(l, m)')
      BY DEF Mirrors
    <3> QED
      BY <1>1, <3>1, <3>2, <3>3 DEF TakesPair, Mirrors
  <2>2. SUFFICES ASSUME m = l, \A r \in links : ~Mirrors(l, r), l.target # NoTarget
                 PROVE FALSE
    BY <1>4
  <2>3. l.bug \in bugs /\ l.target \in bugs /\ l.kind \in L!Kinds
    BY <2>2 DEF LinksInd, LinksTyped, L!TypeOK
  <2>4. Cardinality(RowsOf(l.bug, l.kind, l.target)) = Cardinality(RowsOf(l.target, Recip(l.kind), l.bug))
    BY <2>1, <2>3 DEF LinksInd, CountsAgree
  <2>5. IsFiniteSet(RowsOf(l.bug, l.kind, l.target)) /\ IsFiniteSet(RowsOf(l.target, Recip(l.kind), l.bug))
    BY LinksFinite DEF LinksInd
  <2>6. l \in RowsOf(l.bug, l.kind, l.target)
    BY DEF RowsOf
  <2>7. RowsOf(l.target, Recip(l.kind), l.bug) # {}
    BY <2>4, <2>5, <2>6, FS_EmptySet
  <2>8. \A r \in RowsOf(l.target, Recip(l.kind), l.bug) : r \in links /\ Mirrors(l, r)
    BY DEF RowsOf, Mirrors
  <2> QED
    BY <2>2, <2>7, <2>8
<1> QED
  BY <1>9, <1>10, <1>11, <1>12, <1>13 DEF LinksInd

\* A step that takes rows away with their ids, and what others hold stays as it is.
LEMMA DeletionCommitted ==
  ASSUME LinksInd, NEW w \in Workers, L!CommitDeleteLink(w)
  PROVE LinksInd'
<1>1. /\ links' = {l \in links : l.id \notin req[w]}
      /\ req' = [req EXCEPT ![w] = {}] /\ req[w] # {}
      /\ UNCHANGED <<serial, bugs, made, twice>>
  BY DEF L!CommitDeleteLink
<1>2. req'[w] = {} /\ \A v \in Workers : v # w => req'[v] = req[v]
  BY <1>1 DEF LinksInd, LinksTyped
<1>3. \A b, k, t : RowsOf(b, k, t)' = {l \in RowsOf(b, k, t) : l.id \notin req[w]}
  BY <1>1 DEF RowsOf
<1>4. LinksTyped'
  <2>1. \A v \in Workers : L!Cardinality(req'[v]) <= 2
    BY <1>2, StillFew
  <2>2. L!TypeOK'
    BY <1>1, <2>1 DEF LinksInd, LinksTyped, L!TypeOK
  <2>3. req' \in [Workers -> SUBSET (1 .. made)]
    <3>1. {} \in SUBSET (1 .. made)
      OBVIOUS
    <3> QED
      BY <1>1, <3>1 DEF LinksInd, LinksTyped
  <2> QED
    BY <1>1, <2>2, <2>3 DEF LinksInd, LinksTyped
<1>5. OneServed' /\ OneRowEach'
  BY <1>1, <1>2, <1>3 DEF LinksInd, OneServed, OneRowEach, OwnMirror
<1>6. EachMirrored'
  <2>1. SUFFICES ASSUME ~twice, NEW b \in bugs, NEW t \in bugs, NEW k \in L!Kinds,
                        NEW l \in RowsOf(b, k, t), l.id \notin req[w]
                 PROVE \E m \in RowsOf(t, Recip(k), b) : m.id \notin req[w]
    BY <1>1, <1>3 DEF EachMirrored
  <2>2. CASE OwnMirror(b, k, t)
    BY <2>1, <2>2 DEF OwnMirror
  <2>3. CASE ~OwnMirror(b, k, t)
    <3>1. PICK m : m \in RowsOf(t, Recip(k), b)
      BY <2>1 DEF LinksInd, EachMirrored
    <3>2. m \in links /\ l \in links /\ Mirrors(m, l) /\ ~OwnMirror(m.bug, m.kind, m.target)
      BY <2>1, <2>3, <3>1, RecipIsInvolution DEF RowsOf, Mirrors, OwnMirror
    <3>3. m.id \notin req[w]
      BY <2>1, <3>2 DEF LinksInd, TakesBoth
    <3> QED
      BY <3>1, <3>3
  <2> QED
    BY <2>2, <2>3
<1>7. TakesBoth'
  BY <1>1, <1>2 DEF LinksInd, TakesBoth, Mirrors, OwnMirror
<1>8. TakesPair'
  <2>1. \A v \in Workers : serial => req'[v] = {}
    BY <1>1, <1>2 DEF LinksInd, OneServed
  <2> QED
    BY <1>1, <2>1 DEF TakesPair
<1>9. CountsAgree'
  <2>1. SUFFICES ASSUME serial, NEW b \in bugs, NEW t \in bugs, NEW k \in L!Kinds, ~OwnMirror(b, k, t)
                 PROVE Cardinality(RowsOf(b, k, t)') = Cardinality(RowsOf(t, Recip(k), b)')
    BY <1>1 DEF CountsAgree, OwnMirror
  <2>2. PICK l \in links, m \in links :
          req[w] = {l.id, m.id} /\ (Mirrors(l, m) \/ (l = m /\ l.target = NoTarget))
    BY <1>1, <2>1 DEF LinksInd, TakesPair
  <2>3. \A x \in links : x.id \in req[w] <=> x = l \/ x = m
    BY <2>2 DEF LinksInd, LinksTyped
  <2>4. \A x : x \in RowsOf(b, k, t) => x \in links /\ x \notin RowsOf(t, Recip(k), b)
    BY <2>1 DEF RowsOf, OwnMirror
  <2>40. \A x : x \in RowsOf(t, Recip(k), b) => x \in links
    BY DEF RowsOf
  <2>5. RowsOf(b, k, t)' = RowsOf(b, k, t) \ {l, m}
          /\ RowsOf(t, Recip(k), b)' = RowsOf(t, Recip(k), b) \ {l, m}
    BY <1>3, <2>3, <2>4, <2>40
  <2>6. Cardinality(RowsOf(b, k, t)) = Cardinality(RowsOf(t, Recip(k), b))
    BY <2>1 DEF LinksInd, CountsAgree
  <2>7. IsFiniteSet(RowsOf(b, k, t)) /\ IsFiniteSet(RowsOf(t, Recip(k), b))
    BY LinksFinite DEF LinksInd
  <2>8. ASSUME l.target = NoTarget, l = m
        PROVE l \notin RowsOf(b, k, t) /\ l \notin RowsOf(t, Recip(k), b)
    BY <2>8, TrackerConstants DEF RowsOf, LinksInd, LinksTyped, L!TypeOK
  <2>9. CASE l.target = NoTarget /\ l = m
    <3>1. RowsOf(b, k, t)' = RowsOf(b, k, t) /\ RowsOf(t, Recip(k), b)' = RowsOf(t, Recip(k), b)
      BY <2>5, <2>8, <2>9
    <3> QED
      BY <2>6, <3>1
  <2>10. CASE Mirrors(l, m)
    <3>1. /\ l \in RowsOf(b, k, t) <=> m \in RowsOf(t, Recip(k), b)
          /\ m \in RowsOf(b, k, t) <=> l \in RowsOf(t, Recip(k), b)
      BY <2>10, MirrorRows
    <3>2. ASSUME NEW x, NEW y, x \in RowsOf(b, k, t), y \in RowsOf(t, Recip(k), b), {x, y} = {l, m}
          PROVE Cardinality(RowsOf(b, k, t)') = Cardinality(RowsOf(t, Recip(k), b)')
      <4>1. RowsOf(b, k, t)' = RowsOf(b, k, t) \ {x} /\ RowsOf(t, Recip(k), b)' = RowsOf(t, Recip(k), b) \ {y}
        BY <2>4, <2>5, <3>2
      <4>2. Cardinality(RowsOf(b, k, t) \ {x}) = Cardinality(RowsOf(b, k, t)) - 1
        BY <2>7, <3>2, FS_RemoveElement
      <4>3. Cardinality(RowsOf(t, Recip(k), b) \ {y}) = Cardinality(RowsOf(t, Recip(k), b)) - 1
        BY <2>7, <3>2, FS_RemoveElement
      <4> QED
        BY <2>6, <4>1, <4>2, <4>3
    <3>3. CASE l \in RowsOf(b, k, t)
      BY <3>1, <3>2, <3>3
    <3>4. CASE m \in RowsOf(b, k, t)
      BY <3>1, <3>2, <3>4
    <3>5. CASE l \notin RowsOf(b, k, t) /\ m \notin RowsOf(b, k, t)
      <4>1. RowsOf(b, k, t)' = RowsOf(b, k, t) /\ RowsOf(t, Recip(k), b)' = RowsOf(t, Recip(k), b)
        BY <2>5, <3>1, <3>5
      <4> QED
        BY <2>6, <4>1
    <3> QED
      BY <3>3, <3>4, <3>5
  <2> QED
    BY <2>2, <2>9, <2>10
<1> QED
  BY <1>4, <1>5, <1>6, <1>7, <1>8, <1>9 DEF LinksInd

\* A bug is deleted: rows of it go, rows that name it lose their target.
LEMMA LinkedBugDeleted ==
  ASSUME LinksInd, NEW w \in Workers, NEW b \in LinkedBugs, L!DeleteBug(w, b)
  PROVE LinksInd'
<1>1. /\ bugs' = bugs \ {b} /\ links' = L!Unlinked(b) /\ b \in bugs
      /\ UNCHANGED <<serial, made, req, twice>>
      /\ serial => \A v \in Workers : req[v] = {}
  BY DEF L!DeleteBug, L!MayServe
<1>2. \A x \in links' : \E l \in links : /\ l.bug # b /\ x.id = l.id /\ x.bug = l.bug /\ x.kind = l.kind
                                         /\ \/ l.target = b /\ x.target = NoTarget
                                            \/ l.target # b /\ x = l
  BY <1>1 DEF L!Unlinked, L!Row
<1>3. \A l \in links : l.bug # b /\ l.target # b => l \in links'
  BY <1>1 DEF L!Unlinked, L!Row
<1>4. NoTarget \notin bugs
  BY TrackerConstants DEF LinksInd, LinksTyped, L!TypeOK
<1>5. \A c, u \in bugs' : \A k : RowsOf(c, k, u)' = RowsOf(c, k, u)
  BY <1>1, <1>2, <1>3, <1>4 DEF RowsOf
<1>6. links' \subseteq [id : 1 .. MaxLinks, bug : bugs', kind : L!Kinds, target : bugs' \union {NoTarget}]
  <2>1. SUFFICES ASSUME NEW l \in links, l.bug # b
                 PROVE (IF l.target = b THEN L!Row(l.id, l.bug, l.kind, NoTarget) ELSE l)
                         \in [id : 1 .. MaxLinks, bug : bugs', kind : L!Kinds, target : bugs' \union {NoTarget}]
    BY <1>1 DEF L!Unlinked
  <2>2. l \in [id : 1 .. MaxLinks, bug : bugs, kind : L!Kinds, target : bugs \union {NoTarget}]
    BY DEF LinksInd, LinksTyped, L!TypeOK
  <2>3. CASE l.target = b
    BY <1>1, <2>1, <2>2, <2>3 DEF L!Row
  <2>4. CASE l.target # b
    BY <1>1, <2>1, <2>2, <2>4
  <2> QED
    BY <2>3, <2>4
<1>7. LinksTyped'
  <2>1. L!TypeOK'
    BY <1>1, <1>6 DEF LinksInd, LinksTyped, L!TypeOK
  <2>2. \A x \in links' : x.id <= made
    BY <1>2 DEF LinksInd, LinksTyped
  <2>3. \A x, y \in links' : x.id = y.id => x = y
    <3>1. SUFFICES ASSUME NEW l \in links, NEW m \in links, l.bug # b, m.bug # b,
                     (IF l.target = b THEN L!Row(l.id, l.bug, l.kind, NoTarget) ELSE l).id
                       = (IF m.target = b THEN L!Row(m.id, m.bug, m.kind, NoTarget) ELSE m).id
                   PROVE l = m
      BY <1>1 DEF L!Unlinked
    <3>2. l.id = m.id
      BY <3>1 DEF L!Row
    <3> QED
      BY <3>2 DEF LinksInd, LinksTyped
  <2> QED
    BY <1>1, <2>1, <2>2, <2>3 DEF LinksInd, LinksTyped
<1>8. OneServed' /\ OneRowEach' /\ EachMirrored'
  BY <1>1, <1>5 DEF LinksInd, OneServed, OneRowEach, EachMirrored, OwnMirror
<1>9. TakesBoth'
  <2>1. SUFFICES ASSUME ~twice, NEW v \in Workers, NEW x \in links', NEW y \in links',
                        x.id \in req[v], Mirrors(x, y), ~OwnMirror(x.bug, x.kind, x.target)
                 PROVE y.id \in req[v]
    BY <1>1 DEF TakesBoth, Mirrors, OwnMirror
  <2>2. x.bug \in bugs' /\ y.bug \in bugs' /\ x.target = y.bug /\ y.target = x.bug
    BY <1>6, <2>1 DEF Mirrors
  <2>3. x \in links /\ y \in links
    BY <1>1, <1>2, <1>4, <2>2
  <2> QED
    BY <2>1, <2>3 DEF LinksInd, TakesBoth
<1>10. CountsAgree'
  <2>1. SUFFICES ASSUME serial, NEW c \in bugs', NEW u \in bugs', NEW k \in L!Kinds
                 PROVE Cardinality(RowsOf(c, k, u)') = Cardinality(RowsOf(u, Recip(k), c)')
    BY <1>1 DEF CountsAgree
  <2>2. Cardinality(RowsOf(c, k, u)) = Cardinality(RowsOf(u, Recip(k), c))
    BY <1>1, <2>1 DEF LinksInd, CountsAgree
  <2> QED
    BY <1>5, <2>2
<1>11. TakesPair'
  BY <1>1 DEF TakesPair
<1> QED
  BY <1>7, <1>8, <1>9, <1>10, <1>11 DEF LinksInd

\* A worker dies, and the rows it picked stay.
LEMMA DeletionDies ==
  ASSUME LinksInd, NEW w \in Workers, L!Die(w)
  PROVE LinksInd'
<1>1. req' = [req EXCEPT ![w] = {}] /\ UNCHANGED <<serial, bugs, links, made, twice>>
  BY DEF L!Die
<1>2. req'[w] = {} /\ \A v \in Workers : v # w => req'[v] = req[v]
  BY <1>1 DEF LinksInd, LinksTyped
<1>3. LinksTyped'
  <2>1. \A v \in Workers : L!Cardinality(req'[v]) <= 2
    BY <1>2, StillFew
  <2>2. L!TypeOK'
    BY <1>1, <2>1 DEF LinksInd, LinksTyped, L!TypeOK
  <2>3. req' \in [Workers -> SUBSET (1 .. made)]
    <3>1. {} \in SUBSET (1 .. made)
      OBVIOUS
    <3> QED
      BY <1>1, <3>1 DEF LinksInd, LinksTyped
  <2> QED
    BY <1>1, <2>2, <2>3 DEF LinksInd, LinksTyped
<1>4. OneServed' /\ TakesBoth' /\ TakesPair'
  BY <1>1, <1>2 DEF LinksInd, OneServed, TakesBoth, TakesPair, Mirrors, OwnMirror
<1>5. OneRowEach' /\ EachMirrored' /\ CountsAgree'
  BY <1>1 DEF LinksInd, OneRowEach, EachMirrored, CountsAgree, RowsOf, OwnMirror
<1> QED
  BY <1>3, <1>4, <1>5 DEF LinksInd

\* Every step of the machine keeps it.
LEMMA LinksNext == LinksInd /\ L!Next => LinksInd'
  BY LinkAdded, DeletionBegins, DeletionCommitted, LinkedBugDeleted, DeletionDies DEF L!Next

\* So does every step of the specification.
LEMMA LinksStep == LinksInd /\ [Next]_vars => LinksInd'
<1>1. LinksInd /\ LinkStep => LinksInd'
  BY LinksNext DEF LinkStep
<1>2. LinksInd /\ (BugStep \/ ReportStep \/ SchemaStep \/ TicketStep \/ NotificationStep \/ UNCHANGED vars) => LinksInd'
  BY LinksStill DEF BugStep, ReportStep, SchemaStep, TicketStep, NotificationStep, trackerVars, vars
<1> QED
  BY <1>1, <1>2 DEF Next

\* So it holds in every state.
LEMMA LinksAlways == Spec => []LinksInd
<1>1. Init => LinksInd
  BY LinksInit DEF Init
<1> QED
  BY <1>1, LinksStep, PTL DEF Spec, vars

\* It is what LinksAgree needs.
LEMMA LinksIndHolds == LinksInd => L!LinksAgree
<1> SUFFICES ASSUME LinksInd PROVE L!LinksAgree
  OBVIOUS
<1>1. ASSUME serial \/ ~twice, NEW b \in bugs, NEW t \in bugs, NEW k \in L!Kinds
      PROVE Cardinality(RowsOf(b, k, t)) = Cardinality(RowsOf(t, Recip(k), b))
  <2>1. CASE serial
    BY <1>1, <2>1 DEF LinksInd, CountsAgree
  <2>2. CASE OwnMirror(b, k, t)
    BY <2>2 DEF OwnMirror
  <2>3. CASE ~twice /\ ~OwnMirror(b, k, t)
    <3>1. Recip(k) \in L!Kinds /\ Recip(Recip(k)) = k /\ ~OwnMirror(t, Recip(k), b)
      BY <2>3, RecipIsInvolution DEF OwnMirror
    <3>2. RowsOf(b, k, t) # {} <=> RowsOf(t, Recip(k), b) # {}
      BY <2>3, <3>1 DEF LinksInd, EachMirrored
    <3>3. /\ \A l, m \in RowsOf(b, k, t) : l = m
          /\ \A l, m \in RowsOf(t, Recip(k), b) : l = m
      BY <2>3, <3>1 DEF LinksInd, OneRowEach
    <3>4. CASE RowsOf(b, k, t) = {}
      BY <3>2, <3>4
    <3>5. CASE RowsOf(b, k, t) # {}
      <4>1. PICK l, m : l \in RowsOf(b, k, t) /\ m \in RowsOf(t, Recip(k), b)
        BY <3>2, <3>5
      <4>2. RowsOf(b, k, t) = {l} /\ RowsOf(t, Recip(k), b) = {m}
        BY <3>3, <4>1
      <4> QED
        BY <4>2, FS_Singleton
    <3> QED
      BY <3>4, <3>5
  <2> QED
    BY <1>1, <2>1, <2>2, <2>3
<1>2. \A b, k, t : L!Count(b, k, t) = Cardinality(RowsOf(b, k, t))
  BY SameSizeOfLinks DEF L!Count, RowsOf
<1>3. L!LinksReciprocal
  BY <1>1, <1>2 DEF L!LinksReciprocal, Recip
<1> QED
  BY <1>3 DEF LinksInd, LinksTyped, L!LinksAgree

\* Every link between two bugs has its mirror, as often, and every ticket made elsewhere its
\* local link.
THEOREM LinksAndTicketsAgree == Spec => []LinksAgree
<1>1. LinksInd /\ TicketsInd => LinksAgree
  BY LinksIndHolds, TicketsIndHolds DEF LinksAgree
<1> QED
  BY <1>1, LinksAlways, TicketsAlways, PTL

-----------------------------------------------------------------------------
(* Notifications. *)
RowRecords ==
  [user : Users, event : N!NotificationEvent, window : 0 .. MaxWindows, by : Users,
   request : 1 .. MaxRequests]
HandlerOps == {"none", "mention", "edit", "recipients", "watch", "watch assignee",
               "insert watcher", "assignee", "notify", "answered"}
Handlers ==
  [op : HandlerOps, actor : Users \union {Nobody}, event : N!NotificationEvent,
   todo : SUBSET Users, pending : SUBSET RowRecords, defaults : SUBSET (Users \X N!NotificationEvent),
   mentioned : SUBSET Users, before : Users \union {Nobody}, held : Users \union {Nobody},
   owed : SUBSET Users, no : 0 .. MaxRequests]

Telling == {"mention", "edit", "notify"}
Told(u, e) == \E r \in rows : r.window = window /\ r.user = u /\ r.event = e
ToldSoon(c, u, e) == \E p \in c.pending : p.user = u /\ p.event = e
MentionDone(u) == N!Mutes(u, "mention_in_comment") \/ Told(u, "mention_in_comment")
Target(c) == IF c.event = "mention_in_comment" THEN "bug_commented" ELSE c.event

\* What a handler in its hands holds, at any point of its way.
HandIsKnown(c) == c.op # "none" => c.actor \in Users /\ c.no \in 1 .. MaxRequests

HandIsEmpty(c) == c.op \notin Telling => c.pending = {} /\ c.defaults = {}

HandSparesActor(c) ==
  /\ c.op \in Telling => c.actor \notin c.todo
  /\ \A p \in c.pending : p.window = window /\ p.user # p.by

HandTellsOnce(c) ==
  /\ \A p, q \in c.pending : p.user = q.user /\ p.event = q.event => p = q
  /\ \A d \in c.defaults : ~N!Known(d[1], d[2])

HandHasEvent(c) ==
  /\ c.op \in {"mention", "edit"} => c.event = "mention_in_comment"
  /\ c.op = "notify" => c.event # "mention_in_comment"
  /\ c.op = "answered" /\ c.event = "mention_in_comment" => c.owed = {}
  /\ c.op = "edit" \/ c.event = "bug_assigned" => c.owed = {}
  /\ c.op \in {"assignee", "watch assignee"} => c.event = "bug_assigned"

HandOwes(c) ==
  /\ \A u \in c.owed : u \in watchers /\ u # c.actor /\ ~N!Mutes(u, Target(c))
  /\ c.op = "mention" => \A u \in c.owed \intersect c.mentioned :
       u \in c.todo \/ MentionDone(u) \/ ToldSoon(c, u, "mention_in_comment")
  /\ c.op \notin {"none", "mention"} => \A u \in c.owed \intersect c.mentioned : MentionDone(u)
  /\ c.op = "notify" => \A u \in c.owed :
       u \in c.todo \/ u \in c.mentioned \/ Told(u, c.event) \/ ToldSoon(c, u, c.event)
  /\ c.op = "answered" => \A u \in c.owed : u \in c.mentioned \/ Told(u, c.event)

HandOK(c) ==
  /\ HandIsKnown(c) /\ HandIsEmpty(c) /\ HandSparesActor(c) /\ HandTellsOnce(c)
  /\ HandHasEvent(c) /\ HandOwes(c)

\* Two rows, or rows to be, about one event are one, or were raced for.
OneOrRaced(p, q) ==
  p.user = q.user /\ p.event = q.event /\ p.window = q.window /\ p # q => <<p.user, p.event>> \in raced

Apart(c, d) ==
  /\ c.defaults \intersect d.defaults = {}
  /\ \A p \in c.pending, q \in d.pending :
       p.user = q.user /\ p.event = q.event => <<p.user, p.event>> \in raced

NotesTyped ==
  /\ N!TypeOK
  /\ telling \in [Workers -> Handlers]
  /\ requests \in 0 .. MaxRequests /\ window \in 0 .. MaxWindows

Hands == \A w \in Workers : HandOK(telling[w])
HandsApart == \A v, w \in Workers : v # w => Apart(telling[v], telling[w])
HandsAndRows == \A w \in Workers : \A p \in telling[w].pending, r \in rows : OneOrRaced(p, r)

NotesInd == NotesTyped /\ Hands /\ HandsApart /\ HandsAndRows /\ N!ToldOnce /\ N!ActorsSpared


\* A worker without a request holds nothing that could be wrong.
LEMMA IdleHands ==
  /\ N!Idle \in Handlers /\ N!Idle.op = "none" /\ N!Idle.pending = {} /\ N!Idle.defaults = {}
  /\ N!Idle.todo = {} /\ N!Idle.owed = {} /\ HandOK(N!Idle) /\ HandOK(N!Idle)'
<1>1. N!Idle \in Handlers /\ N!Idle.op = "none" /\ N!Idle.pending = {} /\ N!Idle.defaults = {}
        /\ N!Idle.todo = {} /\ N!Idle.owed = {} /\ N!Idle.event = "bug_commented"
  BY TrackerConstants DEF N!Idle, Handlers, HandlerOps, N!NotificationEvent
<1>2. HandOK(N!Idle)
  BY <1>1 DEF HandOK, HandIsKnown, HandIsEmpty, HandSparesActor, HandTellsOnce, HandHasEvent, HandOwes,
    Telling
<1>3. HandOK(N!Idle)'
  BY <1>1 DEF HandOK, HandIsKnown, HandIsEmpty, HandSparesActor, HandTellsOnce, HandHasEvent, HandOwes,
    Telling
<1> QED
  BY <1>1, <1>2, <1>3

\* A handler that is left alone keeps what it holds while rows are added around it.
LEMMA HandStays ==
  ASSUME NEW c \in Handlers, HandOK(c), rows \subseteq rows', window' = window,
         watchers \subseteq watchers',
         \A u \in Users, e \in N!NotificationEvent : N!Mutes(u, e)' <=> N!Mutes(u, e),
         \A d \in c.defaults : ~N!Known(d[1], d[2])'
  PROVE HandOK(c)'
<1>1. \A u, e : Told(u, e) => Told(u, e)'
  BY DEF Told
<1>2. c.owed \subseteq Users /\ c.mentioned \subseteq Users /\ Target(c) \in N!NotificationEvent
  BY DEF Handlers, Target, N!NotificationEvent
<1>3. \A u \in Users : MentionDone(u) => MentionDone(u)'
  BY <1>1 DEF MentionDone, N!NotificationEvent
<1>4. HandOwes(c)'
  <2>1. \A u \in c.owed : u \in watchers' /\ u # c.actor /\ ~N!Mutes(u, Target(c))'
    BY <1>2 DEF HandOK, HandOwes
  <2>2. c.op = "mention" => \A u \in c.owed \intersect c.mentioned :
          u \in c.todo \/ MentionDone(u)' \/ ToldSoon(c, u, "mention_in_comment")
    BY <1>2, <1>3 DEF HandOK, HandOwes
  <2>3. c.op \notin {"none", "mention"} => \A u \in c.owed \intersect c.mentioned : MentionDone(u)'
    BY <1>2, <1>3 DEF HandOK, HandOwes
  <2>4. c.op = "notify" => \A u \in c.owed :
          u \in c.todo \/ u \in c.mentioned \/ Told(u, c.event)' \/ ToldSoon(c, u, c.event)
    BY <1>1 DEF HandOK, HandOwes
  <2>5. c.op = "answered" => \A u \in c.owed : u \in c.mentioned \/ Told(u, c.event)'
    BY <1>1 DEF HandOK, HandOwes
  <2> QED
    BY <2>1, <2>2, <2>3, <2>4, <2>5 DEF HandOwes, Target, ToldSoon
<1>5. HandIsKnown(c)' /\ HandIsEmpty(c)' /\ HandSparesActor(c)' /\ HandTellsOnce(c)' /\ HandHasEvent(c)'
  BY DEF HandOK, HandIsKnown, HandIsEmpty, HandSparesActor, HandTellsOnce, HandHasEvent
<1> QED
  BY <1>4, <1>5 DEF HandOK

\* What is right of the record of a handler is right of the handler.
LEMMA HandTaken ==
  ASSUME NEW v \in Workers, NEW c, telling'[v] = c, HandOK(c)'
  PROVE HandOK(telling[v])'
<1>1. HandIsKnown(telling[v])' /\ HandIsEmpty(telling[v])' /\ HandSparesActor(telling[v])'
  BY DEF HandOK, HandIsKnown, HandIsEmpty, HandSparesActor
<1>2. HandTellsOnce(telling[v])' /\ HandHasEvent(telling[v])'
  BY DEF HandOK, HandTellsOnce, HandHasEvent
<1>3. HandOwes(telling[v])'
  BY DEF HandOK, HandOwes, Target, ToldSoon
<1> QED
  BY <1>1, <1>2, <1>3 DEF HandOK

\* A step of another machine.
LEMMA NotesStill == NotesInd /\ UNCHANGED notificationVars => NotesInd'
<1> SUFFICES ASSUME NotesInd, UNCHANGED notificationVars PROVE NotesInd'
  OBVIOUS
<1>1. UNCHANGED <<watchers, assignee, comment, preference, rows, window, telling, requests, raced>>
  BY DEF notificationVars
<1>2. NotesTyped' /\ N!ToldOnce' /\ N!ActorsSpared' /\ HandsApart' /\ HandsAndRows'
  BY <1>1 DEF NotesInd, NotesTyped, N!TypeOK, N!ToldOnce, N!ActorsSpared, HandsApart, HandsAndRows,
    Apart, OneOrRaced
<1>3. Hands'
  <2>1. SUFFICES ASSUME NEW v \in Workers PROVE HandOK(telling[v])'
    BY DEF Hands
  <2>2. PICK d \in Handlers : d = telling[v]
    BY DEF NotesInd, NotesTyped
  <2>3. HandOK(d) /\ \A x \in d.defaults : ~N!Known(x[1], x[2])
    BY <2>2 DEF NotesInd, Hands, HandOK, HandTellsOnce
  <2>4. HandOK(d)'
    BY <1>1, <2>3, HandStays DEF N!Mutes, N!Known
  <2>5. telling'[v] = d
    BY <1>1, <2>2
  <2> QED
    BY <2>4, <2>5, HandTaken
<1> QED
  BY <1>2, <1>3 DEF NotesInd

\* A handler goes on without a row: whatever it had pending it may drop.
LEMMA HandlerStep ==
  ASSUME NotesInd, NEW w \in Workers, NEW c \in Handlers, telling' = [telling EXCEPT ![w] = c],
         HandOK(c)', UNCHANGED <<preference, rows, window, raced>>,
         watchers \subseteq watchers', watchers' \subseteq Users, assignee' \in Users \union {Nobody},
         requests' \in 0 .. MaxRequests,
         c.pending \subseteq telling[w].pending, c.defaults \subseteq telling[w].defaults
  PROVE NotesInd'
<1>1. telling \in [Workers -> Handlers]
  BY DEF NotesInd, NotesTyped
<1>2. telling'[w] = c /\ \A v \in Workers : v # w => telling'[v] = telling[v]
  BY <1>1
<1>3. telling' \in [Workers -> Handlers]
  BY <1>1
<1>4. NotesTyped'
  <2>1. \A v \in Workers : telling'[v].todo \subseteq Users
    BY <1>3 DEF Handlers
  <2>2. N!TypeOK'
    BY <2>1 DEF NotesInd, NotesTyped, N!TypeOK
  <2> QED
    BY <1>3, <2>2 DEF NotesInd, NotesTyped
<1>5. Hands'
  <2>1. SUFFICES ASSUME NEW v \in Workers PROVE HandOK(telling[v])'
    BY DEF Hands
  <2>2. CASE v = w
    BY <1>2, <2>2, HandTaken
  <2>3. CASE v # w
    <3>1. PICK d \in Handlers : d = telling[v]
      BY <1>1
    <3>2. HandOK(d) /\ \A x \in d.defaults : ~N!Known(x[1], x[2])
      BY <3>1 DEF NotesInd, Hands, HandOK, HandTellsOnce
    <3>3. \A u \in Users, e \in N!NotificationEvent : N!Mutes(u, e)' <=> N!Mutes(u, e)
      BY DEF N!Mutes
    <3>4. \A x \in d.defaults : ~N!Known(x[1], x[2])'
      BY <3>2 DEF N!Known
    <3>5. HandOK(d)'
      BY <3>2, <3>3, <3>4, HandStays
    <3>6. telling'[v] = d
      BY <1>2, <2>3, <3>1
    <3> QED
      BY <3>5, <3>6, HandTaken
  <2> QED
    BY <2>2, <2>3
<1>6. HandsApart'
  BY <1>2 DEF NotesInd, HandsApart, Apart
<1>7. HandsAndRows'
  BY <1>2 DEF NotesInd, HandsAndRows, OneOrRaced
<1>8. N!ToldOnce' /\ N!ActorsSpared'
  BY DEF NotesInd, N!ToldOnce, N!ActorsSpared
<1> QED
  BY <1>4, <1>5, <1>6, <1>7, <1>8 DEF NotesInd

\* A request takes the next number.
LEMMA RequestsServed ==
  ASSUME NotesInd, NEW w \in Workers, NEW r, N!Serve(w, r)
  PROVE /\ requests' \in 0 .. MaxRequests /\ requests + 1 \in 1 .. MaxRequests
        /\ requests + 1 \in 0 .. MaxRequests /\ requests' = requests + 1
        /\ telling' = [telling EXCEPT ![w] = [r EXCEPT !.no = requests + 1]]
  BY TrackerConstants DEF NotesInd, NotesTyped, N!Serve, N!Becomes

\* A comment is added: whom it mentions is told first.
LEMMA CommentAdded ==
  ASSUME NotesInd, NEW w \in Workers, NEW a \in Members, NEW m \in N!Bodies, N!AddComment(w, a, m)
  PROVE NotesInd'
<1>1. PICK r : r = [N!Idle EXCEPT !.op = "mention", !.actor = a, !.event = "mention_in_comment",
                           !.todo = N!Recipients(m, a), !.mentioned = N!Recipients(m, a),
                           !.owed = N!Owed(a, "bug_commented")]
  OBVIOUS
<1>2. N!Serve(w, r) /\ UNCHANGED <<watchers, assignee, preference, rows, window, raced>>
  BY <1>1 DEF N!AddComment
<1>3. PICK c : c = [r EXCEPT !.no = requests + 1]
  OBVIOUS
<1>4. /\ requests' \in 0 .. MaxRequests /\ requests + 1 \in 1 .. MaxRequests
      /\ requests + 1 \in 0 .. MaxRequests /\ telling' = [telling EXCEPT ![w] = c]
  BY <1>2, <1>3, RequestsServed
<1>5. N!Recipients(m, a) \subseteq Users /\ a \notin N!Recipients(m, a) /\ a \in Users
        /\ N!Owed(a, "bug_commented") \subseteq Users
        /\ \A u \in N!Owed(a, "bug_commented") : u \in watchers /\ u # a /\ ~N!Mutes(u, "bug_commented")
  BY TrackerConstants DEF N!Recipients, N!Owed, NotesInd, NotesTyped, N!TypeOK
<1>6. /\ c.op = "mention" /\ c.actor = a /\ c.event = "mention_in_comment"
      /\ c.todo = N!Recipients(m, a) /\ c.mentioned = N!Recipients(m, a)
      /\ c.owed = N!Owed(a, "bug_commented") /\ c.no = requests + 1
      /\ c.pending = {} /\ c.defaults = {} /\ c.before = Nobody /\ c.held = Nobody
      /\ c = [op |-> c.op, actor |-> c.actor, event |-> c.event, todo |-> c.todo,
              pending |-> c.pending, defaults |-> c.defaults, mentioned |-> c.mentioned,
              before |-> c.before, held |-> c.held, owed |-> c.owed, no |-> c.no]
  BY <1>1, <1>3 DEF N!Idle
<1>7. c \in Handlers
  BY <1>4, <1>5, <1>6 DEF Handlers, HandlerOps, N!NotificationEvent
<1>8. HandOK(c)'
  <2>1. HandOwes(c)'
    BY <1>2, <1>5, <1>6 DEF HandOwes, Target, N!Mutes
  <2>2. HandIsKnown(c)' /\ HandIsEmpty(c)' /\ HandSparesActor(c)' /\ HandTellsOnce(c)' /\ HandHasEvent(c)'
    BY <1>4, <1>5, <1>6 DEF HandIsKnown, HandIsEmpty, HandSparesActor, HandTellsOnce, HandHasEvent, Telling
  <2> QED
    BY <2>1, <2>2 DEF HandOK
<1>9. watchers' \subseteq Users /\ assignee' \in Users \union {Nobody}
  BY <1>2 DEF NotesInd, NotesTyped, N!TypeOK
<1> QED
  BY <1>2, <1>4, <1>6, <1>7, <1>8, <1>9, HandlerStep

\* A comment is edited: only whom it newly mentions is told.
LEMMA CommentUpdated ==
  ASSUME NotesInd, NEW w \in Workers, NEW a \in Members, NEW m \in N!Bodies, N!UpdateComment(w, a, m)
  PROVE NotesInd'
<1>1. PICK r : r = [N!Idle EXCEPT !.op = "edit", !.actor = a, !.event = "mention_in_comment",
                           !.todo = N!Recipients(m \ comment, a)]
  OBVIOUS
<1>2. N!Serve(w, r) /\ UNCHANGED <<watchers, assignee, preference, rows, window, raced>>
  BY <1>1 DEF N!UpdateComment
<1>3. PICK c : c = [r EXCEPT !.no = requests + 1]
  OBVIOUS
<1>4. /\ requests' \in 0 .. MaxRequests /\ requests + 1 \in 1 .. MaxRequests
      /\ requests + 1 \in 0 .. MaxRequests /\ telling' = [telling EXCEPT ![w] = c]
  BY <1>2, <1>3, RequestsServed
<1>5. N!Recipients(m \ comment, a) \subseteq Users /\ a \notin N!Recipients(m \ comment, a) /\ a \in Users
  BY TrackerConstants DEF N!Recipients
<1>6. /\ c.op = "edit" /\ c.actor = a /\ c.event = "mention_in_comment"
      /\ c.todo = N!Recipients(m \ comment, a) /\ c.mentioned = {}
      /\ c.owed = {} /\ c.no = requests + 1
      /\ c.pending = {} /\ c.defaults = {} /\ c.before = Nobody /\ c.held = Nobody
      /\ c = [op |-> c.op, actor |-> c.actor, event |-> c.event, todo |-> c.todo,
              pending |-> c.pending, defaults |-> c.defaults, mentioned |-> c.mentioned,
              before |-> c.before, held |-> c.held, owed |-> c.owed, no |-> c.no]
  BY <1>1, <1>3 DEF N!Idle
<1>7. c \in Handlers
  BY <1>4, <1>5, <1>6 DEF Handlers, HandlerOps, N!NotificationEvent
<1>8. HandOK(c)'
  <2>1. HandOwes(c)'
    BY <1>6 DEF HandOwes
  <2>2. HandIsKnown(c)' /\ HandIsEmpty(c)' /\ HandSparesActor(c)' /\ HandTellsOnce(c)' /\ HandHasEvent(c)'
    BY <1>4, <1>5, <1>6 DEF HandIsKnown, HandIsEmpty, HandSparesActor, HandTellsOnce, HandHasEvent, Telling
  <2> QED
    BY <2>1, <2>2 DEF HandOK
<1>9. watchers' \subseteq Users /\ assignee' \in Users \union {Nobody}
  BY <1>2 DEF NotesInd, NotesTyped, N!TypeOK
<1> QED
  BY <1>2, <1>4, <1>6, <1>7, <1>8, <1>9, HandlerStep

\* The status of the bug changes: its watchers are owed that.
LEMMA BugStatusChanged ==
  ASSUME NotesInd, NEW w \in Workers, NEW a \in Members, NEW e \in N!NotificationEvent,
         N!ChangeStatus(w, a, e)
  PROVE NotesInd'
<1>1. PICK r : r = [N!Idle EXCEPT !.op = "recipients", !.actor = a, !.event = e, !.owed = N!Owed(a, e)]
  OBVIOUS
<1>2. N!Serve(w, r) /\ UNCHANGED <<watchers, assignee, preference, rows, window, raced>>
        /\ e \in {"bug_resolved", "bug_status_changed"}
  BY <1>1 DEF N!ChangeStatus
<1>3. PICK c : c = [r EXCEPT !.no = requests + 1]
  OBVIOUS
<1>4. /\ requests' \in 0 .. MaxRequests /\ requests + 1 \in 1 .. MaxRequests
      /\ requests + 1 \in 0 .. MaxRequests /\ telling' = [telling EXCEPT ![w] = c]
  BY <1>2, <1>3, RequestsServed
<1>5. a \in Users /\ N!Owed(a, e) \subseteq Users
        /\ \A u \in N!Owed(a, e) : u \in watchers /\ u # a /\ ~N!Mutes(u, e)
  BY TrackerConstants DEF N!Owed, NotesInd, NotesTyped, N!TypeOK
<1>6. /\ c.op = "recipients" /\ c.actor = a /\ c.event = e
      /\ c.todo = {} /\ c.mentioned = {} /\ c.owed = N!Owed(a, e) /\ c.no = requests + 1
      /\ c.pending = {} /\ c.defaults = {} /\ c.before = Nobody /\ c.held = Nobody
      /\ c = [op |-> c.op, actor |-> c.actor, event |-> c.event, todo |-> c.todo,
              pending |-> c.pending, defaults |-> c.defaults, mentioned |-> c.mentioned,
              before |-> c.before, held |-> c.held, owed |-> c.owed, no |-> c.no]
  BY <1>1, <1>3 DEF N!Idle
<1>7. c \in Handlers
  BY <1>4, <1>5, <1>6 DEF Handlers, HandlerOps, N!NotificationEvent
<1>8. HandOK(c)'
  <2>1. HandOwes(c)'
    BY <1>2, <1>5, <1>6 DEF HandOwes, Target, N!Mutes
  <2>2. HandIsKnown(c)' /\ HandIsEmpty(c)' /\ HandSparesActor(c)' /\ HandTellsOnce(c)' /\ HandHasEvent(c)'
    BY <1>2, <1>4, <1>5, <1>6 DEF HandIsKnown, HandIsEmpty, HandSparesActor, HandTellsOnce, HandHasEvent, Telling
  <2> QED
    BY <2>1, <2>2 DEF HandOK
<1>9. watchers' \subseteq Users /\ assignee' \in Users \union {Nobody}
  BY <1>2 DEF NotesInd, NotesTyped, N!TypeOK
<1> QED
  BY <1>2, <1>4, <1>6, <1>7, <1>8, <1>9, HandlerStep

\* The bug is assigned: whoever gets it is to watch it first; nobody is owed anything.
LEMMA BugAssigned ==
  ASSUME NotesInd, NEW w \in Workers, NEW a \in Members, NEW to \in Members \union {Nobody},
         N!Assign(w, a, to)
  PROVE NotesInd'
<1>1. PICK op \in {"assignee", "watch assignee"} :
        op = (IF to = Nobody THEN "assignee" ELSE "watch assignee")
  OBVIOUS
<1>2. PICK r : r = [N!Idle EXCEPT !.op = op, !.actor = a, !.event = "bug_assigned", !.before = assignee]
  OBVIOUS
<1>3. N!Serve(w, r) /\ UNCHANGED <<watchers, preference, rows, window, raced>> /\ assignee' = to
  BY <1>1, <1>2 DEF N!Assign
<1>4. PICK c : c = [r EXCEPT !.no = requests + 1]
  OBVIOUS
<1>5. /\ requests' \in 0 .. MaxRequests /\ requests + 1 \in 1 .. MaxRequests
      /\ requests + 1 \in 0 .. MaxRequests /\ telling' = [telling EXCEPT ![w] = c]
  BY <1>3, <1>4, RequestsServed
<1>6. a \in Users /\ assignee \in Users \union {Nobody} /\ assignee' \in Users \union {Nobody}
        /\ watchers' \subseteq Users
  BY <1>3, TrackerConstants DEF NotesInd, NotesTyped, N!TypeOK
<1>7. /\ c.op = op /\ c.actor = a /\ c.event = "bug_assigned"
      /\ c.todo = {} /\ c.mentioned = {} /\ c.owed = {} /\ c.no = requests + 1
      /\ c.pending = {} /\ c.defaults = {} /\ c.before = assignee /\ c.held = Nobody
      /\ c = [op |-> c.op, actor |-> c.actor, event |-> c.event, todo |-> c.todo,
              pending |-> c.pending, defaults |-> c.defaults, mentioned |-> c.mentioned,
              before |-> c.before, held |-> c.held, owed |-> c.owed, no |-> c.no]
  BY <1>2, <1>4 DEF N!Idle
<1>8. c \in Handlers
  BY <1>5, <1>6, <1>7 DEF Handlers, HandlerOps, N!NotificationEvent
<1>9. HandOK(c)'
  <2>1. HandOwes(c)'
    BY <1>7 DEF HandOwes
  <2>2. HandIsKnown(c)' /\ HandIsEmpty(c)' /\ HandSparesActor(c)' /\ HandTellsOnce(c)' /\ HandHasEvent(c)'
    BY <1>5, <1>6, <1>7 DEF HandIsKnown, HandIsEmpty, HandSparesActor, HandTellsOnce, HandHasEvent, Telling
  <2> QED
    BY <2>1, <2>2 DEF HandOK
<1> QED
  BY <1>3, <1>5, <1>6, <1>7, <1>8, <1>9, HandlerStep

\* What the invariant says of the hand of one worker.
LEMMA HandlerOfWorker ==
  ASSUME NotesInd, NEW w \in Workers
  PROVE telling[w] \in Handlers /\ HandOK(telling[w]) /\ telling \in [Workers -> Handlers]
          /\ watchers \subseteq Users /\ assignee \in Users \union {Nobody}
          /\ requests \in 0 .. MaxRequests
  BY DEF NotesInd, NotesTyped, Hands, N!TypeOK

\* What a handler still owes is the same on its way to the watchers.
Passes(h, c) ==
  /\ h.op \in {"watch", "watch assignee", "insert watcher"}
  /\ c.op \in {"recipients", "insert watcher", "assignee"}
  /\ c.op = "assignee" => c.event = "bug_assigned"
  /\ c.owed = h.owed /\ c.mentioned = h.mentioned /\ c.actor = h.actor /\ c.event = h.event
  /\ c.no = h.no /\ c.pending = h.pending /\ c.defaults = h.defaults
RowsStay ==
  watchers \subseteq watchers' /\ preference' = preference /\ rows' = rows /\ window' = window

\* A handler that only moves towards the watchers stays right.
LEMMA OnTheWay ==
  ASSUME NEW h \in Handlers, HandOK(h), NEW c, Passes(h, c), RowsStay
  PROVE HandOK(c)'
<1> USE DEF Passes, RowsStay
<1>1. HandOwes(c)'
  <2>1. \A u \in h.owed : u \in watchers /\ u # h.actor /\ ~N!Mutes(u, Target(h))
    BY DEF HandOK, HandOwes
  <2>2. \A u \in h.owed \intersect h.mentioned : MentionDone(u)
    BY DEF HandOK, HandOwes
  <2>3. \A u, e : (MentionDone(u) => MentionDone(u)') /\ (~N!Mutes(u, e) => ~N!Mutes(u, e)')
    BY DEF MentionDone, N!Mutes, Told
  <2>4. Target(c)' = Target(h)
    BY DEF Target
  <2>5. \A u \in c.owed : u \in watchers' /\ u # c.actor /\ ~N!Mutes(u, Target(c))'
    BY <2>1, <2>3, <2>4 DEF N!Mutes
  <2> QED
    BY <2>2, <2>3, <2>5 DEF HandOwes
<1>2. HandIsKnown(c)' /\ HandIsEmpty(c)' /\ HandSparesActor(c)' /\ HandTellsOnce(c)' /\ HandHasEvent(c)'
  BY DEF HandOK, HandIsKnown, HandIsEmpty, HandSparesActor, HandTellsOnce, HandHasEvent, Telling
<1> QED
  BY <1>1, <1>2 DEF HandOK

\* A handler looks for the row of a watcher, and finds it or not.
LEMMA WatcherLookedFor ==
  ASSUME NotesInd, NEW w \in Workers, N!LookForWatcher(w)
  PROVE NotesInd'
<1>1. PICK h : h = telling[w]
  OBVIOUS
<1>2. h \in Handlers /\ HandOK(h) /\ h.op \in {"watch", "watch assignee"}
        /\ UNCHANGED <<watchers, assignee, preference, rows, window, requests, raced>>
  BY <1>1, HandlerOfWorker DEF N!LookForWatcher, N!Does
<1>3. N!Watched(w) \in {"assignee", "recipients"} /\ (N!Watched(w) = "assignee" => h.event = "bug_assigned")
  BY <1>1 DEF N!Watched
<1>4. N!Watcher(w) \in Users \union {Nobody}
  BY <1>1, <1>2, HandlerOfWorker DEF N!Watcher, Handlers
<1>5. \E c : /\ telling' = [telling EXCEPT ![w] = c]
             /\ \/ c = [h EXCEPT !.op = N!Watched(w)]
                \/ c = [h EXCEPT !.op = "insert watcher", !.todo = {N!Watcher(w)}]
                     /\ N!Watcher(w) \notin watchers \union {Nobody}
  BY <1>1 DEF N!LookForWatcher, N!Becomes
<1>6. PICK c : /\ telling' = [telling EXCEPT ![w] = c]
               /\ \/ c = [h EXCEPT !.op = N!Watched(w)]
                  \/ c = [h EXCEPT !.op = "insert watcher", !.todo = {N!Watcher(w)}]
                       /\ N!Watcher(w) \notin watchers \union {Nobody}
  BY <1>5
<1>7. /\ c \in Handlers /\ c.op \in {"recipients", "insert watcher", "assignee"}
      /\ c.owed = h.owed /\ c.mentioned = h.mentioned /\ c.actor = h.actor /\ c.event = h.event
      /\ c.no = h.no /\ c.pending = h.pending /\ c.defaults = h.defaults
      /\ c.op = "assignee" => c.event = "bug_assigned"
  <2>1. PICK x : x = N!Watched(w)
    OBVIOUS
  <2>2. PICK y : y = N!Watcher(w)
    OBVIOUS
  <2>3. CASE c = [h EXCEPT !.op = x]
    BY <1>2, <1>3, <2>1, <2>3 DEF Handlers, HandlerOps
  <2>4. CASE c = [h EXCEPT !.op = "insert watcher", !.todo = {y}] /\ y \notin watchers \union {Nobody}
    BY <1>2, <1>4, <2>2, <2>4 DEF Handlers, HandlerOps
  <2> QED
    BY <1>6, <2>1, <2>2, <2>3, <2>4
<1>8. HandOK(c)'
  <2>1. h \in Handlers /\ HandOK(h)
    BY <1>2
  <2>2. Passes(h, c)
    BY <1>2, <1>7 DEF Passes
  <2>3. RowsStay
    BY <1>2 DEF RowsStay
  <2> QED
    BY <2>1, <2>2, <2>3, OnTheWay
<1>9. watchers' \subseteq Users /\ assignee' \in Users \union {Nobody} /\ requests' \in 0 .. MaxRequests
  BY <1>2, HandlerOfWorker
<1> QED
  BY <1>1, <1>2, <1>6, <1>7, <1>8, <1>9, HandlerStep

\* A handler inserts the row of a watcher.
LEMMA WatcherInserted ==
  ASSUME NotesInd, NEW w \in Workers, N!InsertWatcher(w)
  PROVE NotesInd'
<1>1. PICK h : h = telling[w]
  OBVIOUS
<1>2. h \in Handlers /\ HandOK(h) /\ h.op = "insert watcher" /\ h.todo \subseteq Users
        /\ UNCHANGED <<assignee, preference, rows, window, requests, raced>>
        /\ watchers \subseteq Users /\ assignee \in Users \union {Nobody} /\ requests \in 0 .. MaxRequests
  BY <1>1, HandlerOfWorker DEF N!InsertWatcher, N!Does, Handlers
<1>3. CASE telling' = [telling EXCEPT ![w] = N!Idle] /\ UNCHANGED watchers
  BY <1>2, <1>3, IdleHands, HandlerStep
<1>4. CASE watchers' = watchers \union h.todo
             /\ telling' = [telling EXCEPT ![w] = [h EXCEPT !.op = N!Watched(w), !.todo = {}]]
  <2>1. PICK x \in {"assignee", "recipients"} :
          x = N!Watched(w) /\ (x = "assignee" => h.event = "bug_assigned")
    BY <1>1 DEF N!Watched
  <2>2. PICK c : c = [h EXCEPT !.op = x, !.todo = {}]
    OBVIOUS
  <2>3. /\ c \in Handlers /\ c.op \in {"recipients", "insert watcher", "assignee"}
        /\ c.owed = h.owed /\ c.mentioned = h.mentioned /\ c.actor = h.actor /\ c.event = h.event
        /\ c.no = h.no /\ c.pending = h.pending /\ c.defaults = h.defaults
        /\ c.op = "assignee" => c.event = "bug_assigned"
    BY <1>2, <2>1, <2>2 DEF Handlers, HandlerOps
  <2>4. watchers \subseteq watchers' /\ watchers' \subseteq Users
    BY <1>2, <1>4
  <2>5. HandOK(c)'
    <3>1. h \in Handlers /\ HandOK(h)
      BY <1>2
    <3>2. Passes(h, c)
      BY <1>2, <2>3 DEF Passes
    <3>3. RowsStay
      BY <1>2, <2>4 DEF RowsStay
    <3> QED
      BY <3>1, <3>2, <3>3, OnTheWay
  <2>6. telling' = [telling EXCEPT ![w] = c] /\ assignee' \in Users \union {Nobody}
          /\ requests' \in 0 .. MaxRequests
    BY <1>2, <1>4, <2>1, <2>2
  <2> QED
    BY <1>1, <1>2, <2>3, <2>4, <2>5, <2>6, HandlerStep
<1> QED
  BY <1>1, <1>3, <1>4 DEF N!InsertWatcher, N!Becomes

\* A handler reads whom to tell: the watchers but the actor and those mentioned.
LEMMA WatchersRead ==
  ASSUME NotesInd, NEW w \in Workers, N!ReadWatchers(w)
  PROVE NotesInd'
<1>1. PICK h : h = telling[w]
  OBVIOUS
<1>2. h \in Handlers /\ HandOK(h) /\ h.op = "recipients"
        /\ UNCHANGED <<watchers, assignee, preference, rows, window, requests, raced>>
        /\ watchers \subseteq Users /\ assignee \in Users \union {Nobody} /\ requests \in 0 .. MaxRequests
  BY <1>1, HandlerOfWorker DEF N!ReadWatchers, N!Does
<1>3. PICK e : e = Target(h)
  OBVIOUS
<1>4. PICK all : all = watchers \ ({h.actor} \union h.mentioned)
  OBVIOUS
<1>5. telling' = [telling EXCEPT ![w] = [h EXCEPT !.op = "notify", !.event = e, !.todo = all]]
  BY <1>1, <1>2, <1>3, <1>4 DEF N!ReadWatchers, N!Becomes, Target, Handlers
<1>6. PICK c : c = [h EXCEPT !.op = "notify", !.event = e, !.todo = all]
  OBVIOUS
<1>7. e \in N!NotificationEvent /\ e # "mention_in_comment" /\ (e = "bug_assigned" => h.event = "bug_assigned")
  BY <1>2, <1>3 DEF Target, Handlers, N!NotificationEvent
<1>8. all \subseteq Users
  BY <1>2, <1>4
<1>9. /\ c.op = "notify" /\ c.event = e /\ c.todo = all
      /\ c.owed = h.owed /\ c.mentioned = h.mentioned /\ c.actor = h.actor
      /\ c.no = h.no /\ c.pending = h.pending /\ c.defaults = h.defaults
  BY <1>2, <1>6 DEF Handlers
<1>10. c \in Handlers
  BY <1>2, <1>6, <1>7, <1>8 DEF Handlers, HandlerOps
<1>11. h.pending = {} /\ h.defaults = {}
  BY <1>2 DEF HandOK, HandIsEmpty, Telling
<1>12. HandOwes(c)'
  <2>1. \A u \in h.owed : u \in watchers /\ u # h.actor /\ ~N!Mutes(u, e)
    BY <1>2, <1>3 DEF HandOK, HandOwes
  <2>2. \A u \in h.owed \intersect h.mentioned : MentionDone(u)
    BY <1>2 DEF HandOK, HandOwes
  <2>3. \A u : (MentionDone(u) => MentionDone(u)') /\ (~N!Mutes(u, e) => ~N!Mutes(u, e)')
    BY <1>2 DEF MentionDone, N!Mutes, Told
  <2>4. Target(c)' = e
    BY <1>7, <1>9 DEF Target
  <2>5. \A u \in c.owed : u \in watchers' /\ u # c.actor /\ ~N!Mutes(u, Target(c))'
    BY <1>2, <1>9, <2>1, <2>3, <2>4 DEF N!Mutes
  <2>6. \A u \in c.owed : u \in c.todo \/ u \in c.mentioned
    BY <1>4, <1>9, <2>1
  <2> QED
    BY <1>9, <2>2, <2>3, <2>5, <2>6 DEF HandOwes
<1>13. HandOK(c)'
  <2>1. HandIsKnown(c)' /\ HandIsEmpty(c)' /\ HandSparesActor(c)' /\ HandTellsOnce(c)' /\ HandHasEvent(c)'
    BY <1>2, <1>4, <1>7, <1>9, <1>11
      DEF HandOK, HandIsKnown, HandIsEmpty, HandSparesActor, HandTellsOnce, HandHasEvent, Telling
  <2> QED
    BY <1>12, <2>1 DEF HandOK
<1> QED
  BY <1>1, <1>2, <1>5, <1>6, <1>9, <1>10, <1>13, HandlerStep

\* A handler reads the assignee, who is to be told unless it is whoever was it before.
LEMMA AssigneeRead ==
  ASSUME NotesInd, NEW w \in Workers, N!ReadAssignee(w)
  PROVE NotesInd'
<1>1. PICK h : h = telling[w]
  OBVIOUS
<1>2. h \in Handlers /\ HandOK(h) /\ h.op = "assignee"
        /\ UNCHANGED <<watchers, assignee, preference, rows, window, requests, raced>>
        /\ watchers \subseteq Users /\ assignee \in Users \union {Nobody} /\ requests \in 0 .. MaxRequests
  BY <1>1, HandlerOfWorker DEF N!ReadAssignee, N!Does
<1>3. PICK all : all = {assignee} \ {Nobody, h.before, h.actor}
  OBVIOUS
<1>4. PICK c : c = [h EXCEPT !.op = "notify", !.todo = all]
  OBVIOUS
<1>5. telling' = [telling EXCEPT ![w] = c]
  BY <1>1, <1>3, <1>4 DEF N!ReadAssignee, N!Becomes
<1>6. all \subseteq Users /\ h.actor \notin all
  BY <1>2, <1>3
<1>7. /\ c.op = "notify" /\ c.event = h.event /\ c.todo = all
      /\ c.owed = h.owed /\ c.mentioned = h.mentioned /\ c.actor = h.actor
      /\ c.no = h.no /\ c.pending = h.pending /\ c.defaults = h.defaults
  BY <1>2, <1>4 DEF Handlers
<1>8. c \in Handlers
  BY <1>2, <1>4, <1>6 DEF Handlers, HandlerOps
<1>9. h.pending = {} /\ h.defaults = {} /\ h.owed = {} /\ h.event = "bug_assigned"
  BY <1>2 DEF HandOK, HandIsEmpty, HandHasEvent, Telling
<1>10. HandOK(c)'
  BY <1>2, <1>6, <1>7, <1>9
    DEF HandOK, HandIsKnown, HandIsEmpty, HandSparesActor, HandTellsOnce, HandHasEvent, HandOwes, Telling
<1> QED
  BY <1>1, <1>2, <1>5, <1>7, <1>8, <1>10, HandlerStep

\* A handler is refused, or has answered: it holds nothing any more.
LEMMA HandlerEnds ==
  ASSUME NotesInd, NEW w \in Workers, N!Refused(w) \/ N!Answer(w)
  PROVE NotesInd'
<1>1. telling' = [telling EXCEPT ![w] = N!Idle]
        /\ UNCHANGED <<watchers, assignee, preference, rows, window, requests, raced>>
  BY DEF N!Refused, N!Answer, N!Becomes
<1>2. watchers' \subseteq Users /\ assignee' \in Users \union {Nobody} /\ requests' \in 0 .. MaxRequests
  BY <1>1, HandlerOfWorker
<1> QED
  BY <1>1, <1>2, IdleHands, HandlerStep

\* A handler that was kept waiting goes on with what it holds.
LEMMA HeldReleased ==
  ASSUME NotesInd, NEW w \in Workers, N!Released(w)
  PROVE NotesInd'
<1>1. PICK h : h = telling[w]
  OBVIOUS
<1>2. h \in Handlers /\ HandOK(h)
  BY <1>1 DEF NotesInd, NotesTyped, Hands
<1>3. PICK c : c = [h EXCEPT !.held = Nobody]
  OBVIOUS
<1>4. telling' = [telling EXCEPT ![w] = c]
        /\ UNCHANGED <<watchers, assignee, preference, rows, window, requests, raced>>
  BY <1>1, <1>3 DEF N!Released, N!Becomes
<1>5. /\ c.op = h.op /\ c.event = h.event /\ c.todo = h.todo /\ c.pending = h.pending
      /\ c.defaults = h.defaults /\ c.owed = h.owed /\ c.mentioned = h.mentioned
      /\ c.actor = h.actor /\ c.no = h.no /\ c \in Handlers
  BY <1>2, <1>3 DEF Handlers
<1>6. HandOwes(c)
  BY <1>2, <1>5 DEF HandOK, HandOwes, Target, ToldSoon
<1>7. HandOK(c)
  BY <1>2, <1>5, <1>6 DEF HandOK, HandIsKnown, HandIsEmpty, HandSparesActor, HandTellsOnce, HandHasEvent
<1>8. HandOK(c)'
  <2>1. \A d \in c.defaults : ~N!Known(d[1], d[2])'
    BY <1>4, <1>7 DEF HandOK, HandTellsOnce, N!Known
  <2>2. \A u \in Users, e \in N!NotificationEvent : N!Mutes(u, e)' <=> N!Mutes(u, e)
    BY <1>4 DEF N!Mutes
  <2> QED
    BY <1>4, <1>5, <1>7, <2>1, <2>2, HandStays
<1>9. watchers' \subseteq Users /\ assignee' \in Users \union {Nobody} /\ requests' \in 0 .. MaxRequests
  BY <1>4, HandlerOfWorker
<1> QED
  BY <1>1, <1>4, <1>5, <1>8, <1>9, HandlerStep

\* A handler makes rows, or commits them: the other hands hold nothing against it.
LEMMA HandlerMoves ==
  ASSUME NotesInd, NEW w \in Workers, NEW c \in Handlers, telling' = [telling EXCEPT ![w] = c],
         HandOK(c)', UNCHANGED <<watchers, assignee, window, requests>>,
         rows \subseteq rows', raced \subseteq raced',
         rows' \subseteq RowRecords, preference' \subseteq Users \X N!NotificationEvent \X BOOLEAN,
         \A p, q \in preference' : p[1] = q[1] /\ p[2] = q[2] => p = q,
         \A u \in Users, e \in N!NotificationEvent : N!Mutes(u, e)' <=> N!Mutes(u, e),
         \A v \in Workers \ {w} : \A d \in telling[v].defaults : ~N!Known(d[1], d[2])',
         \A v \in Workers \ {w} : c.defaults \intersect telling[v].defaults = {},
         \A v \in Workers \ {w} : \A p \in c.pending, q \in telling[v].pending :
            p.user = q.user /\ p.event = q.event => <<p.user, p.event>> \in raced',
         \A p \in c.pending, r \in rows' : OneOrRaced(p, r)',
         \A v \in Workers \ {w} : \A p \in telling[v].pending, r \in rows' : OneOrRaced(p, r)',
         N!ToldOnce', N!ActorsSpared'
  PROVE NotesInd'
<1>1. telling \in [Workers -> Handlers]
  BY DEF NotesInd, NotesTyped
<1>2. telling'[w] = c /\ \A v \in Workers : v # w => telling'[v] = telling[v]
  BY <1>1
<1>3. telling' \in [Workers -> Handlers]
  BY <1>1
<1>4. NotesTyped'
  <2>1. \A v \in Workers : telling'[v].todo \subseteq Users
    BY <1>3 DEF Handlers
  <2>2. watchers \subseteq Users /\ assignee \in Users \union {Nobody}
          /\ requests \in 0 .. MaxRequests /\ window \in 0 .. MaxWindows
    BY DEF NotesInd, NotesTyped, N!TypeOK
  <2>3. N!TypeOK'
    BY <2>1, <2>2 DEF N!TypeOK, RowRecords
  <2> QED
    BY <1>3, <2>2, <2>3 DEF NotesTyped
<1>5. Hands'
  <2>1. SUFFICES ASSUME NEW v \in Workers PROVE HandOK(telling[v])'
    BY DEF Hands
  <2>2. CASE v = w
    BY <1>2, <2>2, HandTaken
  <2>3. CASE v # w
    <3>1. PICK d \in Handlers : d = telling[v]
      BY <1>1
    <3>2. HandOK(d)
      BY <3>1 DEF NotesInd, Hands
    <3>3. \A x \in d.defaults : ~N!Known(x[1], x[2])'
      BY <2>3, <3>1
    <3>4. watchers \subseteq watchers' /\ window' = window
      OBVIOUS
    <3>5. HandOK(d)'
      BY <3>2, <3>3, <3>4, HandStays
    <3>6. telling'[v] = d
      BY <1>2, <2>3, <3>1
    <3> QED
      BY <3>5, <3>6, HandTaken
  <2> QED
    BY <2>2, <2>3
<1>6. HandsApart'
  <2>1. SUFFICES ASSUME NEW v \in Workers, NEW x \in Workers, v # x
                 PROVE Apart(telling[v], telling[x])'
    BY DEF HandsApart
  <2>2. CASE v = w
    BY <1>2, <2>1, <2>2 DEF Apart
  <2>3. CASE x = w
    BY <1>2, <2>1, <2>3 DEF Apart
  <2>4. CASE v # w /\ x # w
    BY <1>2, <2>1, <2>4 DEF Apart, NotesInd, HandsApart
  <2> QED
    BY <2>2, <2>3, <2>4
<1>7. HandsAndRows'
  <2>1. \A v \in Workers : \A p \in telling'[v].pending, r \in rows' : OneOrRaced(p, r)'
    BY <1>2
  <2> QED
    BY <2>1 DEF HandsAndRows, OneOrRaced
<1> QED
  BY <1>4, <1>5, <1>6, <1>7 DEF NotesInd

\* The handlers hold what they held, but for what they owe.
LEMMA AllHandsStay ==
  ASSUME NotesInd, telling' \in [Workers -> Handlers], Hands',
         \A v \in Workers : telling'[v].pending = telling[v].pending
                              /\ telling'[v].defaults = telling[v].defaults,
         UNCHANGED <<assignee, rows, raced>>, watchers' \subseteq Users,
         requests' \in 0 .. MaxRequests, window' \in 0 .. MaxWindows,
         preference' \subseteq Users \X N!NotificationEvent \X BOOLEAN,
         \A p, q \in preference' : p[1] = q[1] /\ p[2] = q[2] => p = q
  PROVE NotesInd'
<1>1. NotesTyped'
  <2>1. \A v \in Workers : telling'[v].todo \subseteq Users
    BY DEF Handlers
  <2>2. N!TypeOK'
    BY <2>1 DEF NotesInd, NotesTyped, N!TypeOK
  <2> QED
    BY <2>2 DEF NotesTyped
<1>2. HandsApart'
  BY DEF NotesInd, HandsApart, Apart
<1>3. HandsAndRows'
  BY DEF NotesInd, HandsAndRows, OneOrRaced
<1>4. N!ToldOnce' /\ N!ActorsSpared'
  BY DEF NotesInd, N!ToldOnce, N!ActorsSpared
<1> QED
  BY <1>1, <1>2, <1>3, <1>4 DEF NotesInd

\* A user who leaves, or sets a preference, is owed nothing any more.
LEMMA HandForgives ==
  ASSUME NEW c \in Handlers, HandOK(c), NEW u \in Users, NEW d, d = [c EXCEPT !.owed = @ \ {u}],
         UNCHANGED <<rows, window>>, watchers \ {u} \subseteq watchers',
         \A x \in Users \ {u}, e \in N!NotificationEvent : N!Mutes(x, e)' <=> N!Mutes(x, e),
         \A x \in c.defaults : ~N!Known(x[1], x[2])'
  PROVE d \in Handlers /\ HandOK(d)'
<1>1. d \in Handlers
  BY DEF Handlers
<1>2. /\ d.op = c.op /\ d.actor = c.actor /\ d.event = c.event /\ d.todo = c.todo
      /\ d.pending = c.pending /\ d.defaults = c.defaults /\ d.mentioned = c.mentioned
      /\ d.no = c.no /\ d.owed = c.owed \ {u}
  BY DEF Handlers
<1>3. c.owed \subseteq Users /\ c.mentioned \subseteq Users /\ Target(c) \in N!NotificationEvent
  BY DEF Handlers, Target, N!NotificationEvent
<1>4. \A x \in Users \ {u} : MentionDone(x) => MentionDone(x)'
  BY DEF MentionDone, Told, N!NotificationEvent
<1>5. HandOwes(d)'
  <2>1. \A x \in d.owed : x \in watchers' /\ x # d.actor /\ ~N!Mutes(x, Target(c))'
    BY <1>2, <1>3 DEF HandOK, HandOwes
  <2>2. d.op = "mention" => \A x \in d.owed \intersect d.mentioned :
          x \in d.todo \/ MentionDone(x)' \/ ToldSoon(d, x, "mention_in_comment")
    BY <1>2, <1>3, <1>4 DEF HandOK, HandOwes, ToldSoon
  <2>3. d.op \notin {"none", "mention"} => \A x \in d.owed \intersect d.mentioned : MentionDone(x)'
    BY <1>2, <1>3, <1>4 DEF HandOK, HandOwes
  <2>4. d.op = "notify" => \A x \in d.owed :
          x \in d.todo \/ x \in d.mentioned \/ Told(x, d.event)' \/ ToldSoon(d, x, d.event)
    BY <1>2 DEF HandOK, HandOwes, Told, ToldSoon
  <2>5. d.op = "answered" => \A x \in d.owed : x \in d.mentioned \/ Told(x, d.event)'
    BY <1>2 DEF HandOK, HandOwes, Told
  <2>6. Target(d) = Target(c)
    BY <1>2 DEF Target
  <2> QED
    BY <2>1, <2>2, <2>3, <2>4, <2>5, <2>6 DEF HandOwes, Target, ToldSoon
<1>6. HandIsKnown(d)' /\ HandIsEmpty(d)' /\ HandSparesActor(d)' /\ HandTellsOnce(d)'
  BY <1>2 DEF HandOK, HandIsKnown, HandIsEmpty, HandSparesActor, HandTellsOnce
<1>7. HandHasEvent(d)'
  BY <1>2 DEF HandOK, HandHasEvent
<1> QED
  BY <1>1, <1>5, <1>6, <1>7 DEF HandOK


\* A user starts to watch the bug, and nobody owes them yet.
LEMMA WatcherJoins ==
  ASSUME NotesInd, NEW w \in Workers, NEW u \in Members, N!Watch(w, u)
  PROVE NotesInd'
<1>1. /\ watchers' = watchers \union {u} /\ requests' = requests + 1 /\ requests < MaxRequests
      /\ UNCHANGED <<assignee, preference, rows, window, telling, raced>>
  BY DEF N!Watch
<1>2. watchers' \subseteq Users /\ watchers \subseteq watchers'
  BY <1>1, TrackerConstants DEF NotesInd, NotesTyped, N!TypeOK
<1>3. requests' \in 0 .. MaxRequests
  BY <1>1, TrackerConstants DEF NotesInd, NotesTyped
<1>4. Hands'
  <2>1. SUFFICES ASSUME NEW v \in Workers PROVE HandOK(telling[v])'
    BY DEF Hands
  <2>2. PICK d \in Handlers : d = telling[v]
    BY DEF NotesInd, NotesTyped
  <2>3. HandOK(d) /\ \A x \in d.defaults : ~N!Known(x[1], x[2])
    BY <2>2 DEF NotesInd, Hands, HandOK, HandTellsOnce
  <2>4. \A x \in d.defaults : ~N!Known(x[1], x[2])'
    BY <1>1, <2>3 DEF N!Known
  <2>5. \A x \in Users, e \in N!NotificationEvent : N!Mutes(x, e)' <=> N!Mutes(x, e)
    BY <1>1 DEF N!Mutes
  <2>6. rows \subseteq rows' /\ window' = window
    BY <1>1
  <2>7. HandOK(d)'
    BY <1>2, <2>3, <2>4, <2>5, <2>6, HandStays
  <2>8. telling'[v] = d
    BY <1>1, <2>2
  <2> QED
    BY <2>7, <2>8, HandTaken
<1>5. /\ telling' \in [Workers -> Handlers] /\ window' \in 0 .. MaxWindows
      /\ preference' \subseteq Users \X N!NotificationEvent \X BOOLEAN
      /\ \A p, q \in preference' : p[1] = q[1] /\ p[2] = q[2] => p = q
      /\ \A v \in Workers : telling'[v].pending = telling[v].pending
                              /\ telling'[v].defaults = telling[v].defaults
  BY <1>1 DEF NotesInd, NotesTyped, N!TypeOK
<1> QED
  BY <1>1, <1>2, <1>3, <1>4, <1>5, AllHandsStay

\* Every handler forgives a user.
LEMMA HandsForgive ==
  ASSUME NotesInd, NEW u \in Users, telling' = [v \in Workers |-> [telling[v] EXCEPT !.owed = @ \ {u}]],
         UNCHANGED <<assignee, rows, raced, window>>, watchers' \subseteq Users,
         watchers \ {u} \subseteq watchers', requests' \in 0 .. MaxRequests,
         preference' \subseteq Users \X N!NotificationEvent \X BOOLEAN,
         \A p, q \in preference' : p[1] = q[1] /\ p[2] = q[2] => p = q,
         \A x \in Users \ {u}, e \in N!NotificationEvent : N!Mutes(x, e)' <=> N!Mutes(x, e),
         \A v \in Workers : \A x \in telling[v].defaults : ~N!Known(x[1], x[2])'
  PROVE NotesInd'
<1>1. ASSUME NEW v \in Workers
      PROVE /\ telling'[v] \in Handlers /\ HandOK(telling[v])'
            /\ telling'[v].pending = telling[v].pending /\ telling'[v].defaults = telling[v].defaults
  <2>1. PICK c \in Handlers : c = telling[v]
    BY DEF NotesInd, NotesTyped
  <2>2. HandOK(c)
    BY <2>1 DEF NotesInd, Hands
  <2>3. PICK d : d = [c EXCEPT !.owed = @ \ {u}]
    OBVIOUS
  <2>4. \A x \in c.defaults : ~N!Known(x[1], x[2])'
    BY <2>1
  <2>5. d \in Handlers /\ HandOK(d)'
    BY <2>2, <2>3, <2>4, HandForgives
  <2>6. telling'[v] = d
    BY <2>1, <2>3
  <2>7. d.pending = c.pending /\ d.defaults = c.defaults
    BY <2>3 DEF Handlers
  <2> QED
    BY <2>1, <2>5, <2>6, <2>7, HandTaken
<1>2. telling' \in [Workers -> Handlers]
  BY <1>1
<1>3. Hands'
  BY <1>1 DEF Hands
<1>4. window' \in 0 .. MaxWindows
  BY DEF NotesInd, NotesTyped
<1> QED
  BY <1>1, <1>2, <1>3, <1>4, AllHandsStay

\* A user stops watching, and is owed nothing any more.
LEMMA WatcherLeaves ==
  ASSUME NotesInd, NEW w \in Workers, NEW u \in Members, N!Unwatch(w, u)
  PROVE NotesInd'
<1>1. /\ watchers' = watchers \ {u} /\ requests' = requests + 1 /\ requests < MaxRequests
      /\ telling' = [v \in Workers |-> [telling[v] EXCEPT !.owed = @ \ {u}]]
      /\ UNCHANGED <<assignee, preference, rows, window, raced>>
  BY DEF N!Unwatch
<1>2. watchers' \subseteq Users /\ watchers \ {u} \subseteq watchers' /\ u \in Users
  BY <1>1, TrackerConstants DEF NotesInd, NotesTyped, N!TypeOK
<1>3. requests' \in 0 .. MaxRequests
  BY <1>1, TrackerConstants DEF NotesInd, NotesTyped
<1>4. \A v \in Workers : \A x \in telling[v].defaults : ~N!Known(x[1], x[2])'
  BY <1>1 DEF NotesInd, Hands, HandOK, HandTellsOnce, N!Known
<1>5. /\ preference' \subseteq Users \X N!NotificationEvent \X BOOLEAN
      /\ \A p, q \in preference' : p[1] = q[1] /\ p[2] = q[2] => p = q
  BY <1>1 DEF NotesInd, NotesTyped, N!TypeOK
<1>6. \A x \in Users \ {u}, e \in N!NotificationEvent : N!Mutes(x, e)' <=> N!Mutes(x, e)
  BY <1>1 DEF N!Mutes
<1> QED
  BY <1>1, <1>2, <1>3, <1>4, <1>5, <1>6, HandsForgive

\* A user mutes an event, or wants it again, and is owed nothing any more.
LEMMA PreferenceSet ==
  ASSUME NotesInd, NEW w \in Workers, NEW u \in Members, NEW e \in N!Muted, N!SetPreference(w, u, e)
  PROVE NotesInd'
<1>1. /\ requests' = requests + 1 /\ requests < MaxRequests
      /\ telling' = [v \in Workers |-> [telling[v] EXCEPT !.owed = @ \ {u}]]
      /\ UNCHANGED <<watchers, assignee, rows, window, raced>>
      /\ \A v \in Workers : <<u, e>> \notin telling[v].defaults
      /\ preference' = {p \in preference : p[1] # u \/ p[2] # e} \union {<<u, e, N!Mutes(u, e)>>}
  BY DEF N!SetPreference
<1>2. u \in Users /\ e \in N!NotificationEvent
  BY TrackerConstants DEF N!Muted, N!NotificationEvent
<1>3. PICK on \in BOOLEAN : on = N!Mutes(u, e)
  <2>1. CASE N!Mutes(u, e)
    <3>1. TRUE = N!Mutes(u, e)
      BY <2>1, Zenon
    <3> QED
      BY <3>1, Zenon
  <2>2. CASE ~N!Mutes(u, e)
    <3>1. FALSE = N!Mutes(u, e)
      BY <2>2 DEF N!Mutes
    <3> QED
      BY <3>1, Zenon
  <2> QED
    BY <2>1, <2>2
<1>4. preference' = {p \in preference : p[1] # u \/ p[2] # e} \union {<<u, e, on>>}
  BY <1>1, <1>3
<1>5. preference \subseteq Users \X N!NotificationEvent \X BOOLEAN
        /\ \A p, q \in preference : p[1] = q[1] /\ p[2] = q[2] => p = q
  BY DEF NotesInd, NotesTyped, N!TypeOK
<1>6. preference' \subseteq Users \X N!NotificationEvent \X BOOLEAN
  BY <1>2, <1>4, <1>5
<1>7. \A p, q \in preference' : p[1] = q[1] /\ p[2] = q[2] => p = q
  BY <1>4, <1>5
<1>8. \A x \in Users \ {u}, f \in N!NotificationEvent : N!Mutes(x, f)' <=> N!Mutes(x, f)
  <2>1. SUFFICES ASSUME NEW x \in Users \ {u}, NEW f \in N!NotificationEvent
                 PROVE <<x, f, FALSE>> \in preference' <=> <<x, f, FALSE>> \in preference
    BY DEF N!Mutes
  <2>2. PICK t : t = <<x, f, FALSE>>
    OBVIOUS
  <2>3. t[1] # u
    BY <2>2
  <2>4. t # <<u, e, on>>
    BY <2>2
  <2> QED
    BY <1>4, <2>2, <2>3, <2>4
<1>9. ASSUME NEW v \in Workers, NEW x \in telling[v].defaults PROVE ~N!Known(x[1], x[2])'
  <2>1. ~N!Known(x[1], x[2])
    BY DEF NotesInd, Hands, HandOK, HandTellsOnce
  <2>2. x \in Users \X N!NotificationEvent
    BY DEF NotesInd, NotesTyped, Handlers
  <2>3. ~(x[1] = u /\ x[2] = e)
    BY <1>1, <2>2
  <2> QED
    BY <1>4, <2>1, <2>3 DEF N!Known
<1>10. requests' \in 0 .. MaxRequests /\ watchers' \subseteq Users /\ watchers \ {u} \subseteq watchers'
  BY <1>1, TrackerConstants DEF NotesInd, NotesTyped, N!TypeOK
<1> QED
  BY <1>1, <1>2, <1>6, <1>7, <1>8, <1>9, <1>10, HandsForgive

\* The window in which a row is not repeated passes, with no handler at work.
LEMMA WindowPasses ==
  ASSUME NotesInd, N!WindowEnds
  PROVE NotesInd'
<1>1. /\ window < MaxWindows /\ window' = window + 1 /\ \A v \in Workers : telling[v].op = "none"
      /\ UNCHANGED <<watchers, assignee, preference, rows, telling, requests, raced>>
  BY DEF N!WindowEnds, N!Does
<1>2. Hands'
  <2>1. SUFFICES ASSUME NEW v \in Workers PROVE HandOK(telling[v])'
    BY DEF Hands
  <2>2. PICK d \in Handlers : d = telling[v]
    BY DEF NotesInd, NotesTyped
  <2>3. HandOK(d) /\ d.op = "none"
    BY <1>1, <2>2 DEF NotesInd, Hands
  <2>4. d.pending = {} /\ d.defaults = {}
    BY <2>3 DEF HandOK, HandIsEmpty, Telling
  <2>5. HandOwes(d)'
    BY <1>1, <2>3 DEF HandOK, HandOwes, N!Mutes, Target
  <2>6. HandIsKnown(d)' /\ HandIsEmpty(d)' /\ HandSparesActor(d)' /\ HandTellsOnce(d)' /\ HandHasEvent(d)'
    BY <2>3, <2>4 DEF HandOK, HandIsKnown, HandIsEmpty, HandSparesActor, HandTellsOnce, HandHasEvent,
      Telling
  <2>7. HandOK(d)'
    BY <2>5, <2>6 DEF HandOK
  <2>8. telling'[v] = d
    BY <1>1, <2>2
  <2> QED
    BY <2>7, <2>8, HandTaken
<1>3. window' \in 0 .. MaxWindows
  BY <1>1, TrackerConstants DEF NotesInd, NotesTyped
<1>4. /\ telling' \in [Workers -> Handlers] /\ requests' \in 0 .. MaxRequests /\ watchers' \subseteq Users
      /\ preference' \subseteq Users \X N!NotificationEvent \X BOOLEAN
      /\ \A p, q \in preference' : p[1] = q[1] /\ p[2] = q[2] => p = q
      /\ \A v \in Workers : telling'[v].pending = telling[v].pending
                              /\ telling'[v].defaults = telling[v].defaults
  BY <1>1 DEF NotesInd, NotesTyped, N!TypeOK
<1> QED
  BY <1>1, <1>2, <1>3, <1>4, AllHandsStay


\* A handler commits what it has pending: the rows become those of the table.
LEMMA UserCommitted ==
  ASSUME NotesInd, NEW w \in Workers, N!Commit(w)
  PROVE NotesInd'
<1>1. PICK h : h = telling[w]
  OBVIOUS
<1>2. h \in Handlers /\ HandOK(h) /\ h.op \in Telling /\ h.todo = {}
        /\ UNCHANGED <<watchers, assignee, window, requests, raced>>
        /\ rows' = rows \union h.pending
        /\ preference' = preference \union {<<d[1], d[2], TRUE>> : d \in h.defaults}
  BY <1>1, HandlerOfWorker DEF N!Commit, N!Notifying, Telling
<1>3. PICK op \in {"watch", "answered"} : op = (IF h.op = "mention" THEN "watch" ELSE "answered")
  OBVIOUS
<1>4. PICK c : c = [h EXCEPT !.op = op, !.pending = {}, !.defaults = {}]
  OBVIOUS
<1>5. telling' = [telling EXCEPT ![w] = c]
  BY <1>1, <1>2, <1>3, <1>4 DEF N!Commit, N!Becomes, Handlers
<1>6. /\ c.op = op /\ c.event = h.event /\ c.todo = {} /\ c.pending = {} /\ c.defaults = {}
      /\ c.owed = h.owed /\ c.mentioned = h.mentioned /\ c.actor = h.actor /\ c.no = h.no
  BY <1>2, <1>4 DEF Handlers
<1>7. c \in Handlers
  BY <1>2, <1>4 DEF Handlers, HandlerOps
<1>8. h.pending \subseteq RowRecords /\ h.defaults \subseteq Users \X N!NotificationEvent
        /\ h.owed \subseteq Users /\ h.mentioned \subseteq Users
  BY <1>2 DEF Handlers
<1>9. rows \subseteq RowRecords /\ preference \subseteq Users \X N!NotificationEvent \X BOOLEAN
        /\ \A p, q \in preference : p[1] = q[1] /\ p[2] = q[2] => p = q
  BY DEF NotesInd, NotesTyped, N!TypeOK, RowRecords
<1>10. \A d \in h.defaults : ~N!Known(d[1], d[2])
  BY <1>2 DEF HandOK, HandTellsOnce
<1>25. PICK new : new = {<<d[1], d[2], TRUE>> : d \in h.defaults}
  OBVIOUS
<1>26. \A p \in new : /\ p \in Users \X N!NotificationEvent \X BOOLEAN /\ p = <<p[1], p[2], TRUE>> /\ p[3] = TRUE
                      /\ <<p[1], p[2]>> \in h.defaults /\ ~N!Known(p[1], p[2])
  <2>1. SUFFICES ASSUME NEW d \in h.defaults, NEW p, p = <<d[1], d[2], TRUE>>
                 PROVE /\ p \in Users \X N!NotificationEvent \X BOOLEAN /\ p = <<p[1], p[2], TRUE>> /\ p[3] = TRUE
                       /\ <<p[1], p[2]>> \in h.defaults /\ ~N!Known(p[1], p[2])
    BY <1>25
  <2>2. d[1] \in Users /\ d[2] \in N!NotificationEvent /\ d = <<d[1], d[2]>>
    BY <1>8
  <2>3. p[1] = d[1] /\ p[2] = d[2]
    BY <2>1
  <2>4. <<p[1], p[2]>> = d
    BY <2>2, <2>3
  <2>5. p = <<p[1], p[2], TRUE>>
    BY <2>1, <2>3
  <2>6. p \in Users \X N!NotificationEvent \X BOOLEAN
    BY <2>1, <2>2
  <2> QED
    BY <1>10, <2>1, <2>3, <2>4, <2>5, <2>6
<1>27. preference' = preference \union new
  BY <1>2, <1>25
<1>11. preference' \subseteq Users \X N!NotificationEvent \X BOOLEAN
  BY <1>9, <1>26, <1>27
<1>12. \A p, q \in preference' : p[1] = q[1] /\ p[2] = q[2] => p = q
  <2>1. SUFFICES ASSUME NEW p \in preference', NEW q \in preference', p[1] = q[1], p[2] = q[2]
                 PROVE p = q
    OBVIOUS
  <2>2. CASE p \in preference /\ q \in preference
    BY <1>9, <2>1, <2>2
  <2>3. CASE p \in new /\ q \in new
    BY <1>26, <2>1, <2>3
  <2>4. CASE (p \in preference /\ q \in new) \/ (p \in new /\ q \in preference)
    BY <1>26, <2>1, <2>4 DEF N!Known
  <2> QED
    BY <1>27, <2>2, <2>3, <2>4
<1>13. \A u \in Users, e \in N!NotificationEvent : N!Mutes(u, e)' <=> N!Mutes(u, e)
  <2>1. SUFFICES ASSUME NEW u, NEW e PROVE <<u, e, FALSE>> \in preference' <=> <<u, e, FALSE>> \in preference
    BY DEF N!Mutes
  <2>2. PICK t : t = <<u, e, FALSE>>
    OBVIOUS
  <2>3. t[3] = FALSE
    BY <2>2
  <2>4. t \notin new
    BY <1>26, <2>3
  <2> QED
    BY <1>27, <2>2, <2>4
<1>14. ASSUME NEW v \in Workers \ {w}, NEW d \in telling[v].defaults PROVE ~N!Known(d[1], d[2])'
  <2>1. ~N!Known(d[1], d[2])
    BY DEF NotesInd, Hands, HandOK, HandTellsOnce
  <2>2. d \in Users \X N!NotificationEvent /\ d \notin h.defaults
    BY <1>1 DEF NotesInd, NotesTyped, Handlers, HandsApart, Apart
  <2> QED
    <3>1. d = <<d[1], d[2]>>
      BY <2>2
    <3>2. \A p \in new : ~(p[1] = d[1] /\ p[2] = d[2])
      BY <1>26, <2>2, <3>1
    <3> QED
      BY <1>27, <2>1, <3>2 DEF N!Known
<1>15. \A p \in h.pending : p.window = window /\ p.user # p.by
  BY <1>2 DEF HandOK, HandSparesActor
<1>16. \A u, e : (Told(u, e) => Told(u, e)') /\ (ToldSoon(h, u, e) => Told(u, e)')
  BY <1>2, <1>15 DEF Told, ToldSoon
<1>17. \A u \in Users : MentionDone(u) => MentionDone(u)'
  BY <1>13, <1>16 DEF MentionDone, N!NotificationEvent
<1>18. HandOwes(c)'
  <2>1. Target(c) = Target(h) /\ Target(h) \in N!NotificationEvent
    BY <1>2, <1>6 DEF Target, Handlers, N!NotificationEvent
  <2>2. \A u \in c.owed : u \in watchers' /\ u # c.actor /\ ~N!Mutes(u, Target(c))'
    BY <1>2, <1>6, <1>8, <1>13, <2>1 DEF HandOK, HandOwes
  <2>3. h.op = "mention" => h.event = "mention_in_comment"
    BY <1>2 DEF HandOK, HandHasEvent
  <2>4. \A u \in h.owed \intersect h.mentioned : MentionDone(u)'
    <3>1. CASE h.op = "mention"
      <4>1. \A u \in h.owed \intersect h.mentioned :
              MentionDone(u) \/ ToldSoon(h, u, "mention_in_comment")
        BY <1>2, <3>1 DEF HandOK, HandOwes
      <4> QED
        BY <1>8, <1>16, <1>17, <4>1 DEF MentionDone
    <3>2. CASE h.op # "mention"
      BY <1>2, <1>8, <1>17, <3>2 DEF HandOK, HandOwes, Telling
    <3> QED
      BY <3>1, <3>2
  <2>5. op = "answered" => \A u \in h.owed : u \in h.mentioned \/ Told(u, h.event)'
    BY <1>2, <1>3, <1>16 DEF HandOK, HandOwes, HandHasEvent, Telling
  <2> QED
    BY <1>3, <1>6, <2>2, <2>4, <2>5 DEF HandOwes, Target, ToldSoon
<1>19. HandOK(c)'
  <2>1. HandIsKnown(c)' /\ HandIsEmpty(c)' /\ HandSparesActor(c)' /\ HandTellsOnce(c)'
    BY <1>2, <1>3, <1>6 DEF HandOK, HandIsKnown, HandIsEmpty, HandSparesActor, HandTellsOnce, Telling
  <2>2. HandHasEvent(c)'
    BY <1>2, <1>3, <1>6 DEF HandOK, HandHasEvent, Telling
  <2> QED
    BY <1>18, <2>1, <2>2 DEF HandOK
<1>20. N!ToldOnce'
  <2>1. SUFFICES ASSUME NEW r \in rows', NEW s \in rows', r.user = s.user, r.event = s.event,
                        r.window = s.window, r # s
                 PROVE <<r.user, r.event>> \in raced'
    BY DEF N!ToldOnce
  <2>2. CASE r \in rows /\ s \in rows
    BY <1>2, <2>1, <2>2 DEF NotesInd, N!ToldOnce
  <2>3. CASE r \in h.pending /\ s \in h.pending
    BY <1>2, <2>1, <2>3 DEF HandOK, HandTellsOnce
  <2>4. CASE r \in h.pending /\ s \in rows
    BY <1>1, <1>2, <2>1, <2>4 DEF NotesInd, HandsAndRows, OneOrRaced
  <2>5. CASE r \in rows /\ s \in h.pending
    BY <1>1, <1>2, <2>1, <2>5 DEF NotesInd, HandsAndRows, OneOrRaced
  <2> QED
    BY <1>2, <2>2, <2>3, <2>4, <2>5
<1>21. N!ActorsSpared'
  BY <1>2, <1>15 DEF NotesInd, N!ActorsSpared
<1>22. ASSUME NEW v \in Workers \ {w}, NEW p \in telling[v].pending, NEW r \in rows'
       PROVE OneOrRaced(p, r)'
  <2>1. CASE r \in rows
    BY <1>2, <2>1 DEF NotesInd, HandsAndRows, OneOrRaced
  <2>2. CASE r \in h.pending
    BY <1>1, <1>2, <2>2 DEF NotesInd, HandsApart, Apart, OneOrRaced
  <2> QED
    BY <1>2, <2>1, <2>2
<1>23. rows \subseteq rows' /\ rows' \subseteq RowRecords /\ raced \subseteq raced'
  BY <1>2, <1>8, <1>9
<1>24. /\ \A v \in Workers \ {w} : c.defaults \intersect telling[v].defaults = {}
       /\ \A v \in Workers \ {w} : \A p \in c.pending, q \in telling[v].pending :
            p.user = q.user /\ p.event = q.event => <<p.user, p.event>> \in raced'
       /\ \A p \in c.pending, r \in rows' : OneOrRaced(p, r)'
  BY <1>6
<1> QED
  BY <1>2, <1>5, <1>7, <1>11, <1>12, <1>13, <1>14, <1>19, <1>20, <1>21, <1>22, <1>23, <1>24, HandlerMoves

\* A handler makes the row of one user, unless the user mutes it or has it already.
LEMMA UserNotified ==
  ASSUME NotesInd, NEW w \in Workers, NEW u \in Users, N!Notify(w, u)
  PROVE NotesInd'
<1>1. PICK h : h = telling[w]
  OBVIOUS
<1>2. h \in Handlers /\ HandOK(h) /\ h.op \in Telling /\ u \in h.todo
        /\ UNCHANGED <<watchers, assignee, preference, rows, window, requests>>
        /\ watchers \subseteq Users /\ assignee \in Users \union {Nobody} /\ requests \in 0 .. MaxRequests
  BY <1>1, HandlerOfWorker DEF N!Notify, N!Notifying, Telling
<1>3. PICK e : e = h.event
  OBVIOUS
<1>4. u # h.actor /\ e \in N!NotificationEvent /\ h.actor \in Users /\ h.no \in 1 .. MaxRequests
        /\ window \in 0 .. MaxWindows
  BY <1>2, <1>3 DEF HandOK, HandSparesActor, HandIsKnown, Handlers, Telling, NotesInd, NotesTyped
<1>5. PICK row : row = [user |-> u, event |-> e, window |-> window, by |-> h.actor, request |-> h.no]
  OBVIOUS
<1>6. row \in RowRecords
  BY <1>4, <1>5 DEF RowRecords
<1>7. /\ \A x, f : Told(x, f)' = Told(x, f)
      /\ \A x, f : N!Mutes(x, f)' <=> N!Mutes(x, f)
      /\ \A x : MentionDone(x)' = MentionDone(x)
      /\ \A x, f : N!Known(x, f)' = N!Known(x, f)
  BY <1>2 DEF MentionDone, N!Mutes, Told, N!Known
<1>8. CASE N!RecentDuplicate(w, u)
  <2>1. PICK c : c = [h EXCEPT !.todo = @ \ {u}]
    OBVIOUS
  <2>2. telling' = [telling EXCEPT ![w] = c] /\ raced' = raced
    BY <1>1, <1>8, <2>1 DEF N!Notify, N!Becomes
  <2>3. /\ c.op = h.op /\ c.event = h.event /\ c.todo = h.todo \ {u} /\ c.pending = h.pending
        /\ c.defaults = h.defaults /\ c.owed = h.owed /\ c.mentioned = h.mentioned
        /\ c.actor = h.actor /\ c.no = h.no /\ c \in Handlers
    BY <1>2, <2>1 DEF Handlers
  <2>4. Told(u, e) \/ ToldSoon(h, u, e)
    BY <1>1, <1>3, <1>8 DEF N!RecentDuplicate, N!Fresh, Told, ToldSoon
  <2>5. HandOwes(c)'
    <3>1. h.op = "mention" => e = "mention_in_comment"
      BY <1>2, <1>3 DEF HandOK, HandHasEvent
    <3>2. \A x \in c.owed : x \in watchers' /\ x # c.actor /\ ~N!Mutes(x, Target(c))'
      BY <1>2, <1>7, <2>3 DEF HandOK, HandOwes, Target
    <3>3. c.op = "mention" => \A x \in c.owed \intersect c.mentioned :
            x \in c.todo \/ MentionDone(x)' \/ ToldSoon(c, x, "mention_in_comment")
      BY <1>2, <1>7, <2>3, <2>4, <3>1 DEF HandOK, HandOwes, MentionDone, ToldSoon
    <3>4. c.op \notin {"none", "mention"} => \A x \in c.owed \intersect c.mentioned : MentionDone(x)'
      BY <1>2, <1>7, <2>3 DEF HandOK, HandOwes
    <3>5. c.op = "notify" => \A x \in c.owed :
            x \in c.todo \/ x \in c.mentioned \/ Told(x, c.event)' \/ ToldSoon(c, x, c.event)
      BY <1>2, <1>3, <1>7, <2>3, <2>4 DEF HandOK, HandOwes, ToldSoon
    <3> QED
      BY <1>2, <2>3, <3>2, <3>3, <3>4, <3>5 DEF HandOwes, Target, ToldSoon, Telling
  <2>6. HandIsKnown(c)' /\ HandIsEmpty(c)' /\ HandSparesActor(c)' /\ HandTellsOnce(c)' /\ HandHasEvent(c)'
    BY <1>2, <1>7, <2>3 DEF HandOK, HandIsKnown, HandIsEmpty, HandSparesActor, HandTellsOnce, HandHasEvent,
      Telling
  <2>7. HandOK(c)'
    BY <2>5, <2>6 DEF HandOK
  <2> QED
    BY <1>1, <1>2, <2>2, <2>3, <2>7, HandlerStep
<1>9. CASE ~N!RecentDuplicate(w, u) /\ telling' = [telling EXCEPT ![w] = [h EXCEPT !.held = u]]
             /\ raced' = raced
  <2>1. PICK c : c = [h EXCEPT !.held = u]
    OBVIOUS
  <2>2. telling' = [telling EXCEPT ![w] = c]
    BY <1>9, <2>1
  <2>3. /\ c.op = h.op /\ c.event = h.event /\ c.todo = h.todo /\ c.pending = h.pending
        /\ c.defaults = h.defaults /\ c.owed = h.owed /\ c.mentioned = h.mentioned
        /\ c.actor = h.actor /\ c.no = h.no /\ c \in Handlers
    BY <1>2, <2>1 DEF Handlers
  <2>4. HandOwes(c)'
    <3>1. \A x \in c.owed : x \in watchers' /\ x # c.actor /\ ~N!Mutes(x, Target(c))'
      BY <1>2, <1>7, <2>3 DEF HandOK, HandOwes, Target
    <3>2. c.op = "mention" => \A x \in c.owed \intersect c.mentioned :
            x \in c.todo \/ MentionDone(x)' \/ ToldSoon(c, x, "mention_in_comment")
      BY <1>2, <1>7, <2>3 DEF HandOK, HandOwes, ToldSoon
    <3>3. c.op \notin {"none", "mention"} => \A x \in c.owed \intersect c.mentioned : MentionDone(x)'
      BY <1>2, <1>7, <2>3 DEF HandOK, HandOwes
    <3>4. c.op = "notify" => \A x \in c.owed :
            x \in c.todo \/ x \in c.mentioned \/ Told(x, c.event)' \/ ToldSoon(c, x, c.event)
      BY <1>2, <1>7, <2>3 DEF HandOK, HandOwes, ToldSoon
    <3> QED
      BY <1>2, <2>3, <3>1, <3>2, <3>3, <3>4 DEF HandOwes, Target, ToldSoon, Telling
  <2>5. HandIsKnown(c)' /\ HandIsEmpty(c)' /\ HandSparesActor(c)' /\ HandTellsOnce(c)' /\ HandHasEvent(c)'
    BY <1>2, <1>7, <2>3 DEF HandOK, HandIsKnown, HandIsEmpty, HandSparesActor, HandTellsOnce, HandHasEvent,
      Telling
  <2>6. HandOK(c)'
    BY <2>4, <2>5 DEF HandOK
  <2> QED
    BY <1>1, <1>2, <1>9, <2>2, <2>3, <2>6, HandlerStep
<1>10. CASE /\ ~N!RecentDuplicate(w, u)
            /\ \E defaults, pending : /\ telling' = [telling EXCEPT ![w] = [h EXCEPT !.todo = @ \ {u},
                                             !.defaults = defaults, !.pending = pending]]
                 /\ \/ defaults = h.defaults
                    \/ (defaults = h.defaults \union {<<u, e>>} /\ ~N!Known(u, e) /\ ~N!HeldBack(w, u))
                 /\ \/ (N!Mutes(u, e) /\ pending = h.pending)
                    \/ (~N!Mutes(u, e) /\ pending = h.pending \union {row})
            /\ raced \subseteq raced'
            /\ \A v \in Workers \ {w} : \A p \in telling[v].pending :
                 p.user = u /\ p.event = e => <<u, e>> \in raced'
  <2>1. PICK defaults, pending :
          /\ telling' = [telling EXCEPT ![w] = [h EXCEPT !.todo = @ \ {u},
                             !.defaults = defaults, !.pending = pending]]
          /\ \/ defaults = h.defaults
             \/ (defaults = h.defaults \union {<<u, e>>} /\ ~N!Known(u, e) /\ ~N!HeldBack(w, u))
          /\ \/ (N!Mutes(u, e) /\ pending = h.pending)
             \/ (~N!Mutes(u, e) /\ pending = h.pending \union {row})
    BY <1>10
  <2>2. PICK c : c = [h EXCEPT !.todo = @ \ {u}, !.defaults = defaults, !.pending = pending]
    OBVIOUS
  <2>3. telling' = [telling EXCEPT ![w] = c]
    BY <2>1, <2>2
  <2>4. /\ c.op = h.op /\ c.event = h.event /\ c.todo = h.todo \ {u} /\ c.pending = pending
        /\ c.defaults = defaults /\ c.owed = h.owed /\ c.mentioned = h.mentioned
        /\ c.actor = h.actor /\ c.no = h.no
    BY <1>2, <2>2 DEF Handlers
  <2>5. defaults \subseteq Users \X N!NotificationEvent /\ pending \subseteq RowRecords
    BY <1>2, <1>4, <1>6, <2>1 DEF Handlers
  <2>6. c \in Handlers
    BY <1>2, <2>2, <2>5 DEF Handlers
  <2>7. row.user = u /\ row.event = e /\ row.window = window /\ row.by = h.actor
    BY <1>5
  <2>8. \A p \in h.pending \union N!Fresh : ~(p.user = u /\ p.event = e)
    BY <1>1, <1>3, <1>10 DEF N!RecentDuplicate
  <2>9. N!Mutes(u, e) \/ ToldSoon(c, u, e)
    BY <2>1, <2>4, <2>7 DEF ToldSoon
  <2>10. \A x, f : ToldSoon(h, x, f) => ToldSoon(c, x, f)
    BY <2>1, <2>4 DEF ToldSoon
  <2>11. HandOwes(c)'
    <3>1. h.op = "mention" => e = "mention_in_comment"
      BY <1>2, <1>3 DEF HandOK, HandHasEvent
    <3>2. \A x \in h.owed : x \in watchers /\ x # h.actor /\ ~N!Mutes(x, Target(h))
      BY <1>2 DEF HandOK, HandOwes
    <3>3. \A x \in c.owed : x \in watchers' /\ x # c.actor /\ ~N!Mutes(x, Target(c))'
      BY <1>2, <1>7, <2>4, <3>2 DEF Target
    <3>4. c.op = "mention" => \A x \in c.owed \intersect c.mentioned :
            x \in c.todo \/ MentionDone(x)' \/ ToldSoon(c, x, "mention_in_comment")
      <4>1. h.op = "mention" => \A x \in h.owed \intersect h.mentioned :
              x \in h.todo \/ MentionDone(x) \/ ToldSoon(h, x, "mention_in_comment")
        BY <1>2 DEF HandOK, HandOwes
      <4>2. h.op = "mention" => MentionDone(u) \/ ToldSoon(c, u, "mention_in_comment")
        BY <2>9, <3>1 DEF MentionDone
      <4> QED
        BY <1>7, <2>4, <2>10, <4>1, <4>2
    <3>5. c.op \notin {"none", "mention"} => \A x \in c.owed \intersect c.mentioned : MentionDone(x)'
      BY <1>2, <1>7, <2>4 DEF HandOK, HandOwes
    <3>6. c.op = "notify" => \A x \in c.owed :
            x \in c.todo \/ x \in c.mentioned \/ Told(x, c.event)' \/ ToldSoon(c, x, c.event)
      <4>1. h.op = "notify" => \A x \in h.owed :
              x \in h.todo \/ x \in h.mentioned \/ Told(x, e) \/ ToldSoon(h, x, e)
        BY <1>2, <1>3 DEF HandOK, HandOwes
      <4>2. h.op = "notify" => Target(h) = e
        BY <1>2, <1>3 DEF HandOK, HandHasEvent, Target
      <4>3. h.op = "notify" /\ u \in h.owed => ToldSoon(c, u, e)
        BY <2>9, <3>2, <4>2
      <4> QED
        BY <1>3, <1>7, <2>4, <2>10, <4>1, <4>3
    <3> QED
      BY <1>2, <2>4, <3>3, <3>4, <3>5, <3>6 DEF HandOwes, Target, ToldSoon, Telling
  <2>12. HandIsKnown(c)' /\ HandIsEmpty(c)' /\ HandHasEvent(c)'
    BY <1>2, <2>4 DEF HandOK, HandIsKnown, HandIsEmpty, HandHasEvent
  <2>13. HandSparesActor(c)'
    BY <1>2, <1>4, <2>1, <2>4, <2>7 DEF HandOK, HandSparesActor
  <2>14. HandTellsOnce(c)'
    <3>1. \A p, q \in h.pending : p.user = q.user /\ p.event = q.event => p = q
      BY <1>2 DEF HandOK, HandTellsOnce
    <3>2. \A p, q \in pending : p.user = q.user /\ p.event = q.event => p = q
      BY <2>1, <2>7, <2>8, <3>1
    <3>3. \A d \in defaults : ~N!Known(d[1], d[2])
      BY <1>2, <2>1 DEF HandOK, HandTellsOnce
    <3>4. \A d \in c.defaults : ~N!Known(d[1], d[2])'
      BY <1>7, <2>4, <3>3
    <3> QED
      BY <2>4, <3>2, <3>4 DEF HandTellsOnce
  <2>15. HandOK(c)'
    BY <2>11, <2>12, <2>13, <2>14 DEF HandOK
  <2>16. \A v \in Workers \ {w} : c.defaults \intersect telling[v].defaults = {}
    <3>1. \A v \in Workers \ {w} : h.defaults \intersect telling[v].defaults = {}
      BY <1>1 DEF NotesInd, HandsApart, Apart
    <3>2. ~N!HeldBack(w, u) => \A v \in Workers \ {w} : <<u, e>> \notin telling[v].defaults
      BY <1>1, <1>3 DEF N!HeldBack
    <3> QED
      BY <2>1, <2>4, <3>1, <3>2
  <2>17. \A v \in Workers \ {w} : \A p \in c.pending, q \in telling[v].pending :
            p.user = q.user /\ p.event = q.event => <<p.user, p.event>> \in raced'
    <3>1. \A v \in Workers \ {w} : \A p \in h.pending, q \in telling[v].pending :
            p.user = q.user /\ p.event = q.event => <<p.user, p.event>> \in raced'
      BY <1>1, <1>10 DEF NotesInd, HandsApart, Apart
    <3> QED
      BY <1>10, <2>1, <2>4, <2>7, <3>1
  <2>18. \A p \in c.pending, r \in rows' : OneOrRaced(p, r)'
    <3>1. \A p \in h.pending, r \in rows : OneOrRaced(p, r)'
      BY <1>1, <1>10 DEF NotesInd, HandsAndRows, OneOrRaced
    <3>2. \A r \in rows : OneOrRaced(row, r)'
      BY <2>7, <2>8 DEF N!Fresh, OneOrRaced
    <3> QED
      BY <1>2, <2>1, <2>4, <3>1, <3>2
  <2>19. \A v \in Workers \ {w} : \A p \in telling[v].pending, r \in rows' : OneOrRaced(p, r)'
    BY <1>2, <1>10 DEF NotesInd, HandsAndRows, OneOrRaced
  <2>20. N!ToldOnce' /\ N!ActorsSpared'
    BY <1>2, <1>10 DEF NotesInd, N!ToldOnce, N!ActorsSpared
  <2>21. /\ rows \subseteq rows' /\ raced \subseteq raced' /\ rows' \subseteq RowRecords
         /\ preference' \subseteq Users \X N!NotificationEvent \X BOOLEAN
         /\ \A p, q \in preference' : p[1] = q[1] /\ p[2] = q[2] => p = q
    BY <1>2, <1>10 DEF NotesInd, NotesTyped, N!TypeOK, RowRecords
  <2>22. \A x \in Users, f \in N!NotificationEvent : N!Mutes(x, f)' <=> N!Mutes(x, f)
    BY <1>7
  <2>23. \A v \in Workers \ {w} : \A d \in telling[v].defaults : ~N!Known(d[1], d[2])'
    BY <1>7 DEF NotesInd, Hands, HandOK, HandTellsOnce
  <2> QED
    BY <1>2, <2>3, <2>6, <2>15, <2>16, <2>17, <2>18, <2>19, <2>20, <2>21, <2>22, <2>23, HandlerMoves
<1>11. \/ N!RecentDuplicate(w, u)
       \/ ~N!RecentDuplicate(w, u) /\ N!Becomes(w, [h EXCEPT !.held = u]) /\ raced' = raced
       \/ /\ ~N!RecentDuplicate(w, u)
          /\ \E new \in BOOLEAN :
               /\ new = (~N!Known(u, e) /\ <<u, e>> \notin h.defaults)
               /\ ~(new /\ N!HeldBack(w, u))
               /\ N!Becomes(w, [h EXCEPT !.todo = @ \ {u},
                    !.defaults = IF new THEN @ \union {<<u, e>>} ELSE @,
                    !.pending = IF N!Mutes(u, e) THEN @ ELSE @ \union {row}])
          /\ raced' = IF \E v \in Workers \ {w} : \E p \in telling[v].pending : p.user = u /\ p.event = e
                      THEN raced \union {<<u, e>>} ELSE raced
  BY <1>1, <1>3, <1>5 DEF N!Notify
<1>12. ASSUME ~N!RecentDuplicate(w, u), NEW new \in BOOLEAN,
              new = (~N!Known(u, e) /\ <<u, e>> \notin h.defaults), ~(new /\ N!HeldBack(w, u)),
              N!Becomes(w, [h EXCEPT !.todo = @ \ {u},
                    !.defaults = IF new THEN @ \union {<<u, e>>} ELSE @,
                    !.pending = IF N!Mutes(u, e) THEN @ ELSE @ \union {row}]),
              raced' = IF \E v \in Workers \ {w} : \E p \in telling[v].pending : p.user = u /\ p.event = e
                       THEN raced \union {<<u, e>>} ELSE raced
       PROVE NotesInd'
  <2>1. PICK defaults : defaults = IF new THEN h.defaults \union {<<u, e>>} ELSE h.defaults
    OBVIOUS
  <2>2. PICK pending : pending = IF N!Mutes(u, e) THEN h.pending ELSE h.pending \union {row}
    OBVIOUS
  <2>3. telling' = [telling EXCEPT ![w] = [h EXCEPT !.todo = @ \ {u}, !.defaults = defaults,
                                                    !.pending = pending]]
    BY <1>2, <1>12, <2>1, <2>2 DEF N!Becomes, Handlers
  <2>4. /\ \/ defaults = h.defaults
           \/ (defaults = h.defaults \union {<<u, e>>} /\ ~N!Known(u, e) /\ ~N!HeldBack(w, u))
        /\ \/ (N!Mutes(u, e) /\ pending = h.pending)
           \/ (~N!Mutes(u, e) /\ pending = h.pending \union {row})
    BY <1>12, <2>1, <2>2
  <2>5. raced \subseteq raced' /\ \A v \in Workers \ {w} : \A p \in telling[v].pending :
          p.user = u /\ p.event = e => <<u, e>> \in raced'
    BY <1>12
  <2> QED
    BY <1>10, <1>12, <2>3, <2>4, <2>5
<1> QED
  BY <1>8, <1>9, <1>11, <1>12 DEF N!Becomes


\* The invariant holds at the start.
LEMMA NotesInit == N!Init => NotesInd
<1> SUFFICES ASSUME N!Init PROVE NotesInd
  OBVIOUS
<1>1. /\ watchers \subseteq Users /\ assignee = Nobody /\ preference = {} /\ rows = {}
      /\ window = 0 /\ telling = [w \in Workers |-> N!Idle] /\ requests = 0 /\ raced = {}
  BY TrackerConstants DEF N!Init
<1>2. telling \in [Workers -> Handlers]
  BY <1>1, IdleHands
<1>3. NotesTyped
  <2>1. \A w \in Workers : telling[w].todo \subseteq Users
    BY <1>2 DEF Handlers
  <2>2. N!TypeOK
    BY <1>1, <2>1 DEF N!TypeOK
  <2> QED
    BY <1>1, <1>2, <2>2, TrackerConstants DEF NotesTyped
<1>4. \A w \in Workers : telling[w] = N!Idle
  BY <1>1
<1>5. Hands
  BY <1>4, IdleHands DEF Hands
<1>6. HandsApart /\ HandsAndRows
  BY <1>4, IdleHands DEF HandsApart, Apart, HandsAndRows
<1>7. N!ToldOnce /\ N!ActorsSpared
  BY <1>1 DEF N!ToldOnce, N!ActorsSpared
<1> QED
  BY <1>3, <1>5, <1>6, <1>7 DEF NotesInd

\* Every step of the machine keeps it.
LEMMA NotesNext == NotesInd /\ N!Next => NotesInd'
<1> SUFFICES ASSUME NotesInd, N!Next PROVE NotesInd'
  OBVIOUS
<1>1. ASSUME NEW w \in Workers, NEW a \in Members, NEW m \in N!Bodies,
             N!AddComment(w, a, m) \/ N!UpdateComment(w, a, m)
      PROVE NotesInd'
  BY <1>1, CommentAdded, CommentUpdated
<1>2. ASSUME NEW w \in Workers, NEW a \in Members, NEW e \in N!NotificationEvent, N!ChangeStatus(w, a, e)
      PROVE NotesInd'
  BY <1>2, BugStatusChanged
<1>3. ASSUME NEW w \in Workers, NEW a \in Members, NEW u \in Members \union {Nobody}, N!Assign(w, a, u)
      PROVE NotesInd'
  BY <1>3, BugAssigned
<1>4. ASSUME NEW w \in Workers, NEW a \in Members, N!Watch(w, a) \/ N!Unwatch(w, a)
      PROVE NotesInd'
  BY <1>4, WatcherJoins, WatcherLeaves
<1>5. ASSUME NEW w \in Workers, NEW u \in Members, NEW e \in N!Muted, N!SetPreference(w, u, e)
      PROVE NotesInd'
  BY <1>5, PreferenceSet
<1>6. ASSUME NEW w \in Workers, NEW u \in Users, N!Notify(w, u)
      PROVE NotesInd'
  BY <1>6, UserNotified
<1>7. ASSUME NEW w \in Workers,
             N!LookForWatcher(w) \/ N!InsertWatcher(w) \/ N!ReadWatchers(w) \/ N!ReadAssignee(w)
               \/ N!Refused(w) \/ N!Released(w) \/ N!Commit(w) \/ N!Answer(w)
      PROVE NotesInd'
  BY <1>7, HeldReleased, WatcherLookedFor, WatcherInserted, WatchersRead, AssigneeRead, HandlerEnds, UserCommitted
<1>8. ASSUME N!WindowEnds PROVE NotesInd'
  BY <1>8, WindowPasses
<1> QED
  BY <1>1, <1>2, <1>3, <1>4, <1>5, <1>6, <1>7, <1>8 DEF N!Next

\* So does every step of the specification.
LEMMA NotesStep == NotesInd /\ [Next]_vars => NotesInd'
<1>1. NotesInd /\ NotificationStep => NotesInd'
  BY NotesNext DEF NotificationStep
<1>2. NotesInd /\ (BugStep \/ ReportStep \/ SchemaStep \/ LinkStep \/ TicketStep \/ UNCHANGED vars) => NotesInd'
  BY NotesStill DEF BugStep, ReportStep, SchemaStep, LinkStep, TicketStep, trackerVars, vars
<1> QED
  BY <1>1, <1>2 DEF Next

\* So it holds in every state.
LEMMA NotesAlways == Spec => []NotesInd
<1>1. Init => NotesInd
  BY NotesInit DEF Init
<1> QED
  BY <1>1, NotesStep, PTL DEF Spec, vars

\* It is what NotificationsAgree needs.
LEMMA NotesIndHolds == NotesInd => N!NotificationsAgree
<1> SUFFICES ASSUME NotesInd PROVE N!NotificationsAgree
  OBVIOUS
<1>1. N!WatchersTold
  <2>1. SUFFICES ASSUME NEW w \in Workers, telling[w].op = "answered", NEW u \in telling[w].owed
                 PROVE \/ \E r \in N!Fresh : r.user = u /\ r.event = telling[w].event
                       \/ /\ u \in telling[w].mentioned
                          /\ \/ N!Mutes(u, "mention_in_comment")
                             \/ \E r \in N!Fresh : r.user = u /\ r.event = "mention_in_comment"
    BY DEF N!WatchersTold, N!Does
  <2>2. u \in telling[w].mentioned \/ Told(u, telling[w].event)
    BY <2>1 DEF NotesInd, Hands, HandOK, HandOwes
  <2>3. u \in telling[w].mentioned => MentionDone(u)
    BY <2>1 DEF NotesInd, Hands, HandOK, HandOwes
  <2> QED
    BY <2>2, <2>3 DEF MentionDone, Told, N!Fresh
<1> QED
  BY <1>1 DEF NotesInd, NotesTyped, N!NotificationsAgree

\* Whoever has watched the bug all the time is told of what happened to it by the time the
\* handler answers, once within the window but for a race, and never of what they did.
THEOREM WatchersAreTold == Spec => []NotificationsAgree
<1>1. NotesInd => NotificationsAgree
  BY NotesIndHolds DEF NotificationsAgree
<1> QED
  BY <1>1, NotesAlways, PTL
=============================================================================
