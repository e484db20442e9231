------------------------------- MODULE MCCatalog -------------------------------
(* What a project keeps: suites, cases, custom fields, environments and the   *)
(* files of attachments.  None of these machines writes what another reads:   *)
(* each behaviour is one of them, and the others stay as they start.          *)
EXTENDS Naturals, FiniteSets, TLC

CONSTANTS Workers, Names, MaxSuites, SuiteRequests, Texts, MaxCases, MaxSteps, Options, Rows,
  Slugs, MaxEnvironments, Owners, MaxFiles, FileRequests, MaxRequests

ASSUME CatalogBounds ==
  /\ MaxRequests \in Nat /\ MaxFiles \in Nat /\ MaxEnvironments \in Nat
  /\ SuiteRequests \in Nat /\ MaxSuites \in Nat \ {0, 1}
  /\ MaxCases \in Nat /\ MaxSteps \in Nat \ {0}

VARIABLES part, serial, requests,
  suites, live, created, moving, moves, overlapped,
  cases, revisions, plan, made, untold, unscoped,
  dialect, entity, type, field, value, exists, elsewhere, loose, cleared,
  env, auto, used, version, editing, inserted, clashed, stray,
  owners, rows, disk, archive, handling, written, died, torn

suiteVars == <<suites, live, created, moving, moves, overlapped>>
caseVars == <<cases, revisions, plan, made, untold, unscoped>>
fieldVars == <<dialect, entity, type, field, value, exists, elsewhere, loose, cleared>>
environmentVars == <<env, auto, used, version, editing, inserted, clashed, stray>>
fileVars == <<owners, rows, disk, archive, handling, written, died, torn>>

S == INSTANCE SuiteTree WITH made <- created, req <- moving, MaxRequests <- SuiteRequests
C == INSTANCE CaseHistory
F == INSTANCE CustomFields
E == INSTANCE Environments WITH made <- inserted, req <- editing, MaxRows <- MaxEnvironments
A == INSTANCE AttachmentFiles WITH req <- handling, MaxRequests <- FileRequests

\* A part that stays as it starts starts in one way.  The dialects differ in the deletion of
\* a field, which is refused on both when another project has values for it.
Init ==
  /\ part \in {"suites", "cases", "fields", "environments", "files"}
  /\ S!Init /\ C!Init /\ F!Init /\ E!Init /\ A!Init
  /\ part # "suites" => Cardinality({s.name : s \in suites}) = 1
  /\ part \in {"cases", "fields"} => serial
  /\ part # "fields" =>
       dialect = "postgresql" /\ entity = "bug" /\ type = "single_select" /\ elsewhere = {}
  /\ elsewhere # {} => dialect = "postgresql"
  /\ part # "environments" => auto

SuiteStep ==
  /\ part = "suites" /\ S!Next
  /\ UNCHANGED <<part, caseVars, fieldVars, environmentVars, fileVars>>
CaseStep ==
  /\ part = "cases" /\ C!Next
  /\ UNCHANGED <<part, serial, suiteVars, fieldVars, environmentVars, fileVars>>
FieldStep ==
  /\ part = "fields" /\ F!Next
  /\ UNCHANGED <<part, serial, suiteVars, caseVars, environmentVars, fileVars>>
EnvironmentStep ==
  /\ part = "environments" /\ E!Next
  /\ UNCHANGED <<part, suiteVars, caseVars, fieldVars, fileVars>>
FileStep ==
  /\ part = "files" /\ A!Next
  /\ UNCHANGED <<part, suiteVars, caseVars, fieldVars, environmentVars>>

Next == SuiteStep \/ CaseStep \/ FieldStep \/ EnvironmentStep \/ FileStep

Spec ==
  Init /\ [][Next]_<<part, serial, requests, suiteVars, caseVars, fieldVars, environmentVars, fileVars>>

MCSymmetry ==
  UNION {Permutations(s) : s \in {Workers, Names, Texts, Options}}

-----------------------------------------------------------------------------
\* The tree of suites holds together, and the history of a case tells its changes.
SuitesAndCasesHold ==
  /\ part = "suites" => S!TreeHolds
  /\ part = "cases" => C!CasesHold
\* Rows hold values that the definitions of custom fields allow.
FieldsHold == part = "fields" => F!FieldsHold
\* A project has one default environment, executions name environments that are there,
\* and released versions have a date.
EnvironmentsHold == part = "environments" => E!EnvironmentsHold
\* Rows of attachments have their files, in the uploads and in backups, and files their rows.
FilesHold == part = "files" => A!FilesHold
=============================================================================
