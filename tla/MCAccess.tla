------------------------------- MODULE MCAccess -------------------------------
(* The members of a project, the password of a user, the API tokens and the   *)
(* public links share no rows that any of them writes: each behaviour is one  *)
(* of these machines, and the others stay as they start.                      *)
EXTENDS Naturals, FiniteSets, TLC

CONSTANTS Workers, Users, Nobody, Admins, MaxRows, MAX_FAILED_LOGINS, Names, MaxRequests,
  Executions, Versions, MaxLinks, LinkTime

ASSUME AccessAssumption == Admins \subseteq Users /\ Nobody \notin Users
ASSUME FailuresAssumption == MAX_FAILED_LOGINS \in Nat \ {0}
ASSUME BoundsAssumption == MaxRequests \in Nat /\ MaxRows \in Nat \ {0} /\ LinkTime \in Nat

VARIABLES part, serial, requests,
  account, project, members, made, team, grant, changes, let_go,
  now, user, set_so_far, sessions, links, ip, attempts, failed, confirmed,
  tokens, active, owner, uses, secrets, opened, shut,
  clock, executions, versions, reports, viewing, issued, closed, shown

accessVars == <<account, project, members, made, team, grant, changes, let_go>>
credentialVars ==
  <<now, user, set_so_far, sessions, links, ip, attempts, failed, confirmed>>
tokenVars == <<tokens, active, owner, uses, secrets, opened, shut>>
linkVars == <<clock, executions, versions, reports, viewing, issued, closed, shown>>

A == INSTANCE ProjectAccess WITH req <- changes
C == INSTANCE Credentials WITH req <- attempts
T == INSTANCE ApiTokens WITH req <- uses
L == INSTANCE PublicLinks WITH None <- Nobody, MaxTime <- LinkTime, now <- clock, links <- reports, req <- viewing

Init ==
  /\ part \in {"access", "credentials", "tokens", "links"}
  /\ A!Init /\ C!Init /\ T!Init /\ L!Init
  /\ part # "access" => team = {} /\ \E r \in members : r.user \in Admins

AccessStep == part = "access" /\ A!Next /\ UNCHANGED <<part, credentialVars, tokenVars, linkVars>>
CredentialStep == part = "credentials" /\ C!Next /\ UNCHANGED <<part, accessVars, tokenVars, linkVars>>
TokenStep == part = "tokens" /\ T!Next /\ UNCHANGED <<part, accessVars, credentialVars, linkVars>>
LinkStep ==
  part = "links" /\ L!Next /\ UNCHANGED <<part, accessVars, credentialVars, tokenVars>>
Next == AccessStep \/ CredentialStep \/ TokenStep \/ LinkStep

Spec == Init /\ [][Next]_<<part, serial, requests, accessVars, credentialVars, tokenVars, linkVars>>

MCSymmetry == Permutations(Workers) \union Permutations(Users \ Admins)

-----------------------------------------------------------------------------
\* A project keeps an owner and one row per member, and lists where it opens.
AccessAgrees == A!AccessAgrees
\* Sessions end with the password they began with, a reset link works once, and
\* failed logins are counted and every lock is earned.
CredentialsAgree == C!CredentialsAgree
\* A revoked or purged token never opens again; the last use of a token is of its secret.
TokensAgree == T!TokensAgree
\* A revoked link stays revoked, a link shows what it was issued for, and its views are
\* counted.
LinksAreBounded == L!LinksAreBounded
\* The manual: a token reads the one resource it was issued for.
TokensKeepToTheirResource == L!TokensKeepToTheirResource
=============================================================================
