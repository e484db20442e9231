------------------------------ MODULE ApiTokens ------------------------------
(***************************************************************************)
(* The API tokens of a user and of a project (routers/tokens.py): who they *)
(* authenticate (auth/dependencies.py), their rotation and revocation, and *)
(* the script that purges the expired ones (services/token_purge.py).      *)
(*                                                                         *)
(* Secrets are numbered in the order they are generated.  A request reads  *)
(* the row it is about and writes it later; unless serial, others commit   *)
(* in between.                                                             *)
(***************************************************************************)
EXTENDS Naturals, FiniteSetsExt

CONSTANTS
  Workers,      \* the threads that serve requests, and the script
  Names,        \* names of tokens
  MaxRequests   \* bound: requests served in all

\* A token of the user, or of the project and created by the user.
Scopes == {"user", "project"}

VARIABLES
  serial,   \* requests are served one at a time
  tokens,   \* table api_tokens: rows [id, name, scope, hash, last_used_at, expires]
  active,   \* the user is active and not deleted
  owner,    \* the user owns the project
  req,      \* what each worker is about to write
  requests, \* requests begun so far
  secrets,  \* secrets generated so far
  opened,   \* history: the secrets that have authenticated a request
  shut      \* history: ids of the tokens revoked or purged

vars == <<serial, tokens, active, owner, req, requests, secrets, opened, shut>>

Idle == [op |-> "none", ids |-> {}, name |-> "none", scope |-> "user", expires |-> "never",
         used |-> FALSE]

\* last_used_at: never, a minute ago or more, or less.  expires: never, some day, or it has.
Tokens ==
  [id : 1 .. MaxRequests, name : Names, scope : Scopes, hash : 1 .. MaxRequests,
   last_used_at : {"never", "old", "recent"}, expires : {"never", "later", "expired"}]

TypeOK ==
  /\ tokens \subseteq Tokens
  /\ \A t, u \in tokens : t.id = u.id \/ t.hash = u.hash => t = u
  /\ requests \in 0 .. MaxRequests /\ secrets \in 0 .. requests
  /\ opened \subseteq 1 .. secrets

Init ==
  /\ serial \in BOOLEAN
  /\ tokens = {} /\ secrets = 0
  /\ active = TRUE /\ owner = TRUE
  /\ req = [w \in Workers |-> Idle] /\ requests = 0
  /\ opened = {} /\ shut = {}

Serve(w) ==
  /\ req[w] = Idle /\ requests < MaxRequests
  /\ serial => \A v \in Workers : req[v] = Idle
  /\ requests' = requests + 1

Does(w, op) == req[w].op = op
Ends(w) == req' = [req EXCEPT ![w] = Idle]
Begins(w, r) ==
  req' = [req EXCEPT ![w] = r] /\ UNCHANGED <<serial, tokens, active, owner, secrets, opened, shut>>

\* The rows a request about token t finds: require_project_owner for those of a project.
Manages(scope) == active /\ (scope = "project" => owner)

Rows(ids) == {t \in tokens : t.id \in ids}

\* db.commit with rows changed: an UPDATE of a row that is gone raises StaleDataError.
Replace(old, new) == tokens' = (tokens \ old) \union new

-----------------------------------------------------------------------------
(* get_auth_context with an API key.                                       *)
Opens(secret) ==
  \E t \in tokens : t.hash = secret /\ t.expires # "expired" /\ active

\* The request is let in at once; _record_token_use writes at most once a minute.
Authenticate(w, t) ==
  /\ Serve(w)
  /\ Opens(t.hash)
  /\ opened' = opened \union {t.hash}
  /\ req' = IF t.last_used_at = "recent" THEN req
            ELSE [req EXCEPT ![w] = [Idle EXCEPT !.op = "use", !.ids = {t.id}]]
  /\ UNCHANGED <<serial, tokens, active, owner, secrets, shut>>

RecordUse(w) ==
  LET rows == Rows(req[w].ids)
  IN
  /\ Does(w, "use")
  /\ Replace(rows, {[t EXCEPT !.last_used_at = "recent"] : t \in rows})
  /\ Ends(w)
  /\ UNCHANGED <<serial, active, owner, requests, secrets, opened, shut>>

-----------------------------------------------------------------------------
(* create_user_token and create_project_token.                             *)
Clash(name, scope) == \E t \in tokens : t.name = name /\ t.scope = scope

BeginCreate(w, name, scope, expires) ==
  /\ Serve(w)
  /\ Manages(scope) /\ ~Clash(name, scope)
  /\ Begins(w, [Idle EXCEPT !.op = "create", !.name = name, !.scope = scope, !.expires = expires])

\* The unique constraints refuse a name that was taken since.
CommitCreate(w) ==
  LET r == req[w]
  IN
  /\ Does(w, "create")
  /\ secrets' = secrets + 1
  /\ IF Clash(r.name, r.scope) THEN UNCHANGED tokens
     ELSE Replace({}, {[id |-> secrets + 1, name |-> r.name, scope |-> r.scope,
                        hash |-> secrets + 1, last_used_at |-> "never", expires |-> r.expires]})
  /\ Ends(w)
  /\ UNCHANGED <<serial, active, owner, requests, opened, shut>>

(* rotate_user_token and rotate_project_token.                             *)
BeginRotate(w, t) ==
  /\ Serve(w)
  /\ Manages(t.scope)
  /\ Begins(w, [Idle EXCEPT !.op = "rotate", !.ids = {t.id}, !.name = t.name, !.scope = t.scope,
                            !.used = (t.last_used_at # "never")])

\* _rotate_token: the expiry stays, and last_used_at is cleared if it was read set.
Renewed(t, used) ==
  [t EXCEPT !.hash = secrets + 1, !.last_used_at = IF used THEN "never" ELSE @]

\* Mutant: the token is merged, which inserts the row again when it is gone.
MergesRow(w) ==
  LET r == req[w]  rows == Rows(r.ids)
      fresh == {[id |-> CHOOSE i \in r.ids : TRUE, name |-> r.name, scope |-> r.scope,
                 hash |-> secrets + 1, last_used_at |-> "never", expires |-> "never"]}
  IN
  /\ Does(w, "rotate")
  /\ secrets' = secrets + 1
  /\ Replace(rows, IF rows = {} THEN fresh ELSE {Renewed(t, r.used) : t \in rows})
  /\ Ends(w)
  /\ UNCHANGED <<serial, active, owner, requests, opened, shut>>

CommitRotate(w) ==
  LET rows == Rows(req[w].ids)
  IN
  /\ Does(w, "rotate")
  /\ secrets' = secrets + 1
  /\ Replace(rows, {Renewed(t, req[w].used) : t \in rows})
  /\ Ends(w)
  /\ UNCHANGED <<serial, active, owner, requests, opened, shut>>

(* revoke_user_token and revoke_project_token.                             *)
BeginRevoke(w, t) ==
  /\ Serve(w)
  /\ Manages(t.scope)
  /\ Begins(w, [Idle EXCEPT !.op = "delete", !.ids = {t.id}])

\* purge_expired_tokens, without dry_run.
BeginPurge(w) ==
  /\ Serve(w)
  /\ \E t \in tokens : t.expires = "expired"
  /\ Begins(w, [Idle EXCEPT !.op = "delete", !.ids = {t.id : t \in {u \in tokens : u.expires = "expired"}}])

\* A DELETE of a row that is gone only warns.
CommitDelete(w) ==
  /\ Does(w, "delete")
  /\ Replace(Rows(req[w].ids), {})
  /\ shut' = shut \union req[w].ids
  /\ Ends(w)
  /\ UNCHANGED <<serial, active, owner, requests, secrets, opened>>

-----------------------------------------------------------------------------
(* Time, and what admins and owners do to the user.                        *)
Expire(t) ==
  /\ t.expires = "later"
  /\ Replace({t}, {[t EXCEPT !.expires = "expired"]})
  /\ UNCHANGED <<serial, active, owner, req, requests, secrets, opened, shut>>

MinutePasses(t) ==
  /\ t.last_used_at = "recent"
  /\ Replace({t}, {[t EXCEPT !.last_used_at = "old"]})
  /\ UNCHANGED <<serial, active, owner, req, requests, secrets, opened, shut>>

ChangeUser ==
  /\ requests < MaxRequests
  /\ \/ active' = ~active /\ UNCHANGED owner
     \/ owner' = ~owner /\ UNCHANGED active
  /\ UNCHANGED <<serial, tokens, req, requests, secrets, opened, shut>>

Next ==
  \/ \E w \in Workers :
       \/ \E n \in Names, s \in Scopes, e \in {"never", "later"} : BeginCreate(w, n, s, e)
       \/ \E t \in tokens : Authenticate(w, t) \/ BeginRotate(w, t) \/ BeginRevoke(w, t)
       \/ RecordUse(w) \/ CommitCreate(w) \/ CommitRotate(w) \/ BeginPurge(w) \/ CommitDelete(w)
  \/ \E t \in tokens : Expire(t) \/ MinutePasses(t)
  \/ ChangeUser

Spec == Init /\ [][Next]_vars

-----------------------------------------------------------------------------
\* Two tokens of a user, or of a project, differ in name, however creations overlap.
NamesDiffer == \A t, u \in tokens : t.name = u.name /\ t.scope = u.scope => t = u

\* A token that was revoked or purged never opens again, whatever was rotating it.
RevokedStaysShut == \A t \in tokens : t.id \notin shut

\* Served one at a time, last_used_at is of the secret the token has.
LastUseIsOfSecret == serial => \A t \in tokens : t.last_used_at # "never" => t.hash \in opened

TokensAgree == TypeOK /\ NamesDiffer /\ RevokedStaysShut /\ LastUseIsOfSecret
=============================================================================
