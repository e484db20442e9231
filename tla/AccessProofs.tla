----------------------------- MODULE AccessProofs -----------------------------
(***************************************************************************)
(* Theorems about who is let in: members and owners, API tokens, public    *)
(* links, and sessions, passwords and reset links, as MCAccess puts them   *)
(* next to each other.                                                     *)
(***************************************************************************)
EXTENDS MCAccess, FiniteSetTheorems, TLAPS

USE BoundsAssumption
-----------------------------------------------------------------------------
(* The bound on requests is shared.                                        *)

Counted ==
  /\ serial' = serial
  /\ requests \in 0 .. MaxRequests => requests' \in 0 .. MaxRequests /\ requests <= requests'

LEMMA AccessCounts == A!Next => Counted
<1> SUFFICES ASSUME A!Next PROVE Counted
  OBVIOUS
<1>1. ASSUME NEW w \in Workers, NEW by, NEW r, A!Begin(w, by, r) PROVE Counted
  BY <1>1 DEF A!Begin, A!Serve, Counted
<1>2. ASSUME NEW w \in Workers, NEW by \in Users, NEW u \in Users, NEW role \in A!VALID_ROLES,
             A!AddMember(w, by, u, role) \/ A!UpdateMember(w, by, u, role) \/ A!RemoveMember(w, by, u)
      PROVE  Counted
  BY <1>1, <1>2 DEF A!AddMember, A!UpdateMember, A!RemoveMember
<1>3. ASSUME NEW w \in Workers, NEW by \in Users, NEW u \in Users, A!TransferOwnership(w, by, u)
      PROVE  Counted
  BY <1>1, <1>3 DEF A!TransferOwnership
<1>4. ASSUME NEW w \in Workers, NEW by \in Users,
             A!ArchiveProject(w, by) \/ A!UnarchiveProject(w, by) \/ A!DeleteProject(w, by)
      PROVE  Counted
  BY <1>1, <1>4 DEF A!ArchiveProject, A!UnarchiveProject, A!DeleteProject
<1>5. ASSUME NEW w \in Workers, NEW u \in Users, NEW state, NEW role,
             A!SetGrant(w, u, role) \/ A!DeleteUser(w, u) \/ A!SetTeam(w, u) \/ A!SetAccount(w, u, state)
      PROVE  Counted
  <2>1. A!Serve(w) /\ serial' = serial
    BY <1>5, Zenon DEF A!SetGrant, A!DeleteUser, A!SetTeam, A!SetAccount
  <2> QED
    BY <2>1 DEF A!Serve, Counted
<1>6. ASSUME NEW w \in Workers, A!Commit(w) PROVE Counted
  BY <1>6 DEF A!Commit, Counted
<1>7. ASSUME NEW w \in Workers, NEW by \in Users, NEW u \in Users, A!RemoveMember(w, by, u)
      PROVE  Counted
  BY <1>1, <1>7 DEF A!RemoveMember
<1> QED
  BY <1>2, <1>3, <1>4, <1>5, <1>6, <1>7 DEF A!Next

LEMMA CredentialsCount == C!Next => Counted
<1> SUFFICES ASSUME C!Next PROVE Counted
  OBVIOUS
<1>1. ASSUME NEW w \in Workers, NEW yes \in BOOLEAN, NEW p,
             C!BeginLogin(w, p, yes) \/ C!LoginUnknown(w, yes)
      PROVE  Counted
  BY <1>1 DEF C!BeginLogin, C!LoginUnknown, C!Serve, Counted
<1>2. ASSUME NEW w \in Workers, NEW op, NEW link, C!BeginSet(w, op, link) PROVE Counted
  BY <1>2 DEF C!BeginSet, C!Serve, Counted
<1>3. ASSUME NEW w \in Workers,
             C!ChangeMyPassword(w) \/ C!AdminResetsPassword(w) \/ C!AdminSetsPassword(w)
               \/ \E l \in links : C!ConfirmReset(w, l)
      PROVE  Counted
  BY <1>2, <1>3 DEF C!ChangeMyPassword, C!AdminResetsPassword, C!AdminSetsPassword, C!ConfirmReset
<1>4. ASSUME NEW w \in Workers, NEW yes \in BOOLEAN,
             C!LockIp(w, yes) \/ C!ClearIp(w, yes)
               \/ \E counted \in BOOLEAN : C!RegisterIpFailure(w, counted, yes)
      PROVE  Counted
  BY <1>4 DEF C!LockIp, C!ClearIp, C!RegisterIpFailure, Counted
<1>5. ASSUME NEW w \in Workers,
             C!RegisterFailure(w) \/ C!ClearLockout(w) \/ C!IssueToken(w) \/ C!CommitPassword(w)
               \/ C!Unlock(w) \/ C!CommitLink(w)
      PROVE  Counted
  BY <1>5 DEF C!RegisterFailure, C!ClearLockout, C!IssueToken, C!CommitPassword, C!Unlock, C!CommitLink,
    Counted
<1>6. ASSUME \/ C!SetActive \/ C!LocksEnd \/ C!IpForgotten(0) \/ C!IpForgotten(ip.locked)
             \/ \E l \in links : C!LinkExpires(l)
      PROVE  Counted
  BY <1>6 DEF C!SetActive, C!LocksEnd, C!IpForgotten, C!LinkExpires, Counted
<1>7. ASSUME NEW w \in Workers, C!RequestReset(w) PROVE Counted
  BY <1>7 DEF C!RequestReset, C!Serve, Counted
<1> QED
  BY <1>1, <1>3, <1>4, <1>5, <1>6, <1>7 DEF C!Next

LEMMA TokensCount == T!Next => Counted
<1> SUFFICES ASSUME T!Next PROVE Counted
  OBVIOUS
<1>1. ASSUME NEW w \in Workers, T!Serve(w), serial' = serial PROVE Counted
  BY <1>1 DEF T!Serve, Counted
<1>2. ASSUME NEW w \in Workers,
             \/ \E n \in Names, s \in T!Scopes, e \in {"never", "later"} : T!BeginCreate(w, n, s, e)
             \/ \E t \in tokens : T!Authenticate(w, t) \/ T!BeginRotate(w, t) \/ T!BeginRevoke(w, t)
             \/ T!BeginPurge(w)
      PROVE  Counted
  BY <1>1, <1>2 DEF T!BeginCreate, T!Authenticate, T!BeginRotate, T!BeginRevoke, T!BeginPurge, T!Begins
<1>3. ASSUME NEW w \in Workers,
             T!RecordUse(w) \/ T!CommitCreate(w) \/ T!CommitRotate(w) \/ T!CommitDelete(w)
      PROVE  Counted
  BY <1>3 DEF T!RecordUse, T!CommitCreate, T!CommitRotate, T!CommitDelete, Counted
<1>4. ASSUME T!ChangeUser \/ \E t \in tokens : T!Expire(t) \/ T!MinutePasses(t) PROVE Counted
  <2>1. serial' = serial /\ requests' = requests
    BY <1>4, Zenon DEF T!ChangeUser, T!Expire, T!MinutePasses
  <2> QED
    BY <2>1 DEF Counted
<1> QED
  BY <1>2, <1>3, <1>4 DEF T!Next

LEMMA LinksCount == L!Next => Counted
<1> SUFFICES ASSUME L!Next PROVE Counted
  OBVIOUS
<1>1. ASSUME NEW w \in Workers, L!Serve(w), serial' = serial PROVE Counted
  BY <1>1 DEF L!Serve, Counted
<1>2. ASSUME L!Serves PROVE Counted
  BY <1>2 DEF L!Serves, Counted
<1>3. ASSUME NEW w \in Workers, NEW l, L!BeginRevoke(w, l) \/ L!Lookup(w, l) PROVE Counted
  BY <1>1, <1>3 DEF L!BeginRevoke, L!Lookup, L!Begins
<1>4. ASSUME NEW w \in Workers, L!CommitRevoke(w) \/ L!Render(w) \/ L!CommitView(w) PROVE Counted
  BY <1>4 DEF L!CommitRevoke, L!Render, L!CommitView, L!Ends, Counted
<1>5. ASSUME NEW kind, NEW e, NEW v, NEW expires,
             L!Issue(kind, e, v, expires) \/ L!DeleteExecution(e) \/ L!DeleteVersion(v)
      PROVE  Counted
  BY <1>2, <1>5 DEF L!Issue, L!DeleteExecution, L!DeleteVersion
<1>6. ASSUME L!Tick PROVE Counted
  BY <1>6 DEF L!Tick, Counted
<1>7. ASSUME NEW e, L!DeleteExecution(e) \/ L!DeleteVersion(e) PROVE Counted
  BY <1>2, <1>7 DEF L!DeleteExecution, L!DeleteVersion
<1> QED
  BY <1>3, <1>4, <1>5, <1>6, <1>7 DEF L!Next

allVars == <<part, serial, requests, accessVars, credentialVars, tokenVars, linkVars>>

\* Each step is of one machine, and leaves the variables of the others.
LEMMA OneMachine ==
  [Next]_allVars =>
    /\ Counted
    /\ [A!Next]_accessVars /\ [C!Next]_credentialVars /\ [T!Next]_tokenVars /\ [L!Next]_linkVars
<1> SUFFICES ASSUME [Next]_allVars
             PROVE  /\ Counted
                    /\ [A!Next]_accessVars /\ [C!Next]_credentialVars /\ [T!Next]_tokenVars
                    /\ [L!Next]_linkVars
  OBVIOUS
<1>1. CASE UNCHANGED allVars
  BY <1>1 DEF allVars, Counted
<1>2. CASE Next
  BY <1>2, AccessCounts, CredentialsCount, TokensCount, LinksCount
    DEF Next, AccessStep, CredentialStep, TokenStep, LinkStep
<1> QED
  BY <1>1, <1>2

-----------------------------------------------------------------------------
(* API tokens.                                                             *)

\* Secrets and ids are numbered as they are made, and a token that was shut is gone.
RowsHold ==
  /\ tokens \subseteq T!Tokens
  /\ \A t, u \in tokens : t.id = u.id \/ t.hash = u.hash => t = u
  /\ \A t \in tokens : t.id <= secrets /\ t.hash <= secrets
  /\ shut \subseteq 1 .. secrets /\ opened \subseteq 1 .. secrets
  /\ T!NamesDiffer
  /\ T!RevokedStaysShut

\* Each request makes at most one secret, when it commits.
Minting == {w \in Workers : uses[w].op \in {"create", "rotate"}}
CountsHold ==
  /\ requests \in 0 .. MaxRequests /\ secrets \in Nat
  /\ IsFiniteSet(Minting) /\ secrets + Cardinality(Minting) <= requests

\* What a request is about to write.
Writes ==
  [op : {"none", "use", "create", "rotate", "delete"}, ids : SUBSET (1 .. secrets),
   name : Names \union {"none"}, scope : T!Scopes, expires : {"never", "later"},
   used : BOOLEAN]

\* Served one at a time, what a request has read of its token is still so.
UseHolds(r) ==
  /\ r \in Writes
  /\ r.op = "create" => r.name \in Names
  /\ r.op = "rotate" => \E i \in 1 .. secrets : r.ids = {i}
  /\ serial /\ r.op = "use" => \A t \in tokens : t.id \in r.ids => t.hash \in opened
  /\ serial /\ r.op = "rotate" =>
       \A t \in tokens : t.id \in r.ids /\ t.last_used_at # "never" => r.used

UsesHold ==
  /\ uses = [w \in Workers |-> uses[w]]
  /\ \A w \in Workers : UseHolds(uses[w])

OneUse == serial => \A v, w \in Workers : uses[v] # T!Idle /\ uses[w] # T!Idle => v = w

TokensHold == RowsHold /\ CountsHold /\ UsesHold /\ OneUse /\ T!LastUseIsOfSecret

LEMMA TokensHoldAgree == TokensHold => T!TokensAgree
<1> SUFFICES ASSUME TokensHold PROVE T!TokensAgree
  OBVIOUS
<1>1. Cardinality(Minting) \in Nat
  BY FS_CardinalityType DEF TokensHold, CountsHold
<1>2. secrets \in 0 .. requests
  BY <1>1 DEF TokensHold, CountsHold
<1>3. T!TypeOK
  BY <1>2 DEF TokensHold, RowsHold, CountsHold, T!TypeOK
<1> QED
  BY <1>3 DEF TokensHold, RowsHold, T!TokensAgree

LEMMA TokensInit == T!Init => TokensHold
<1> SUFFICES ASSUME T!Init PROVE TokensHold
  OBVIOUS
<1> USE DEF T!Init
<1>1. RowsHold /\ T!LastUseIsOfSecret
  BY DEF RowsHold, T!NamesDiffer, T!RevokedStaysShut, T!LastUseIsOfSecret
<1>2. CountsHold
  <2>1. Minting = {}
    BY DEF Minting, T!Idle
  <2> QED
    BY <2>1, FS_EmptySet DEF CountsHold
<1>3. T!Idle \in Writes
  BY DEF T!Idle, Writes, T!Scopes
<1>4. UsesHold /\ OneUse
  <2>1. \A w \in Workers : uses[w] = T!Idle
    OBVIOUS
  <2>2. UseHolds(T!Idle)
    BY <1>3 DEF UseHolds, T!Idle
  <2>3. uses = [w \in Workers |-> uses[w]]
    OBVIOUS
  <2> QED
    BY <2>1, <2>2, <2>3 DEF UsesHold, OneUse
<1> QED
  BY <1>1, <1>2, <1>4 DEF TokensHold

\* A request that begins may come to make a secret, and one that ends has made it.
LEMMA MintingChanges ==
  ASSUME CountsHold, UsesHold, NEW w \in Workers, NEW r, uses' = [uses EXCEPT ![w] = r]
  PROVE  /\ IsFiniteSet(Minting') /\ Cardinality(Minting') \in Nat /\ Cardinality(Minting) \in Nat
         /\ Cardinality(Minting') <= Cardinality(Minting) + 1
         /\ r.op \notin {"create", "rotate"} => Cardinality(Minting') <= Cardinality(Minting)
         /\ r.op \notin {"create", "rotate"} /\ w \in Minting =>
              Cardinality(Minting') + 1 <= Cardinality(Minting)
<1>1. \A v \in Workers : uses'[v] = IF v = w THEN r ELSE uses[v]
  BY Zenon DEF UsesHold
<1>2. IsFiniteSet(Minting) /\ Cardinality(Minting) \in Nat
  BY FS_CardinalityType DEF CountsHold
<1>3. CASE r.op \in {"create", "rotate"}
  <2>1. Minting' = Minting \union {w}
    BY <1>1, <1>3 DEF Minting
  <2>2. /\ IsFiniteSet(Minting \union {w})
        /\ Cardinality(Minting \union {w}) =
             IF w \in Minting THEN Cardinality(Minting) ELSE Cardinality(Minting) + 1
    BY <1>2, FS_AddElement
  <2> QED
    BY <1>2, <1>3, <2>1, <2>2
<1>4. CASE r.op \notin {"create", "rotate"}
  <2>1. Minting' = Minting \ {w}
    BY <1>1, <1>4 DEF Minting
  <2>2. Cardinality(Minting \ {w}) = IF w \in Minting THEN Cardinality(Minting) - 1 ELSE Cardinality(Minting)
    BY <1>2, FS_RemoveElement
  <2>3. IsFiniteSet(Minting \ {w})
    BY <1>2, FS_RemoveElement
  <2> QED
    BY <1>2, <1>4, <2>1, <2>2, <2>3, FS_CardinalityType
<1> QED
  BY <1>3, <1>4

\* A request begins, having let a secret in or not.
LEMMA BeginHolds ==
  ASSUME TokensHold, NEW w \in Workers, T!Serve(w), NEW r, uses' = [uses EXCEPT ![w] = r],
         UseHolds(r)', opened \subseteq opened', opened' \subseteq 1 .. secrets,
         UNCHANGED <<serial, tokens, secrets, shut>>
  PROVE  TokensHold'
<1> USE DEF TokensHold
<1>1. \A v \in Workers : uses'[v] = IF v = w THEN r ELSE uses[v]
  BY Zenon DEF UsesHold
<1>2. RowsHold'
  BY DEF RowsHold, T!NamesDiffer, T!RevokedStaysShut
<1>3. CountsHold'
  <2>1. IsFiniteSet(Minting') /\ Cardinality(Minting') \in Nat /\ Cardinality(Minting) \in Nat
        /\ Cardinality(Minting') <= Cardinality(Minting) + 1
    BY MintingChanges
  <2>2. requests' = requests + 1 /\ requests < MaxRequests
    BY DEF T!Serve
  <2> QED
    BY <2>1, <2>2 DEF CountsHold
<1>4. UsesHold'
  <2>1. ASSUME NEW v \in Workers, v # w PROVE UseHolds(uses[v])'
    <3>1. UseHolds(uses[v])
      BY DEF UsesHold
    <3>2. uses'[v] = uses[v]
      BY <1>1, <2>1
    <3> QED
      BY <3>1, <3>2 DEF UseHolds, Writes
  <2>2. UseHolds(uses[w])'
    <3>1. uses'[w] = r
      BY <1>1
    <3> QED
      BY <3>1 DEF UseHolds, Writes
  <2>3. uses' = [v \in Workers |-> uses'[v]]
    BY Zenon DEF UsesHold
  <2> QED
    BY <2>1, <2>2, <2>3 DEF UsesHold
<1>5. OneUse'
  BY <1>1 DEF OneUse, T!Serve
<1>6. T!LastUseIsOfSecret'
  BY DEF T!LastUseIsOfSecret
<1> QED
  BY <1>2, <1>3, <1>4, <1>5, <1>6

\* A request ends.  Served one at a time, there is no other.
LEMMA EndHolds ==
  ASSUME TokensHold, NEW w \in Workers, uses[w] # T!Idle, uses' = [uses EXCEPT ![w] = T!Idle],
         RowsHold', T!LastUseIsOfSecret',
         secrets' = secrets \/ (secrets' = secrets + 1 /\ w \in Minting),
         UNCHANGED <<serial, requests>>
  PROVE  TokensHold'
<1> USE DEF TokensHold
<1>1. \A v \in Workers : uses'[v] = IF v = w THEN T!Idle ELSE uses[v]
  BY Zenon DEF UsesHold
<1>2. secrets \in Nat /\ secrets' \in Nat /\ secrets <= secrets'
  BY DEF CountsHold
<1>3. CountsHold'
  <2>1. /\ IsFiniteSet(Minting') /\ Cardinality(Minting') \in Nat /\ Cardinality(Minting) \in Nat
        /\ Cardinality(Minting') <= Cardinality(Minting)
        /\ w \in Minting => Cardinality(Minting') + 1 <= Cardinality(Minting)
    <3>1. T!Idle.op \notin {"create", "rotate"}
      BY DEF T!Idle
    <3> QED
      BY <3>1, MintingChanges
  <2> QED
    BY <1>2, <2>1 DEF CountsHold
<1>4. UsesHold'
  <2>1. ASSUME NEW v \in Workers, v # w PROVE UseHolds(uses[v])'
    <3>1. UseHolds(uses[v]) /\ (serial => uses[v] = T!Idle)
      BY <2>1 DEF UsesHold, OneUse
    <3>2. uses'[v] = uses[v] /\ serial' = serial
      BY <1>1, <2>1
    <3>3. uses[v] \in Writes'
      BY <1>2, <3>1 DEF UseHolds, Writes
    <3>4. \A i \in 1 .. secrets : i \in 1 .. secrets'
      BY <1>2
    <3> QED
      BY <3>1, <3>2, <3>3, <3>4 DEF UseHolds, T!Idle
  <2>2. UseHolds(uses[w])'
    <3>1. uses'[w] = T!Idle
      BY <1>1
    <3>2. T!Idle \in Writes'
      BY DEF T!Idle, Writes, T!Scopes
    <3> QED
      BY <3>1, <3>2 DEF UseHolds, T!Idle
  <2>3. uses' = [v \in Workers |-> uses'[v]]
    BY Zenon DEF UsesHold
  <2> QED
    BY <2>1, <2>2, <2>3 DEF UsesHold
<1>5. OneUse'
  BY <1>1 DEF OneUse
<1> QED
  BY <1>3, <1>4, <1>5

\* Rows are written that keep their id, name and scope; g says what becomes of each.
LEMMA RowsWritten ==
  ASSUME RowsHold, secrets \in Nat, secrets' \in Nat, secrets <= secrets',
         NEW g \in [tokens -> T!Tokens], tokens' = {g[t] : t \in tokens},
         \A t \in tokens :
           /\ g[t].id = t.id /\ g[t].name = t.name /\ g[t].scope = t.scope
           /\ g[t].hash <= secrets',
         \A t, u \in tokens : g[t].hash = g[u].hash => t = u,
         UNCHANGED <<shut, opened>>
  PROVE  RowsHold'
<1> USE DEF RowsHold
<1>1. \A n \in tokens' : \E t \in tokens : n = g[t]
  OBVIOUS
<1>2. tokens' \subseteq T!Tokens
  BY <1>1
<1>3. \A t, u \in tokens : t.id = u.id => t = u
  OBVIOUS
<1>4. ASSUME NEW m \in tokens', NEW n \in tokens'
      PROVE  /\ m.id = n.id \/ m.hash = n.hash => m = n
             /\ m.name = n.name /\ m.scope = n.scope => m = n
             /\ m.id <= secrets' /\ m.hash <= secrets'
             /\ m.id \notin shut
  <2>1. PICK t \in tokens : m = g[t]
    BY <1>1
  <2>2. PICK u \in tokens : n = g[u]
    BY <1>1
  <2>3. m.id = n.id \/ m.hash = n.hash => t = u
    BY <1>3, <2>1, <2>2
  <2>4. m.name = n.name /\ m.scope = n.scope => t = u
    BY <2>1, <2>2 DEF T!NamesDiffer
  <2>5. t.id \in Nat /\ t.id <= secrets
    BY DEF T!Tokens
  <2>6. m.id <= secrets' /\ m.hash <= secrets'
    BY <2>1, <2>5
  <2>7. m.id \notin shut
    BY <2>1 DEF T!RevokedStaysShut
  <2> QED
    BY <2>1, <2>2, <2>3, <2>4, <2>6, <2>7
<1>5. T!NamesDiffer' /\ T!RevokedStaysShut'
  BY <1>4 DEF T!NamesDiffer, T!RevokedStaysShut
<1>6. shut' \subseteq 1 .. secrets' /\ opened' \subseteq 1 .. secrets'
  OBVIOUS
<1> QED
  BY <1>2, <1>4, <1>5, <1>6

LEMMA Fresh == ASSUME TokensHold, NEW w \in Minting PROVE secrets + 1 \in 1 .. MaxRequests
<1>1. Cardinality(Minting) \in Nat /\ Cardinality(Minting) # 0
  BY FS_CardinalityType, FS_EmptySet DEF TokensHold, CountsHold
<1> QED
  BY <1>1 DEF TokensHold, CountsHold

LEMMA CreateHolds ==
  ASSUME TokensHold, NEW w \in Workers, T!CommitCreate(w) PROVE TokensHold'
<1> USE DEF TokensHold
<1>1. /\ w \in Minting /\ uses[w] # T!Idle /\ secrets' = secrets + 1 /\ secrets \in Nat
      /\ uses' = [uses EXCEPT ![w] = T!Idle] /\ UNCHANGED <<serial, requests, opened, shut>>
  BY DEF T!CommitCreate, T!Does, T!Ends, Minting, T!Idle, CountsHold
<1>2. secrets + 1 \in 1 .. MaxRequests
  BY <1>1, Fresh
<1>3. CASE tokens' = tokens
  <2>1. RowsHold' /\ T!LastUseIsOfSecret'
    BY <1>1, <1>3 DEF RowsHold, T!NamesDiffer, T!RevokedStaysShut, T!LastUseIsOfSecret, T!Tokens
  <2> QED
    BY <1>1, <2>1, EndHolds
<1>4. CASE tokens' # tokens
  <2> DEFINE n == [id |-> secrets + 1, name |-> uses[w].name, scope |-> uses[w].scope,
                   hash |-> secrets + 1, last_used_at |-> "never", expires |-> uses[w].expires]
  <2>1. /\ tokens' = tokens \union {n}
        /\ \A t \in tokens : ~(t.name = uses[w].name /\ t.scope = uses[w].scope)
    BY <1>4 DEF T!CommitCreate, T!Replace, T!Clash
  <2>2. n \in T!Tokens
    <3>1. uses[w] \in Writes /\ uses[w].name \in Names
      <4>1. UseHolds(uses[w]) /\ uses[w].op = "create"
        BY DEF UsesHold, T!CommitCreate, T!Does
      <4> QED
        BY <4>1 DEF UseHolds
    <3> QED
      BY <1>2, <3>1 DEF T!Tokens, Writes
  <2>3. n.id = secrets + 1 /\ n.hash = secrets + 1 /\ n.name = uses[w].name
        /\ n.scope = uses[w].scope /\ n.last_used_at = "never"
    OBVIOUS
  <2> HIDE DEF n
  <2>4. \A t \in tokens : t.id \in Nat /\ t.hash \in Nat /\ t.id <= secrets /\ t.hash <= secrets
    BY DEF RowsHold, T!Tokens
  <2>5. \A t, u \in tokens' : t.id = u.id \/ t.hash = u.hash => t = u
    BY <1>1, <2>1, <2>3, <2>4 DEF RowsHold
  <2>6. \A t, u \in tokens' : t.name = u.name /\ t.scope = u.scope => t = u
    BY <2>1, <2>3 DEF RowsHold, T!NamesDiffer
  <2>7. \A t \in tokens' : t.id <= secrets' /\ t.hash <= secrets' /\ t.id \notin shut
    BY <1>1, <2>1, <2>3, <2>4 DEF RowsHold, T!RevokedStaysShut
  <2>8. shut \subseteq 1 .. secrets' /\ opened \subseteq 1 .. secrets'
    BY <1>1 DEF RowsHold
  <2>9. RowsHold'
    BY <1>1, <2>1, <2>2, <2>5, <2>6, <2>7, <2>8 DEF RowsHold, T!NamesDiffer, T!RevokedStaysShut
  <2>10. T!LastUseIsOfSecret'
    BY <1>1, <2>1, <2>3 DEF T!LastUseIsOfSecret
  <2> QED
    BY <1>1, <2>9, <2>10, EndHolds
<1> QED
  BY <1>3, <1>4

\* The token may be gone when it is to be rotated, or rotated by another meanwhile.
LEMMA RotateHolds ==
  ASSUME TokensHold, NEW w \in Workers, T!CommitRotate(w) PROVE TokensHold'
<1> USE DEF TokensHold
<1> DEFINE Rows == T!Rows(uses[w].ids)
           g == [t \in tokens |-> IF t \in Rows THEN T!Renewed(t, uses[w].used) ELSE t]
<1>1. /\ w \in Minting /\ uses[w] # T!Idle /\ secrets' = secrets + 1 /\ secrets \in Nat
      /\ uses' = [uses EXCEPT ![w] = T!Idle] /\ UNCHANGED <<serial, requests, opened, shut>>
      /\ uses[w].op = "rotate"
  BY DEF T!CommitRotate, T!Does, T!Ends, Minting, T!Idle, CountsHold
<1>2. secrets + 1 \in 1 .. MaxRequests
  BY <1>1, Fresh
<1>3. tokens' = {g[t] : t \in tokens}
  BY DEF T!CommitRotate, T!Replace, T!Rows
<1>4. \A t, u \in Rows : t = u
  <2>1. PICK i \in 1 .. secrets : uses[w].ids = {i}
    BY <1>1 DEF UsesHold, UseHolds
  <2> QED
    BY <2>1 DEF T!Rows, RowsHold
<1>5. ASSUME NEW t \in tokens
      PROVE  /\ g[t] \in T!Tokens
             /\ g[t].id = t.id /\ g[t].name = t.name /\ g[t].scope = t.scope
             /\ g[t].hash = IF t \in Rows THEN secrets + 1 ELSE t.hash
             /\ g[t].last_used_at = IF t \in Rows /\ uses[w].used THEN "never" ELSE t.last_used_at
  <2>1. t \in T!Tokens
    BY DEF RowsHold
  <2>2. CASE t \in Rows
    <3>1. g[t] = T!Renewed(t, uses[w].used)
      BY <2>2
    <3> HIDE DEF g
    <3> QED
      BY <1>2, <2>1, <2>2, <3>1 DEF T!Renewed, T!Tokens
  <2>3. CASE t \notin Rows
    BY <2>1, <2>3
  <2> QED
    BY <2>2, <2>3
<1>6. g \in [tokens -> T!Tokens]
  BY <1>5
<1> HIDE DEF g, Rows
<1>7. \A t \in tokens : t.hash \in Nat /\ t.hash <= secrets
  BY DEF RowsHold, T!Tokens
<1>8. \A t, u \in tokens : g[t].hash = g[u].hash => t = u
  BY <1>1, <1>4, <1>5, <1>7 DEF RowsHold
<1>9. RowsHold'
  <2>1. \A t \in tokens :
          /\ g[t].id = t.id /\ g[t].name = t.name /\ g[t].scope = t.scope
          /\ g[t].hash <= secrets'
    BY <1>1, <1>5, <1>7
  <2>2. secrets' \in Nat /\ secrets <= secrets'
    BY <1>1
  <2> QED
    BY <1>1, <1>3, <1>6, <1>8, <2>1, <2>2, RowsWritten
<1>10. T!LastUseIsOfSecret'
  <2> SUFFICES ASSUME serial, NEW t \in tokens, g[t].last_used_at # "never"
               PROVE  g[t].hash \in opened
    BY <1>1, <1>3 DEF T!LastUseIsOfSecret
  <2>1. t.last_used_at # "never" => uses[w].used \/ t \notin Rows
    <3>1. UseHolds(uses[w])
      BY DEF UsesHold
    <3> QED
      BY <1>1, <3>1 DEF UseHolds, T!Rows, Rows
  <2> QED
    BY <1>5, <2>1 DEF T!LastUseIsOfSecret
<1> QED
  BY <1>1, <1>9, <1>10, EndHolds

LEMMA RecordHolds ==
  ASSUME TokensHold, NEW w \in Workers, T!RecordUse(w) PROVE TokensHold'
<1> USE DEF TokensHold
<1> DEFINE Rows == T!Rows(uses[w].ids)
           g == [t \in tokens |-> IF t \in Rows THEN [t EXCEPT !.last_used_at = "recent"] ELSE t]
<1>1. /\ uses[w] # T!Idle /\ uses[w].op = "use" /\ secrets \in Nat
      /\ uses' = [uses EXCEPT ![w] = T!Idle] /\ UNCHANGED <<serial, requests, secrets, opened, shut>>
  BY DEF T!RecordUse, T!Does, T!Ends, T!Idle, CountsHold
<1>2. tokens' = {g[t] : t \in tokens}
  BY DEF T!RecordUse, T!Replace, T!Rows
<1>3. ASSUME NEW t \in tokens
      PROVE  /\ g[t] \in T!Tokens
             /\ g[t].id = t.id /\ g[t].name = t.name /\ g[t].scope = t.scope /\ g[t].hash = t.hash
             /\ g[t].last_used_at = IF t \in Rows THEN "recent" ELSE t.last_used_at
             /\ t.hash \in Nat /\ t.hash <= secrets
  <2>1. t \in T!Tokens /\ t.hash \in Nat /\ t.hash <= secrets
    BY DEF RowsHold, T!Tokens
  <2>2. CASE t \in Rows
    <3>1. g[t] = [t EXCEPT !.last_used_at = "recent"]
      BY <2>2
    <3> HIDE DEF g
    <3> QED
      BY <2>1, <2>2, <3>1 DEF T!Tokens
  <2>3. CASE t \notin Rows
    BY <2>1, <2>3
  <2> QED
    BY <2>2, <2>3
<1>4. g \in [tokens -> T!Tokens]
  BY <1>3
<1> HIDE DEF g, Rows
<1>5. RowsHold'
  <2>1. \A t, u \in tokens : g[t].hash = g[u].hash => t = u
    BY <1>3 DEF RowsHold
  <2>2. /\ \A t \in tokens :
             /\ g[t].id = t.id /\ g[t].name = t.name /\ g[t].scope = t.scope
             /\ g[t].hash <= secrets'
        /\ secrets' \in Nat /\ secrets <= secrets'
    BY <1>1, <1>3
  <2> QED
    BY <1>1, <1>2, <1>4, <2>1, <2>2, RowsWritten
<1>6. T!LastUseIsOfSecret'
  <2> SUFFICES ASSUME serial, NEW t \in tokens, g[t].last_used_at # "never"
               PROVE  g[t].hash \in opened
    BY <1>1, <1>2 DEF T!LastUseIsOfSecret
  <2>1. t \in Rows => t.hash \in opened
    <3>1. UseHolds(uses[w])
      BY DEF UsesHold
    <3> QED
      BY <1>1, <3>1 DEF UseHolds, T!Rows, Rows
  <2> QED
    BY <1>3, <2>1 DEF T!LastUseIsOfSecret
<1> QED
  BY <1>1, <1>5, <1>6, EndHolds

LEMMA DeleteHolds ==
  ASSUME TokensHold, NEW w \in Workers, T!CommitDelete(w) PROVE TokensHold'
<1> USE DEF TokensHold
<1>1. /\ uses[w] # T!Idle
      /\ tokens' = {t \in tokens : t.id \notin uses[w].ids} /\ shut' = shut \union uses[w].ids
      /\ uses' = [uses EXCEPT ![w] = T!Idle] /\ UNCHANGED <<serial, requests, secrets, opened>>
  BY DEF T!CommitDelete, T!Does, T!Ends, T!Idle, T!Replace, T!Rows
<1>2. uses[w].ids \subseteq 1 .. secrets
  <2>1. uses[w] \in Writes
    BY DEF UsesHold, UseHolds
  <2> QED
    BY <2>1 DEF Writes
<1>3. RowsHold' /\ T!LastUseIsOfSecret'
  BY <1>1, <1>2 DEF RowsHold, T!NamesDiffer, T!RevokedStaysShut, T!LastUseIsOfSecret, T!Tokens
<1> QED
  BY <1>1, <1>3, EndHolds

\* Time passes for a token, or an admin changes the user.
LEMMA TimeHolds ==
  ASSUME TokensHold, T!ChangeUser \/ \E t \in tokens : T!Expire(t) \/ T!MinutePasses(t)
  PROVE  TokensHold'
<1> USE DEF TokensHold
<1>1. UNCHANGED <<serial, uses, requests, secrets, opened, shut>>
  BY DEF T!ChangeUser, T!Expire, T!MinutePasses
<1>2. PICK g \in [tokens -> T!Tokens] :
        /\ tokens' = {g[t] : t \in tokens}
        /\ \A t \in tokens :
             /\ g[t].id = t.id /\ g[t].name = t.name /\ g[t].scope = t.scope /\ g[t].hash = t.hash
             /\ g[t].last_used_at = "never" <=> t.last_used_at = "never"
  <2>1. CASE tokens' = tokens
    <3> DEFINE g == [t \in tokens |-> t]
    <3>1. g \in [tokens -> T!Tokens] /\ tokens' = {g[t] : t \in tokens} /\ \A t \in tokens : g[t] = t
      BY <2>1 DEF RowsHold
    <3> QED
      BY <3>1
  <2>2. CASE tokens' # tokens
    <3>0. PICK t \in tokens : T!Expire(t) \/ T!MinutePasses(t)
      BY <2>2 DEF T!ChangeUser
    <3>1. PICK n \in {[t EXCEPT !.expires = "expired"], [t EXCEPT !.last_used_at = "old"]} :
            /\ tokens' = (tokens \ {t}) \union {n}
            /\ t.last_used_at = "never" => n = [t EXCEPT !.expires = "expired"]
      BY <3>0 DEF T!Expire, T!MinutePasses, T!Replace
    <3>2. /\ n \in T!Tokens
          /\ n.id = t.id /\ n.name = t.name /\ n.scope = t.scope /\ n.hash = t.hash
          /\ n.last_used_at = "never" <=> t.last_used_at = "never"
      BY <3>1 DEF RowsHold, T!Tokens
    <3> DEFINE g == [u \in tokens |-> IF u = t THEN n ELSE u]
    <3>3. tokens' = {g[u] : u \in tokens}
      BY <3>1
    <3>4. \A u \in tokens :
            /\ g[u] \in T!Tokens
            /\ g[u].id = u.id /\ g[u].name = u.name /\ g[u].scope = u.scope /\ g[u].hash = u.hash
            /\ g[u].last_used_at = "never" <=> u.last_used_at = "never"
      BY <3>2 DEF RowsHold
    <3>5. g \in [tokens -> T!Tokens]
      BY <3>4
    <3> HIDE DEF g
    <3> QED
      BY <3>3, <3>4, <3>5
  <2> QED
    BY <2>1, <2>2
<1>3. RowsHold'
  <2>1. \A t \in tokens : t.hash \in Nat /\ t.hash <= secrets
    BY DEF RowsHold, T!Tokens
  <2>2. \A t, u \in tokens : g[t].hash = g[u].hash => t = u
    BY <1>2 DEF RowsHold
  <2>3. secrets \in Nat /\ secrets' = secrets
    BY <1>1 DEF CountsHold
  <2> QED
    BY <1>1, <1>2, <2>1, <2>2, <2>3, RowsWritten
<1>4. T!LastUseIsOfSecret'
  BY <1>1, <1>2 DEF T!LastUseIsOfSecret
<1>5. CountsHold' /\ OneUse'
  BY <1>1 DEF CountsHold, OneUse, Minting
<1>6. UsesHold'
  <2> SUFFICES ASSUME NEW w \in Workers PROVE UseHolds(uses[w])'
    BY <1>1 DEF UsesHold
  <2>1. UseHolds(uses[w])
    BY DEF UsesHold
  <2> QED
    BY <1>1, <1>2, <2>1 DEF UseHolds, Writes
<1> QED
  BY <1>3, <1>4, <1>5, <1>6

LEMMA TokensBegin ==
  ASSUME TokensHold, NEW w \in Workers,
         \/ \E n \in Names, s \in T!Scopes, e \in {"never", "later"} : T!BeginCreate(w, n, s, e)
         \/ \E t \in tokens : T!Authenticate(w, t) \/ T!BeginRotate(w, t) \/ T!BeginRevoke(w, t)
         \/ T!BeginPurge(w)
  PROVE  TokensHold'
<1> USE DEF TokensHold
<1>1. \A t \in tokens : t.id \in 1 .. secrets /\ t.hash \in 1 .. secrets
  BY DEF RowsHold, CountsHold, T!Tokens
<1>2. opened \subseteq 1 .. secrets
  BY DEF RowsHold
<1>3. ASSUME NEW n \in Names, NEW s \in T!Scopes, NEW e \in {"never", "later"}, T!BeginCreate(w, n, s, e)
      PROVE  TokensHold'
  <2> DEFINE r == [T!Idle EXCEPT !.op = "create", !.name = n, !.scope = s, !.expires = e]
  <2>1. /\ T!Serve(w) /\ uses' = [uses EXCEPT ![w] = r]
        /\ UNCHANGED <<serial, tokens, secrets, opened, shut>>
    BY <1>3 DEF T!BeginCreate, T!Begins
  <2>2. r \in Writes /\ r.op = "create" /\ r.name \in Names
    BY DEF Writes, T!Idle
  <2> HIDE DEF r
  <2>3. UseHolds(r)'
    BY <2>1, <2>2 DEF UseHolds, Writes
  <2> QED
    BY <1>2, <2>1, <2>3, BeginHolds
<1>4. ASSUME NEW t \in tokens, T!Authenticate(w, t) PROVE TokensHold'
  <2>1. PICK r \in {T!Idle, [T!Idle EXCEPT !.op = "use", !.ids = {t.id}]} :
          uses' = [uses EXCEPT ![w] = r]
    <3>1. uses[w] = T!Idle
      BY <1>4 DEF T!Authenticate, T!Serve
    <3>2. uses = [uses EXCEPT ![w] = T!Idle]
      BY <3>1 DEF UsesHold
    <3> QED
      BY <1>4, <3>2 DEF T!Authenticate
  <2>2. /\ T!Serve(w) /\ opened' = opened \union {t.hash}
        /\ UNCHANGED <<serial, tokens, secrets, shut>>
    BY <1>4 DEF T!Authenticate
  <2>3. r \in Writes /\ r.op \in {"none", "use"} /\ r.ids \subseteq {t.id}
    <3>1. CASE r = T!Idle
      BY <3>1 DEF Writes, T!Idle, T!Scopes
    <3>2. CASE r = [T!Idle EXCEPT !.op = "use", !.ids = {t.id}]
      <4>1. {t.id} \subseteq 1 .. secrets
        BY <1>1
      <4> QED
        BY <3>2, <4>1 DEF Writes, T!Idle, T!Scopes
    <3> QED
      BY <2>1, <3>1, <3>2
  <2>4. UseHolds(r)'
    <3>1. \A u \in tokens : u.id \in r.ids => u.hash \in opened'
      BY <2>2, <2>3 DEF RowsHold
    <3> QED
      BY <2>2, <2>3, <3>1 DEF UseHolds, Writes
  <2> QED
    BY <1>1, <1>2, <2>1, <2>2, <2>4, BeginHolds
<1>5. ASSUME NEW t \in tokens, T!BeginRotate(w, t) PROVE TokensHold'
  <2> DEFINE r == [T!Idle EXCEPT !.op = "rotate", !.ids = {t.id}, !.name = t.name, !.scope = t.scope,
                                 !.used = (t.last_used_at # "never")]
  <2>1. /\ T!Serve(w) /\ uses' = [uses EXCEPT ![w] = r]
        /\ UNCHANGED <<serial, tokens, secrets, opened, shut>>
    BY <1>5 DEF T!BeginRotate, T!Begins
  <2>2. r \in Writes /\ r.op = "rotate" /\ r.ids = {t.id}
    <3>1. t.name \in Names /\ t.scope \in T!Scopes /\ t.id \in 1 .. secrets
      BY <1>1 DEF RowsHold, T!Tokens
    <3> QED
      BY <3>1 DEF Writes, T!Idle
  <2>3. r.used <=> t.last_used_at # "never"
    BY DEF T!Idle
  <2> HIDE DEF r
  <2>4. UseHolds(r)'
    <3>1. \A u \in tokens : u.id \in r.ids /\ u.last_used_at # "never" => r.used
      BY <2>2, <2>3 DEF RowsHold
    <3> QED
      BY <1>1, <2>1, <2>2, <3>1 DEF UseHolds, Writes
  <2> QED
    BY <1>2, <2>1, <2>4, BeginHolds
<1>6. ASSUME NEW ids \in SUBSET (1 .. secrets), T!Serve(w),
             T!Begins(w, [T!Idle EXCEPT !.op = "delete", !.ids = ids])
      PROVE  TokensHold'
  <2> DEFINE r == [T!Idle EXCEPT !.op = "delete", !.ids = ids]
  <2>1. uses' = [uses EXCEPT ![w] = r] /\ UNCHANGED <<serial, tokens, secrets, opened, shut>>
    BY <1>6 DEF T!Begins
  <2>2. r \in Writes /\ r.op = "delete"
    BY DEF Writes, T!Idle, T!Scopes
  <2> HIDE DEF r
  <2>3. UseHolds(r)'
    BY <2>1, <2>2 DEF UseHolds, Writes
  <2> QED
    BY <1>2, <1>6, <2>1, <2>3, BeginHolds
<1>7. ASSUME NEW t \in tokens, T!BeginRevoke(w, t) PROVE TokensHold'
  BY <1>1, <1>6, <1>7 DEF T!BeginRevoke
<1>8. ASSUME T!BeginPurge(w) PROVE TokensHold'
  <2>1. {t.id : t \in {u \in tokens : u.expires = "expired"}} \subseteq 1 .. secrets
    BY <1>1
  <2> QED
    BY <1>6, <1>8, <2>1 DEF T!BeginPurge
<1> QED
  BY <1>3, <1>4, <1>5, <1>7, <1>8

LEMMA TokensNext == TokensHold /\ [T!Next]_tokenVars /\ Counted => TokensHold'
<1> SUFFICES ASSUME TokensHold, [T!Next]_tokenVars, Counted PROVE TokensHold'
  OBVIOUS
<1>1. CASE UNCHANGED tokenVars
  <2>1. serial' = serial /\ requests' \in 0 .. MaxRequests /\ requests <= requests'
    BY DEF Counted, TokensHold, CountsHold
  <2>2. CountsHold'
    <3>1. Minting' = Minting
      BY <1>1 DEF Minting, tokenVars
    <3>2. Cardinality(Minting) \in Nat
      BY FS_CardinalityType DEF TokensHold, CountsHold
    <3> QED
      BY <1>1, <2>1, <3>1, <3>2 DEF TokensHold, CountsHold, tokenVars
  <2>3. RowsHold' /\ UsesHold' /\ OneUse' /\ T!LastUseIsOfSecret'
    BY <1>1, <2>1 DEF tokenVars, TokensHold, RowsHold, UsesHold, OneUse, Writes, UseHolds,
      T!NamesDiffer, T!RevokedStaysShut, T!LastUseIsOfSecret
  <2> QED
    BY <2>2, <2>3 DEF TokensHold
<1>2. CASE T!Next
  BY <1>2, TokensBegin, RecordHolds, CreateHolds, RotateHolds, DeleteHolds, TimeHolds DEF T!Next
<1> QED
  BY <1>1, <1>2

\* Whatever the requests that overlap, for any number of them: no two tokens share a name,
\* a secret or an id, a token that was revoked or purged never opens again, and, served one
\* at a time, the last use of a token is of the secret it has.
THEOREM TokensStayShut == Spec => []TokensAgree
<1>1. Init => TokensHold
  BY TokensInit DEF Init
<1>2. TokensHold /\ [Next]_allVars => TokensHold'
  BY OneMachine, TokensNext
<1>3. TokensHold => TokensAgree
  BY TokensHoldAgree DEF TokensAgree
<1> QED
  BY <1>1, <1>2, <1>3, PTL DEF Spec, allVars

-----------------------------------------------------------------------------
(* Public links.                                                           *)

Pages(l) == Cardinality({s \in shown : s.link = l})

\* A request answers one page at most, when it ends.
Viewing == {w \in Workers : viewing[w].op \in {"render", "view"}}
PagesHold ==
  /\ requests \in 0 .. MaxRequests
  /\ IsFiniteSet(shown) /\ IsFiniteSet(Viewing)
  /\ Cardinality(shown) + Cardinality(Viewing) <= requests
  /\ \A s \in shown : s.page \in 1 .. Cardinality(shown) /\ s.link \in DOMAIN issued

LinkRows ==
  [kind : {"execution", "bug_report"}, execution : Executions \union {Nobody},
   version : Versions \union {Nobody}, expires : 0 .. LinkTime + 1, revoked : BOOLEAN, views : Nat]

\* A row of link l, as it is or as a request has read it.
RowHolds(l, row) ==
  /\ l \in DOMAIN issued /\ row \in LinkRows
  /\ row.kind = issued[l].kind /\ row.execution = issued[l].execution
  /\ row.version = issued[l].version \/ (row.version = Nobody /\ issued[l].version \notin versions)
  /\ row.views <= Pages(l)

\* What a page of link l shows.
PageHolds(l, what) ==
  /\ l \in DOMAIN issued /\ what.kind = issued[l].kind
  /\ what.kind = "execution" => what.execution = issued[l].execution
  /\ what.kind = "bug_report" =>
       \/ what.version = issued[l].version
       \/ what.version = Nobody /\ issued[l].version \notin versions

LinksStand ==
  /\ clock \in 0 .. LinkTime /\ executions \subseteq Executions /\ versions \subseteq Versions
  /\ \E n \in Nat : DOMAIN issued = 1 .. n
  /\ closed \subseteq DOMAIN issued
  /\ \A l \in DOMAIN reports :
       /\ RowHolds(l, reports[l])
       /\ reports[l].execution \in executions \union {Nobody}
       /\ reports[l].version \in versions \union {Nobody}
       /\ l \in closed => reports[l].revoked
       /\ Pages(l) > 0 => reports[l].views > 0
       /\ serial => reports[l].views = Pages(l)
  /\ \A s \in shown : PageHolds(s.link, s.what)

\* What a request has read.  Served one at a time, no page was counted meanwhile.
ViewHolds(r) ==
  /\ r.op \in {"none", "revoke", "render", "view"}
  /\ r.op = "none" => r = L!Idle
  /\ r.op # "none" => RowHolds(r.link, r.row)
  /\ r.op = "revoke" /\ r.row.revoked /\ r.link \in DOMAIN reports => reports[r.link].revoked
  /\ r.op = "view" => PageHolds(r.link, r.what)
  /\ serial /\ r.op \in {"render", "view"} => r.row.views = Pages(r.link)

ViewsHold ==
  /\ viewing = [w \in Workers |-> viewing[w]]
  /\ \A w \in Workers : ViewHolds(viewing[w])

OneView ==
  serial => \A v, w \in Workers : viewing[v] # L!Idle /\ viewing[w] # L!Idle => v = w

LinksHold == PagesHold /\ LinksStand /\ ViewsHold /\ OneView

\* The library of an instance is the library.
LEMMA SameCardinality == \A S : L!Cardinality(S) = Cardinality(S)
  BY DEF L!Cardinality, Cardinality, L!IsFiniteSet, IsFiniteSet

LEMMA PagesCounted ==
  ASSUME IsFiniteSet(shown), NEW l
  PROVE  Pages(l) \in Nat /\ Cardinality(shown) \in Nat /\ Pages(l) <= Cardinality(shown)
<1> DEFINE S == {s \in shown : s.link = l}
<1>1. S \subseteq shown
  OBVIOUS
<1> HIDE DEF S
<1>2. IsFiniteSet(S) /\ Cardinality(S) <= Cardinality(shown)
  BY <1>1, FS_Subset
<1>3. Cardinality(S) \in Nat /\ Cardinality(shown) \in Nat
  BY <1>2, FS_CardinalityType
<1> QED
  BY <1>2, <1>3 DEF S, Pages

LEMMA LinksHoldAgree == LinksHold => L!LinksAreBounded
<1> SUFFICES ASSUME LinksHold PROVE L!LinksAreBounded
  OBVIOUS
<1> USE DEF LinksHold
<1>1. IsFiniteSet(shown) /\ IsFiniteSet(Viewing) /\ Cardinality(Viewing) \in Nat
  BY FS_CardinalityType DEF PagesHold
<1>2. ASSUME NEW l \in DOMAIN reports
      PROVE  /\ reports[l] \in LinkRows /\ l \in DOMAIN issued
             /\ reports[l].views \in 0 .. MaxRequests
             /\ reports[l].views <= Pages(l)
  <2>1. RowHolds(l, reports[l])
    BY DEF LinksStand
  <2>2. Pages(l) \in Nat /\ Cardinality(shown) \in Nat /\ Pages(l) <= Cardinality(shown)
    BY <1>1, PagesCounted
  <2>3. reports[l].views \in Nat
    BY <2>1 DEF RowHolds, LinkRows
  <2> QED
    BY <1>1, <2>1, <2>2, <2>3 DEF RowHolds, PagesHold
<1>3. L!TypeOK
  BY <1>2 DEF L!TypeOK, LinksStand, LinkRows
<1>4. L!RevokedStaysRevoked
  BY DEF L!RevokedStaysRevoked, L!IsActive, LinksStand
<1>5. L!ShowsWhatWasIssued
  BY DEF L!ShowsWhatWasIssued, LinksStand, PageHolds
<1>6. L!ViewsAreCounted
  BY <1>2, SameCardinality DEF L!ViewsAreCounted, LinksStand, Pages
<1> QED
  BY <1>3, <1>4, <1>5, <1>6 DEF L!LinksAreBounded

LEMMA LinksInit == L!Init => LinksHold
<1> SUFFICES ASSUME L!Init PROVE LinksHold
  OBVIOUS
<1> USE DEF L!Init
<1>1. PagesHold
  <2>1. Viewing = {}
    BY DEF Viewing, L!Idle
  <2> QED
    BY <2>1, FS_EmptySet DEF PagesHold
<1>2. DOMAIN issued = {} /\ DOMAIN reports = {}
  OBVIOUS
<1>3. LinksStand
  <2>1. DOMAIN issued = 1 .. 0
    BY <1>2
  <2> QED
    BY <1>2, <2>1 DEF LinksStand
<1>4. ViewsHold /\ OneView
  <2>1. \A w \in Workers : viewing[w] = L!Idle
    OBVIOUS
  <2>2. ViewHolds(L!Idle)
    BY DEF ViewHolds, L!Idle
  <2>3. viewing = [w \in Workers |-> viewing[w]]
    OBVIOUS
  <2> QED
    BY <2>1, <2>2, <2>3 DEF ViewsHold, OneView
<1> QED
  BY <1>1, <1>3, <1>4 DEF LinksHold

\* A request that begins a view may come to answer a page, and one that ends has answered it.
LEMMA ViewingChanges ==
  ASSUME PagesHold, ViewsHold, NEW w \in Workers, NEW r, viewing' = [viewing EXCEPT ![w] = r]
  PROVE  /\ IsFiniteSet(Viewing') /\ Cardinality(Viewing') \in Nat /\ Cardinality(Viewing) \in Nat
         /\ Cardinality(Viewing') <= Cardinality(Viewing) + 1
         /\ w \in Viewing \/ r.op \notin {"render", "view"} =>
              Cardinality(Viewing') <= Cardinality(Viewing)
         /\ w \in Viewing /\ r.op \notin {"render", "view"} =>
              Cardinality(Viewing') + 1 <= Cardinality(Viewing)
<1>1. \A v \in Workers : viewing'[v] = IF v = w THEN r ELSE viewing[v]
  BY Zenon DEF ViewsHold
<1>2. IsFiniteSet(Viewing) /\ Cardinality(Viewing) \in Nat
  BY FS_CardinalityType DEF PagesHold
<1>3. CASE r.op \in {"render", "view"}
  <2>1. Viewing' = Viewing \union {w}
    BY <1>1, <1>3 DEF Viewing
  <2>2. /\ IsFiniteSet(Viewing \union {w})
        /\ Cardinality(Viewing \union {w}) =
             IF w \in Viewing THEN Cardinality(Viewing) ELSE Cardinality(Viewing) + 1
    BY <1>2, FS_AddElement
  <2> QED
    BY <1>2, <1>3, <2>1, <2>2
<1>4. CASE r.op \notin {"render", "view"}
  <2>1. Viewing' = Viewing \ {w}
    BY <1>1, <1>4 DEF Viewing
  <2>2. /\ IsFiniteSet(Viewing \ {w})
        /\ Cardinality(Viewing \ {w}) =
             IF w \in Viewing THEN Cardinality(Viewing) - 1 ELSE Cardinality(Viewing)
    BY <1>2, FS_RemoveElement
  <2>3. Cardinality(Viewing \ {w}) \in Nat
    BY <2>2, FS_CardinalityType
  <2> QED
    BY <1>2, <1>4, <2>1, <2>2, <2>3
<1> QED
  BY <1>3, <1>4

\* Links are added and pages counted; versions and links go.  What a request has read still
\* holds, unless it is served alone and another page was counted.
Grows ==
  /\ serial' = serial /\ versions' \subseteq versions
  /\ \A l \in DOMAIN issued :
       /\ l \in DOMAIN issued' /\ issued'[l] = issued[l]
       /\ Pages(l) \in Nat /\ Pages(l)' \in Nat /\ Pages(l) <= Pages(l)'
       /\ l \in DOMAIN reports' =>
            l \in DOMAIN reports /\ (reports[l].revoked => reports'[l].revoked)

LEMMA RowStays ==
  ASSUME Grows, NEW l, NEW row, RowHolds(l, row)
  PROVE  /\ l \in DOMAIN issued' /\ row \in LinkRows
         /\ row.kind = issued'[l].kind /\ row.execution = issued'[l].execution
         /\ row.version = issued'[l].version
              \/ (row.version = Nobody /\ issued'[l].version \notin versions')
         /\ row.views <= Pages(l)'
<1>1. row.views \in Nat
  BY DEF RowHolds, LinkRows
<1> QED
  BY <1>1 DEF Grows, RowHolds

LEMMA PageStays ==
  ASSUME Grows, NEW l, NEW what, PageHolds(l, what)
  PROVE  /\ l \in DOMAIN issued' /\ what.kind = issued'[l].kind
         /\ what.kind = "execution" => what.execution = issued'[l].execution
         /\ what.kind = "bug_report" =>
              \/ what.version = issued'[l].version
              \/ what.version = Nobody /\ issued'[l].version \notin versions'
  BY DEF Grows, PageHolds

LEMMA ViewStays ==
  ASSUME Grows, NEW w \in Workers, ViewHolds(viewing[w]), viewing'[w] = viewing[w],
         serial => viewing[w] = L!Idle \/ shown' = shown
  PROVE  ViewHolds(viewing[w])'
<1>0. PICK r : r = viewing[w]
  OBVIOUS
<1>1. ViewHolds(r) /\ r = viewing'[w]
  BY <1>0
<1>2. CASE r = L!Idle
  <2>1. r.op = "none"
    BY <1>2 DEF L!Idle
  <2> QED
    BY <1>1, <1>2, <2>1 DEF ViewHolds
<1>3. CASE r # L!Idle
  <2>1. r.op \in {"revoke", "render", "view"} /\ RowHolds(r.link, r.row)
    BY <1>1, <1>3 DEF ViewHolds
  <2>2. RowHolds(viewing[w].link, viewing[w].row)'
    BY <1>1, <2>1, RowStays DEF RowHolds, LinkRows
  <2>3. viewing'[w].op = "view" => PageHolds(viewing[w].link, viewing[w].what)'
    BY <1>1, PageStays DEF ViewHolds, PageHolds
  <2>4. r.op = "revoke" /\ r.row.revoked /\ r.link \in DOMAIN reports' => reports'[r.link].revoked
    BY <1>1, <2>1 DEF Grows, ViewHolds, RowHolds
  <2>5. serial /\ r.op \in {"render", "view"} => r.row.views = Pages(r.link)'
    BY <1>0, <1>1, <1>3 DEF ViewHolds, Pages
  <2>6. serial' = serial
    BY DEF Grows
  <2>7. Pages(viewing[w].link)' = Pages(r.link)'
    BY <1>1 DEF Pages
  <2>8. /\ viewing'[w].op \in {"none", "revoke", "render", "view"} /\ viewing'[w].op # "none"
        /\ viewing'[w].op = "revoke" /\ viewing'[w].row.revoked /\ viewing'[w].link \in DOMAIN reports' =>
             reports'[viewing'[w].link].revoked
        /\ serial' /\ viewing'[w].op \in {"render", "view"} =>
             viewing'[w].row.views = Pages(viewing[w].link)'
    BY <1>1, <2>1, <2>4, <2>5, <2>6, <2>7
  <2> QED
    BY <2>2, <2>3, <2>8, Zenon DEF ViewHolds
<1> QED
  BY <1>2, <1>3

\* What a step leaves of the links, when it answers no page.
LEMMA NoPageCounted ==
  ASSUME LinksHold, shown' = shown, serial' = serial, versions' \subseteq versions,
         \A l \in DOMAIN issued : l \in DOMAIN issued' /\ issued'[l] = issued[l],
         \A l \in DOMAIN issued : l \in DOMAIN reports' =>
           l \in DOMAIN reports /\ (reports[l].revoked => reports'[l].revoked)
  PROVE  Grows /\ (\A l : Pages(l)' = Pages(l))
<1>1. \A l : Pages(l)' = Pages(l)
  BY DEF Pages
<1>2. \A l : Pages(l) \in Nat
  BY PagesCounted DEF LinksHold, PagesHold
<1> QED
  BY <1>1, <1>2 DEF Grows

LEMMA LinksBegin ==
  ASSUME LinksHold, NEW w \in Workers, NEW l \in DOMAIN reports, L!BeginRevoke(w, l) \/ L!Lookup(w, l)
  PROVE  LinksHold'
<1> USE DEF LinksHold
<1>1. PICK r \in {[op |-> op, link |-> l, row |-> reports[l]] : op \in {"revoke", "render"}} :
        /\ L!Serve(w) /\ viewing' = [viewing EXCEPT ![w] = r]
        /\ UNCHANGED <<serial, clock, executions, versions, reports, issued, closed, shown>>
  BY DEF L!BeginRevoke, L!Lookup, L!Begins
<1>2. r.op \in {"revoke", "render"} /\ r.link = l /\ r.row = reports[l]
  OBVIOUS
<1>3. \A v \in Workers : viewing'[v] = IF v = w THEN r ELSE viewing[v]
  BY <1>1, Zenon DEF ViewsHold
<1>4. Grows
  BY <1>1, NoPageCounted
<1>5. LinksStand'
  <2>1. \A k : Pages(k)' = Pages(k)
    BY <1>1 DEF Pages
  <2> QED
    BY <1>1, <2>1 DEF LinksStand, RowHolds, PageHolds, LinkRows
<1>6. PagesHold'
  <2>1. /\ IsFiniteSet(Viewing') /\ Cardinality(Viewing') \in Nat /\ Cardinality(Viewing) \in Nat
        /\ Cardinality(Viewing') <= Cardinality(Viewing) + 1
    BY <1>1, ViewingChanges
  <2>2. requests' = requests + 1 /\ requests < MaxRequests
    BY <1>1 DEF L!Serve
  <2>3. Cardinality(shown) \in Nat
    BY FS_CardinalityType DEF PagesHold
  <2> QED
    BY <1>1, <2>1, <2>2, <2>3 DEF PagesHold
<1>7. ViewsHold'
  <2>1. ASSUME NEW v \in Workers, v # w PROVE ViewHolds(viewing[v])'
    BY <1>1, <1>3, <1>4, <2>1, ViewStays DEF ViewsHold
  <2>2. ViewHolds(viewing[w])'
    <3>1. viewing'[w] = r /\ reports' = reports
      BY <1>1, <1>3
    <3>2. RowHolds(l, reports[l])'
      BY <1>5, <3>1 DEF LinksStand
    <3>3. RowHolds(viewing[w].link, viewing[w].row)'
      BY <1>2, <3>1, <3>2 DEF RowHolds, Pages, LinkRows
    <3>4. serial' => viewing'[w].row.views = Pages(viewing[w].link)'
      BY <1>1, <1>2, <3>1 DEF LinksStand, Pages
    <3> QED
      BY <1>2, <3>1, <3>3, <3>4 DEF ViewHolds
  <2>3. viewing' = [v \in Workers |-> viewing'[v]]
    BY <1>1, Zenon DEF ViewsHold
  <2> QED
    BY <2>1, <2>2, <2>3 DEF ViewsHold
<1>8. OneView'
  BY <1>1, <1>3 DEF OneView, L!Serve
<1> QED
  BY <1>5, <1>6, <1>7, <1>8

\* A request ends without a page.  Others go on.
LEMMA LinksEnd ==
  ASSUME LinksHold, NEW w \in Workers, viewing' = [viewing EXCEPT ![w] = L!Idle], LinksStand',
         viewing[w] # L!Idle, Grows, shown' = shown \/ (serial => viewing[w] # L!Idle),
         PagesHold'
  PROVE  LinksHold'
<1> USE DEF LinksHold
<1>1. \A v \in Workers : viewing'[v] = IF v = w THEN L!Idle ELSE viewing[v]
  BY Zenon DEF ViewsHold
<1>2. ViewsHold'
  <2>1. ASSUME NEW v \in Workers, v # w PROVE ViewHolds(viewing[v])'
    <3>1. serial => viewing[v] = L!Idle
      BY <2>1 DEF OneView
    <3> QED
      BY <1>1, <2>1, <3>1, ViewStays DEF ViewsHold
  <2>2. ViewHolds(viewing[w])'
    <3>1. viewing'[w] = L!Idle /\ L!Idle.op = "none"
      BY <1>1 DEF L!Idle
    <3> QED
      BY <3>1, Zenon DEF ViewHolds
  <2>3. viewing' = [v \in Workers |-> viewing'[v]]
    BY Zenon DEF ViewsHold
  <2> QED
    BY <2>1, <2>2, <2>3 DEF ViewsHold
<1>3. OneView'
  BY <1>1 DEF OneView, Grows
<1> QED
  BY <1>2, <1>3

LEMMA PagesEnd ==
  ASSUME LinksHold, NEW w \in Workers, NEW r, viewing' = [viewing EXCEPT ![w] = r],
         r.op \notin {"render", "view"} \/ w \in Viewing,
         UNCHANGED <<shown, requests, issued>>
  PROVE  PagesHold'
<1>1. /\ IsFiniteSet(Viewing') /\ Cardinality(Viewing') \in Nat /\ Cardinality(Viewing) \in Nat
      /\ Cardinality(Viewing') <= Cardinality(Viewing)
  BY ViewingChanges DEF LinksHold
<1>2. Cardinality(shown) \in Nat
  BY FS_CardinalityType DEF LinksHold, PagesHold
<1> QED
  BY <1>1, <1>2 DEF LinksHold, PagesHold

LEMMA RevokeEnds == ASSUME LinksHold, NEW w \in Workers, L!CommitRevoke(w) PROVE LinksHold'
<1> USE DEF LinksHold
<1> DEFINE k == viewing[w].link
<1>1. /\ viewing[w] # L!Idle /\ viewing[w].op = "revoke"
      /\ viewing' = [viewing EXCEPT ![w] = L!Idle]
      /\ UNCHANGED <<serial, clock, executions, versions, requests, issued, shown>>
  BY DEF L!CommitRevoke, L!Ends, L!Idle
<1>2. RowHolds(k, viewing[w].row) /\ ViewHolds(viewing[w])
  BY <1>1 DEF ViewsHold, ViewHolds
<1>3. /\ DOMAIN reports' = DOMAIN reports
      /\ \A l \in DOMAIN reports :
           reports'[l] = reports[l] \/ (l = k /\ reports'[l] = [reports[l] EXCEPT !.revoked = TRUE])
      /\ closed' = closed
           \/ (closed' = closed \union {k} /\ (k \in DOMAIN reports => reports'[k].revoked))
  <2>1. CASE UNCHANGED <<reports, closed>>
    BY <2>1
  <2>2. CASE viewing[w].row.revoked /\ reports' = reports /\ closed' = closed \union {k}
    BY <1>1, <1>2, <2>2 DEF ViewHolds
  <2>3. CASE k \in DOMAIN reports /\ reports' = [reports EXCEPT ![k].revoked = TRUE]
               /\ closed' = closed \union {k}
    <3>1. reports[k] \in LinkRows
      BY <2>3 DEF LinksStand, RowHolds
    <3>2. reports'[k] = [reports[k] EXCEPT !.revoked = TRUE] /\ reports'[k].revoked
      BY <2>3, <3>1 DEF LinkRows
    <3> QED
      BY <2>3, <3>2
  <2> QED
    BY <2>1, <2>2, <2>3 DEF L!CommitRevoke
<1>4. ASSUME NEW l \in DOMAIN reports
      PROVE  /\ reports[l].revoked => reports'[l].revoked
             /\ reports'[l] \in LinkRows
             /\ reports'[l].kind = reports[l].kind /\ reports'[l].execution = reports[l].execution
             /\ reports'[l].version = reports[l].version /\ reports'[l].views = reports[l].views
             /\ reports[l] \in LinkRows
  <2>1. reports[l] \in LinkRows
    BY DEF LinksStand, RowHolds
  <2>2. CASE reports'[l] = reports[l]
    BY <2>1, <2>2
  <2>3. CASE reports'[l] = [reports[l] EXCEPT !.revoked = TRUE]
    <3>1. reports'[l] \in LinkRows /\ reports'[l].revoked
      BY <2>1, <2>3 DEF LinkRows
    <3>2. /\ reports'[l].kind = reports[l].kind /\ reports'[l].execution = reports[l].execution
          /\ reports'[l].version = reports[l].version /\ reports'[l].views = reports[l].views
      BY <2>1, <2>3 DEF LinkRows
    <3> QED
      BY <2>1, <3>1, <3>2
  <2> QED
    BY <1>3, <2>2, <2>3
<1>5. Grows /\ \A l : Pages(l)' = Pages(l)
  BY <1>1, <1>3, <1>4, NoPageCounted
<1>6. LinksStand'
  <2>1. ASSUME NEW l \in DOMAIN reports'
        PROVE  /\ RowHolds(l, reports[l])'
               /\ reports'[l].execution \in executions \union {Nobody}
               /\ reports'[l].version \in versions \union {Nobody}
               /\ l \in closed' => reports'[l].revoked
               /\ Pages(l)' > 0 => reports'[l].views > 0
               /\ serial => reports'[l].views = Pages(l)'
    <3>1. l \in DOMAIN reports /\ RowHolds(l, reports[l])
      BY <1>3 DEF LinksStand
    <3>2. RowHolds(l, reports[l])'
      BY <1>1, <1>4, <1>5, <3>1 DEF RowHolds, LinkRows
    <3>3. l \in closed' => reports'[l].revoked
      BY <1>3, <1>4, <3>1 DEF LinksStand
    <3> QED
      BY <1>4, <1>5, <3>1, <3>2, <3>3 DEF LinksStand
  <2>2. \A s \in shown : PageHolds(s.link, s.what)'
    BY <1>1 DEF LinksStand, PageHolds
  <2>3. closed' \subseteq DOMAIN issued
    BY <1>2, <1>3 DEF LinksStand, RowHolds
  <2>4. \A s \in shown' : PageHolds(s.link, s.what)'
    BY <1>1, <2>2
  <2> QED
    BY <1>1, <2>1, <2>3, <2>4 DEF LinksStand
<1>7. PagesHold'
  <2>1. L!Idle.op \notin {"render", "view"}
    BY DEF L!Idle
  <2> QED
    BY <1>1, <2>1, PagesEnd
<1> QED
  BY <1>1, <1>5, <1>6, <1>7, LinksEnd

LEMMA RenderHolds == ASSUME LinksHold, NEW w \in Workers, L!Render(w) PROVE LinksHold'
<1> USE DEF LinksHold
<1> DEFINE row == viewing[w].row
           l == viewing[w].link
           what == IF row.kind = "execution" THEN L!Of("execution", row.execution, Nobody)
                   ELSE L!Of("bug_report", Nobody, row.version)
<1>1. /\ viewing[w].op = "render"
      /\ UNCHANGED <<serial, clock, executions, versions, reports, requests, issued, closed, shown>>
      /\ \/ viewing' = [viewing EXCEPT ![w] = L!Idle]
         \/ viewing' = [viewing EXCEPT ![w] = [op |-> "view", link |-> l, row |-> row, what |-> what]]
  BY DEF L!Render
<1>2. ViewHolds(viewing[w]) /\ RowHolds(l, row) /\ viewing[w] # L!Idle /\ w \in Viewing
  BY <1>1 DEF ViewsHold, ViewHolds, L!Idle, Viewing
<1>3. Grows /\ \A k : Pages(k)' = Pages(k)
  BY <1>1, NoPageCounted
<1>4. LinksStand'
  BY <1>1, <1>3 DEF LinksStand, RowHolds, PageHolds, LinkRows
<1>5. CASE viewing' = [viewing EXCEPT ![w] = L!Idle]
  <2>1. PagesHold'
    BY <1>1, <1>2, <1>5, PagesEnd
  <2> QED
    BY <1>1, <1>2, <1>3, <1>4, <1>5, <2>1, LinksEnd
<1>6. CASE viewing' = [viewing EXCEPT ![w] = [op |-> "view", link |-> l, row |-> row, what |-> what]]
  <2>0. PICK r : r = [op |-> "view", link |-> l, row |-> row, what |-> what]
    OBVIOUS
  <2>1. /\ r.op = "view" /\ r.link = l /\ r.row = row
        /\ r.what.kind = row.kind
        /\ row.kind = "execution" => r.what.execution = row.execution
        /\ row.kind = "bug_report" => r.what.version = row.version
    BY <1>2, <2>0 DEF L!Of, RowHolds, LinkRows
  <2>2. viewing' = [viewing EXCEPT ![w] = r]
    BY <1>6, <2>0
  <2> HIDE DEF what
  <2>3. PagesHold'
    BY <1>1, <1>2, <2>1, <2>2, PagesEnd
  <2>4. \A v \in Workers : viewing'[v] = IF v = w THEN r ELSE viewing[v]
    BY <2>2, Zenon DEF ViewsHold
  <2>5. ViewHolds(r)
    <3>1. PageHolds(r.link, r.what)
      BY <1>2, <2>1 DEF RowHolds, PageHolds
    <3> QED
      BY <1>1, <1>2, <2>1, <3>1 DEF ViewHolds
  <2>6. ViewHolds(viewing[w])'
    <3>1. viewing'[w] = r
      BY <2>4
    <3>2. RowHolds(viewing[w].link, viewing[w].row)' /\ PageHolds(viewing[w].link, viewing[w].what)'
      BY <1>1, <2>1, <2>5, <3>1 DEF ViewHolds, RowHolds, PageHolds, LinkRows, Pages
    <3>3. Pages(viewing[w].link)' = Pages(r.link)
      BY <1>1, <3>1 DEF Pages
    <3> QED
      BY <1>1, <2>1, <2>5, <3>1, <3>2, <3>3 DEF ViewHolds
  <2>7. ViewsHold'
    <3>1. ASSUME NEW v \in Workers, v # w PROVE ViewHolds(viewing[v])'
      BY <1>1, <1>3, <2>4, <3>1, ViewStays DEF ViewsHold
    <3>2. viewing' = [v \in Workers |-> viewing'[v]]
      BY <2>2, Zenon DEF ViewsHold
    <3> QED
      BY <2>6, <3>1, <3>2 DEF ViewsHold
  <2>8. OneView'
    BY <1>1, <1>2, <2>4 DEF OneView
  <2> QED
    BY <1>4, <2>3, <2>7, <2>8
<1> QED
  BY <1>1, <1>5, <1>6

\* A page is counted when it is answered, on the row as it is.
LEMMA ViewEnds == ASSUME LinksHold, NEW w \in Workers, L!CommitView(w) PROVE LinksHold'
<1> USE DEF LinksHold
<1>0. PICK k, seen : k = viewing[w].link /\ seen = viewing[w].row.views
  OBVIOUS
<1>1. /\ viewing[w] # L!Idle /\ viewing[w].op = "view" /\ w \in Viewing
      /\ viewing' = [viewing EXCEPT ![w] = L!Idle]
      /\ UNCHANGED <<serial, clock, executions, versions, requests, issued, closed>>
  BY DEF L!CommitView, L!Ends, L!Idle, Viewing
<1>2. /\ ViewHolds(viewing[w]) /\ PageHolds(k, viewing[w].what)
      /\ seen \in Nat /\ seen <= Pages(k) /\ (serial => seen = Pages(k))
  BY <1>0, <1>1 DEF ViewsHold, ViewHolds, RowHolds, LinkRows
<1>3. L!Idle.op \notin {"render", "view"}
  BY DEF L!Idle
<1>4. CASE UNCHANGED <<reports, shown>>
  <2>1. Grows /\ \A l : Pages(l)' = Pages(l)
    BY <1>1, <1>4, NoPageCounted
  <2>2. LinksStand'
    BY <1>1, <1>4, <2>1 DEF LinksStand, RowHolds, PageHolds, LinkRows
  <2>3. PagesHold'
    BY <1>1, <1>3, <1>4, PagesEnd
  <2> QED
    BY <1>1, <1>4, <2>1, <2>2, <2>3, LinksEnd
<1>5. CASE ~UNCHANGED <<reports, shown>>
  <2>0. PICK s : s = [page |-> Cardinality(shown) + 1, link |-> k, what |-> viewing[w].what]
    OBVIOUS
  <2>1. /\ k \in DOMAIN reports /\ shown' = shown \union {s}
        /\ reports' = [reports EXCEPT ![k] = [reports[k] EXCEPT !.views = seen + 1]]
    BY <1>0, <1>5, <2>0, SameCardinality DEF L!CommitView, L!Viewed
  <2>2. /\ Cardinality(shown) \in Nat /\ IsFiniteSet(shown)
        /\ \A l : Pages(l) \in Nat /\ IsFiniteSet({t \in shown : t.link = l})
    BY PagesCounted, FS_CardinalityType, FS_Subset DEF PagesHold
  <2>3. s \notin shown /\ s.link = k /\ s.what = viewing[w].what
    BY <2>0, <2>2 DEF PagesHold
  <2>4. Cardinality(shown') = Cardinality(shown) + 1 /\ IsFiniteSet(shown')
    BY <2>1, <2>2, <2>3, FS_AddElement
  <2>5. Pages(k)' = Pages(k) + 1
    <3> DEFINE S == {t \in shown : t.link = k}
    <3>1. {t \in shown' : t.link = k} = S \union {s} /\ s \notin S /\ IsFiniteSet(S)
      BY <2>1, <2>2, <2>3
    <3>2. Pages(k) = Cardinality(S) /\ Pages(k)' = Cardinality({t \in shown' : t.link = k})
      BY DEF Pages
    <3> HIDE DEF S
    <3>3. Cardinality(S \union {s}) = Cardinality(S) + 1
      BY <3>1, FS_AddElement
    <3> QED
      BY <3>1, <3>2, <3>3
  <2>6. ASSUME NEW l, l # k PROVE Pages(l)' = Pages(l)
    <3>1. {t \in shown' : t.link = l} = {t \in shown : t.link = l}
      BY <2>1, <2>3, <2>6
    <3> QED
      BY <3>1 DEF Pages
  <2>7. /\ DOMAIN reports' = DOMAIN reports
        /\ \A l \in DOMAIN reports :
             /\ reports[l] \in LinkRows /\ reports'[l] \in LinkRows
             /\ reports'[l].kind = reports[l].kind /\ reports'[l].execution = reports[l].execution
             /\ reports'[l].version = reports[l].version
             /\ reports'[l].revoked = reports[l].revoked
             /\ reports'[l].views = IF l = k THEN seen + 1 ELSE reports[l].views
    <3>1. \A l \in DOMAIN reports : reports[l] \in LinkRows
      BY DEF LinksStand, RowHolds
    <3>2. DOMAIN reports' = DOMAIN reports
      BY <2>1
    <3>3. /\ reports'[k] = [reports[k] EXCEPT !.views = seen + 1]
          /\ \A l \in DOMAIN reports : l # k => reports'[l] = reports[l]
      BY <2>1
    <3>4. /\ reports'[k] \in LinkRows /\ reports'[k].views = seen + 1
          /\ reports'[k].kind = reports[k].kind /\ reports'[k].execution = reports[k].execution
          /\ reports'[k].version = reports[k].version
          /\ reports'[k].revoked = reports[k].revoked
      BY <1>2, <2>1, <3>1, <3>3 DEF LinkRows
    <3> QED
      BY <3>1, <3>2, <3>3, <3>4
  <2>8. Grows
    <3>1. ASSUME NEW l PROVE Pages(l) \in Nat /\ Pages(l)' \in Nat /\ Pages(l) <= Pages(l)'
      <4>1. Pages(l) \in Nat
        BY <2>2
      <4>2. CASE l = k
        BY <2>5, <4>1, <4>2
      <4>3. CASE l # k
        <5>1. Pages(l)' = Pages(l)
          BY <2>6, <4>3
        <5> QED
          BY <4>1, <5>1
      <4> QED
        BY <4>2, <4>3
    <3>2. \A l \in DOMAIN reports' : l \in DOMAIN reports /\ reports'[l].revoked = reports[l].revoked
      BY <2>7
    <3> QED
      BY <1>1, <3>1, <3>2 DEF Grows
  <2>9. LinksStand'
    <3>1. ASSUME NEW l \in DOMAIN reports'
          PROVE  /\ RowHolds(l, reports[l])'
                 /\ reports'[l].execution \in executions \union {Nobody}
                 /\ reports'[l].version \in versions \union {Nobody}
                 /\ l \in closed => reports'[l].revoked
                 /\ reports'[l].views > 0 \/ ~(Pages(l)' > 0)
                 /\ serial => reports'[l].views = Pages(l)'
      <4>1. l \in DOMAIN reports /\ RowHolds(l, reports[l]) /\ Pages(l) \in Nat
        BY <2>2, <2>7 DEF LinksStand
      <4>2. reports'[l].views <= Pages(l)'
        BY <1>2, <2>2, <2>5, <2>6, <2>7, <4>1 DEF RowHolds
      <4>3. RowHolds(l, reports[l])'
        BY <1>1, <2>7, <4>1, <4>2 DEF RowHolds, LinkRows
      <4>4. reports'[l].views > 0 \/ ~(Pages(l)' > 0)
        BY <1>2, <2>6, <2>7, <4>1 DEF LinksStand
      <4>5. serial => reports'[l].views = Pages(l)'
        BY <1>2, <2>5, <2>6, <2>7, <4>1 DEF LinksStand
      <4> QED
        BY <2>7, <4>1, <4>3, <4>4, <4>5 DEF LinksStand
    <3>2. \A t \in shown' : PageHolds(t.link, t.what)'
      <4>1. \A t \in shown' : PageHolds(t.link, t.what)
        BY <1>2, <2>1, <2>3 DEF LinksStand
      <4> QED
        BY <1>1, <4>1 DEF PageHolds
    <3> QED
      BY <1>1, <3>1, <3>2 DEF LinksStand
  <2>10. PagesHold'
    <3>1. /\ IsFiniteSet(Viewing') /\ Cardinality(Viewing') \in Nat /\ Cardinality(Viewing) \in Nat
          /\ Cardinality(Viewing') + 1 <= Cardinality(Viewing)
      BY <1>1, <1>3, ViewingChanges
    <3>2. \A t \in shown' : t.page \in 1 .. Cardinality(shown') /\ t.link \in DOMAIN issued
      BY <1>2, <2>0, <2>1, <2>2, <2>3, <2>4 DEF PagesHold, PageHolds
    <3> QED
      BY <1>1, <2>2, <2>4, <3>1, <3>2 DEF PagesHold
  <2> QED
    BY <1>1, <2>8, <2>9, <2>10, LinksEnd
<1> QED
  BY <1>4, <1>5

\* A step that answers no page and ends no request leaves the requests as they are.
LEMMA ViewersStay ==
  ASSUME LinksHold, Grows, UNCHANGED <<viewing, shown>>,
         requests' \in 0 .. MaxRequests, requests <= requests'
  PROVE  PagesHold' /\ ViewsHold' /\ OneView'
<1> USE DEF LinksHold
<1>1. PagesHold'
  <2>1. Viewing' = Viewing
    BY DEF Viewing
  <2>2. Cardinality(shown) \in Nat /\ Cardinality(Viewing) \in Nat
    BY FS_CardinalityType DEF PagesHold
  <2> QED
    BY <2>1, <2>2 DEF PagesHold, Grows
<1>2. ViewsHold'
  <2>1. ASSUME NEW w \in Workers PROVE ViewHolds(viewing[w])'
    BY ViewStays DEF ViewsHold
  <2> QED
    BY <2>1 DEF ViewsHold
<1>3. OneView'
  BY DEF OneView, Grows
<1> QED
  BY <1>1, <1>2, <1>3

LEMMA IssueHolds ==
  ASSUME LinksHold, NEW kind \in {"execution", "bug_report"},
         NEW e \in Executions \union {Nobody}, NEW v \in Versions \union {Nobody},
         NEW x \in {0, clock + 1}, L!Issue(kind, e, v, x)
  PROVE  LinksHold'
<1> USE DEF LinksHold
<1>1. PICK n \in Nat : DOMAIN issued = 1 .. n
  BY DEF LinksStand
<1>2. L!Cardinality(DOMAIN issued) = n
  BY <1>1, SameCardinality, FS_Interval
<1>3. PICK l, row : l = n + 1 /\ row = [kind |-> kind, execution |-> e, version |-> v,
                                        expires |-> x, revoked |-> FALSE, views |-> 0]
  OBVIOUS
<1>4. /\ requests < MaxRequests /\ requests' = requests + 1
      /\ UNCHANGED <<serial, clock, viewing, shown, executions, versions, closed>>
      /\ e \in executions \union {Nobody} /\ v \in versions \union {Nobody}
      /\ issued' = [i \in DOMAIN issued \union {l} |-> IF i = l THEN L!Of(kind, e, v) ELSE issued[i]]
      /\ reports' = [i \in DOMAIN reports \union {l} |-> IF i # l THEN reports[i] ELSE row]
  BY <1>2, <1>3 DEF L!Issue, L!Serves
<1>5. /\ DOMAIN issued' = 1 .. l /\ l \in Nat /\ l \notin DOMAIN issued /\ issued'[l] = L!Of(kind, e, v)
      /\ \A i \in DOMAIN issued : i \in DOMAIN issued' /\ issued'[i] = issued[i]
  BY <1>1, <1>3, <1>4
<1>6. l \notin DOMAIN reports /\ l \notin closed /\ \A s \in shown : s.link # l
  BY <1>5 DEF LinksStand, RowHolds, PagesHold
<1>7. Grows /\ \A k : Pages(k)' = Pages(k)
  BY <1>4, <1>5, <1>6, NoPageCounted
<1>8. Pages(l)' = 0
  <2>1. {s \in shown : s.link = l} = {}
    BY <1>6
  <2>2. Pages(l) = 0
    BY <2>1, FS_EmptySet DEF Pages
  <2> QED
    BY <1>7, <2>2
<1>9. LinksStand'
  <2>1. ASSUME NEW k \in DOMAIN reports
        PROVE  /\ RowHolds(k, reports[k])'
               /\ reports'[k].execution \in executions' \union {Nobody}
               /\ reports'[k].version \in versions' \union {Nobody}
               /\ k \in closed' => reports'[k].revoked
               /\ Pages(k)' > 0 => reports'[k].views > 0
               /\ serial' => reports'[k].views = Pages(k)'
    <3>1. k # l /\ reports'[k] = reports[k] /\ RowHolds(k, reports[k])
      BY <1>4, <1>6 DEF LinksStand
    <3>2. RowHolds(k, reports[k])'
      BY <1>7, <3>1, RowStays DEF RowHolds, LinkRows
    <3> QED
      BY <1>4, <1>7, <3>1, <3>2 DEF LinksStand
  <2>2. /\ RowHolds(l, reports[l])'
        /\ reports'[l].execution \in executions' \union {Nobody}
        /\ reports'[l].version \in versions' \union {Nobody}
        /\ reports'[l].views = Pages(l)' /\ ~(Pages(l)' > 0)
    <3>1. reports'[l] = row
      BY <1>4
    <3>2. row \in LinkRows
      <4>1. x \in 0 .. LinkTime + 1
        BY DEF LinksStand
      <4> QED
        BY <1>3, <4>1 DEF LinkRows
    <3>3. RowHolds(l, reports[l])'
      BY <1>3, <1>5, <1>8, <3>1, <3>2 DEF RowHolds, LinkRows, L!Of
    <3> QED
      BY <1>3, <1>4, <1>8, <3>1, <3>3
  <2>3. \A s \in shown' : PageHolds(s.link, s.what)'
    <3> SUFFICES ASSUME NEW s \in shown PROVE PageHolds(s.link, s.what)'
      BY <1>4
    <3>1. PageHolds(s.link, s.what)
      BY DEF LinksStand
    <3> QED
      BY <1>7, <3>1, PageStays DEF PageHolds
  <2>4. DOMAIN reports' = DOMAIN reports \union {l}
    BY <1>4
  <2>5. closed' \subseteq DOMAIN issued' /\ \E m \in Nat : DOMAIN issued' = 1 .. m
    BY <1>4, <1>5 DEF LinksStand
  <2> QED
    BY <1>4, <1>6, <2>1, <2>2, <2>3, <2>4, <2>5 DEF LinksStand
<1>10. requests' \in 0 .. MaxRequests /\ requests <= requests'
  BY <1>4 DEF PagesHold
<1> QED
  BY <1>4, <1>7, <1>9, <1>10, ViewersStay

\* A deletion takes links, or the version of a link: what is left says what it said.
LEMMA DeletionHolds ==
  ASSUME LinksHold,
         (\E e \in executions : L!DeleteExecution(e)) \/ \E v \in versions : L!DeleteVersion(v)
  PROVE  LinksHold'
<1> USE DEF LinksHold
<1>1. /\ requests < MaxRequests /\ requests' = requests + 1
      /\ UNCHANGED <<serial, clock, viewing, shown, issued, closed>>
      /\ executions' \subseteq executions /\ versions' \subseteq versions
      /\ DOMAIN reports' \subseteq DOMAIN reports
      /\ \A l \in DOMAIN reports' :
           \/ /\ reports'[l] = reports[l]
              /\ reports[l].execution \in executions => reports[l].execution \in executions'
              /\ reports[l].version \in versions => reports[l].version \in versions'
           \/ /\ reports'[l] = [reports[l] EXCEPT !.version = Nobody]
              /\ executions' = executions
              /\ reports[l].version \in versions \ versions'
  <2>1. ASSUME NEW e \in executions, L!DeleteExecution(e)
        PROVE  /\ UNCHANGED <<serial, clock, viewing, shown, issued, closed, versions>>
               /\ requests < MaxRequests /\ requests' = requests + 1 /\ executions' = executions \ {e}
               /\ DOMAIN reports' \subseteq DOMAIN reports
               /\ \A l \in DOMAIN reports' : reports'[l] = reports[l] /\ reports[l].execution # e
    BY <2>1 DEF L!DeleteExecution, L!Serves
  <2>2. ASSUME NEW v \in versions, L!DeleteVersion(v)
        PROVE  /\ UNCHANGED <<serial, clock, viewing, shown, issued, closed, executions>>
               /\ requests < MaxRequests /\ requests' = requests + 1 /\ versions' = versions \ {v}
               /\ DOMAIN reports' = DOMAIN reports
               /\ \A l \in DOMAIN reports' :
                    reports'[l] = IF reports[l].version = v THEN [reports[l] EXCEPT !.version = Nobody]
                                  ELSE reports[l]
    BY <2>2 DEF L!DeleteVersion, L!Serves
  <2> QED
    BY <2>1, <2>2
<1>2. ASSUME NEW l \in DOMAIN reports'
      PROVE  /\ l \in DOMAIN reports /\ RowHolds(l, reports[l]) /\ reports'[l] \in LinkRows
             /\ reports'[l].kind = reports[l].kind /\ reports'[l].execution = reports[l].execution
             /\ reports'[l].views = reports[l].views
             /\ reports[l].revoked => reports'[l].revoked
             /\ reports'[l].version = reports[l].version
                  \/ (reports'[l].version = Nobody /\ reports[l].version \notin versions')
             /\ reports'[l].execution \in executions' \union {Nobody}
             /\ reports'[l].version \in versions' \union {Nobody}
  <2>1. l \in DOMAIN reports /\ RowHolds(l, reports[l]) /\ reports[l] \in LinkRows
        /\ reports[l].execution \in executions \union {Nobody}
        /\ reports[l].version \in versions \union {Nobody}
    BY <1>1 DEF LinksStand, RowHolds
  <2>2. CASE /\ reports'[l] = reports[l]
             /\ reports[l].execution \in executions => reports[l].execution \in executions'
             /\ reports[l].version \in versions => reports[l].version \in versions'
    <3>1. /\ reports[l].execution \in executions' \union {Nobody}
          /\ reports[l].version \in versions' \union {Nobody}
      BY <2>1, <2>2
    <3> QED
      BY <2>1, <2>2, <3>1
  <2>3. CASE /\ reports'[l] = [reports[l] EXCEPT !.version = Nobody] /\ executions' = executions
             /\ reports[l].version \in versions \ versions'
    <3>1. /\ reports'[l].kind = reports[l].kind /\ reports'[l].execution = reports[l].execution
          /\ reports'[l].views = reports[l].views /\ reports'[l].revoked = reports[l].revoked
          /\ reports'[l].version = Nobody
      BY <2>1, <2>3 DEF LinkRows
    <3>2. reports'[l] \in LinkRows
      BY <2>1, <2>3 DEF LinkRows
    <3> QED
      BY <2>1, <2>3, <3>1, <3>2
  <2> QED
    BY <1>1, <2>2, <2>3
<1>3. Grows /\ \A k : Pages(k)' = Pages(k)
  BY <1>1, <1>2, NoPageCounted
<1>4. LinksStand'
  <2>1. ASSUME NEW l \in DOMAIN reports'
        PROVE  /\ RowHolds(l, reports[l])'
               /\ l \in closed' => reports'[l].revoked
               /\ Pages(l)' > 0 => reports'[l].views > 0
               /\ serial' => reports'[l].views = Pages(l)'
    <3>1. RowHolds(l, reports[l])'
      BY <1>1, <1>2, <1>3 DEF RowHolds
    <3> QED
      BY <1>1, <1>2, <1>3, <3>1 DEF LinksStand
  <2>2. \A s \in shown' : PageHolds(s.link, s.what)'
    <3> SUFFICES ASSUME NEW s \in shown PROVE PageHolds(s.link, s.what)'
      BY <1>1
    <3>1. PageHolds(s.link, s.what)
      BY DEF LinksStand
    <3> QED
      BY <1>3, <3>1, PageStays DEF PageHolds
  <2> QED
    BY <1>1, <1>2, <2>1, <2>2 DEF LinksStand
<1>5. requests' \in 0 .. MaxRequests /\ requests <= requests'
  BY <1>1 DEF PagesHold
<1> QED
  BY <1>1, <1>3, <1>4, <1>5, ViewersStay

\* Time passes, or a request of another machine begins.
LEMMA LinksWait ==
  ASSUME LinksHold, L!Tick \/ UNCHANGED linkVars, Counted PROVE LinksHold'
<1> USE DEF LinksHold
<1>1. /\ UNCHANGED <<serial, executions, versions, reports, viewing, issued, closed, shown>>
      /\ clock' \in 0 .. LinkTime /\ requests' \in 0 .. MaxRequests /\ requests <= requests'
  BY DEF L!Tick, linkVars, Counted, LinksStand, PagesHold
<1>2. Grows /\ \A k : Pages(k)' = Pages(k)
  BY <1>1, NoPageCounted
<1>3. LinksStand'
  BY <1>1, <1>2 DEF LinksStand, RowHolds, PageHolds, LinkRows
<1> QED
  BY <1>1, <1>2, <1>3, ViewersStay

LEMMA LinksNext == LinksHold /\ [L!Next]_linkVars /\ Counted => LinksHold'
  BY LinksBegin, RevokeEnds, RenderHolds, ViewEnds, IssueHolds, DeletionHolds, LinksWait DEF L!Next

\* Whatever the requests that overlap, for any number of links and of requests: a link whose
\* revocation was answered never opens again, a page shows what its link was issued for, and
\* a link counts no page twice, none too many, and every one where requests do not overlap.
THEOREM LinksStayBounded == Spec => []LinksAreBounded
<1>1. Init => LinksHold
  BY LinksInit DEF Init
<1>2. LinksHold /\ [Next]_allVars => LinksHold'
  BY OneMachine, LinksNext
<1>3. LinksHold => LinksAreBounded
  BY LinksHoldAgree DEF LinksAreBounded
<1> QED
  BY <1>1, <1>2, <1>3, PTL DEF Spec, allVars

-----------------------------------------------------------------------------
(* Members and ownership.                                                  *)

Roles == A!VALID_ROLES \union {"editor"}
ProjectWrites ==
  [op : {"none", "member", "transfer", "project", "deleteUser"},
   add : SUBSET [user : Users, role : A!VALID_ROLES],
   set : SUBSET [id : 1 .. MaxRows, role : Roles], del : SUBSET (1 .. MaxRows),
   user : Users \union {Nobody}, to : {"same", "active", "archived", "deleted"}]

\* A request adds one row at most.
Proper(r) == r \in ProjectWrites /\ (r.add = {} \/ \E a \in r.add : r.add = {a})

\* A request that is served alone adds rows only for users without one, and leaves an
\* active project with an owner, unless it is of the members API.
AloneHolds(r) ==
  /\ \A a \in r.add, m \in members : m.user # a.user
  /\ project = "active" /\ r.to = "same" /\ r.op # "member" =>
       let_go \/ \E m \in A!RowsAfter(r) : m.role = "owner"

ChangesHold ==
  /\ changes = [w \in Workers |-> changes[w]]
  /\ \A w \in Workers : \A r \in {changes[w]} :
       Proper(r) /\ (serial /\ r # A!Idle => AloneHolds(r))
  /\ serial => \A v, w \in Workers : changes[v] # A!Idle /\ changes[w] # A!Idle => v = w

MembersHold ==
  /\ A!TypeOK /\ \A m \in members : m.id <= made
  /\ serial => \A m, n \in members : m.user = n.user => m = n
  /\ A!OwnerRemains

AccessHolds == MembersHold /\ ChangesHold

LEMMA ValidRoles == A!VALID_ROLES = {"owner", "tester", "viewer"}
  BY DEF A!VALID_ROLES, A!ROLE_PRIORITY

LEMMA OneAtMost ==
  /\ A!Cardinality({}) = 0
  /\ \A x : A!Cardinality({x}) = 1
<1>1. \A S : A!Cardinality(S) = Cardinality(S)
  BY DEF A!Cardinality, Cardinality, A!IsFiniteSet, IsFiniteSet
<1>2. Cardinality({}) = 0
  BY FS_EmptySet
<1>3. \A x : Cardinality({x}) = 1
  BY FS_Singleton
<1> QED
  BY <1>1, <1>2, <1>3, Zenon

\* Whoever has one row and a role that is known may open the project.
LEMMA RoleOpens ==
  A!TypeOK /\ (serial => \A m, n \in members : m.user = n.user => m = n) => A!ShownIsOpen
<1> SUFFICES ASSUME A!TypeOK, serial, \A m, n \in members : m.user = n.user => m = n, NEW u \in Users,
                    ~\E r \in A!RowsOf(u) : r.role = "editor"
             PROVE  A!Accessible(u) <=> A!effective_role(u) \in A!VALID_ROLES
  BY Zenon DEF A!ShownIsOpen
<1>0. ~(A!Cardinality(A!RowsOf(u)) > 1)
  <2>1. A!RowsOf(u) = {} \/ \E r : A!RowsOf(u) = {r}
    BY DEF A!RowsOf
  <2>2. A!Cardinality(A!RowsOf(u)) \in {0, 1}
    BY <2>1, OneAtMost, Zenon
  <2> QED
    BY <2>2
<1> DEFINE known == A!Candidates(u) \intersect A!VALID_ROLES
<1>1. A!Accessible(u) <=> known # {}
  <2>1. ASSUME NEW r \in A!RowsOf(u) PROVE r.role \in known
    BY DEF A!RowsOf, A!Candidates, A!TypeOK
  <2>2. ASSUME u \in team, grant # "none" PROVE grant \in known
    BY <2>2 DEF A!Candidates, A!TypeOK
  <2>3. ASSUME NEW x \in known PROVE A!Accessible(u)
    <3>1. (\E r \in A!RowsOf(u) : x = r.role) \/ (u \in team /\ x = grant)
      BY DEF A!Candidates
    <3>2. x # "none"
      BY ValidRoles
    <3> QED
      BY <3>1, <3>2 DEF A!Accessible
  <2> HIDE DEF known
  <2> QED
    BY <2>1, <2>2, <2>3 DEF A!Accessible
<1>2. ASSUME known # {} PROVE A!effective_role(u) \in known
  <2> DEFINE Best(r) == \A s \in known : A!ROLE_PRIORITY[s] <= A!ROLE_PRIORITY[r]
  <2>1. \E r \in known : Best(r)
    <3>1. known \subseteq {"owner", "tester", "viewer"}
      BY ValidRoles
    <3>2. A!ROLE_PRIORITY["owner"] = 3 /\ A!ROLE_PRIORITY["tester"] = 2 /\ A!ROLE_PRIORITY["viewer"] = 1
      BY DEF A!ROLE_PRIORITY
    <3> HIDE DEF known
    <3>3. CASE "owner" \in known
      BY <3>1, <3>2, <3>3
    <3>4. CASE "owner" \notin known /\ "tester" \in known
      BY <3>1, <3>2, <3>4
    <3>5. CASE "owner" \notin known /\ "tester" \notin known
      <4>1. known = {"viewer"}
        BY <1>2, <3>1, <3>5
      <4>2. \A s \in known : A!ROLE_PRIORITY[s] <= A!ROLE_PRIORITY["viewer"]
        BY <3>2, <4>1
      <4> QED
        BY <4>1, <4>2
    <3> QED
      BY <3>3, <3>4, <3>5
  <2>2. A!effective_role(u) = CHOOSE r \in known : Best(r)
    BY <1>0, <1>2 DEF A!effective_role
  <2> HIDE DEF known, Best
  <2> QED
    BY <2>1, <2>2
<1>3. known = {} => A!effective_role(u) = "none"
  BY <1>0 DEF A!effective_role
<1>4. known \subseteq A!VALID_ROLES /\ "none" \notin A!VALID_ROLES
  BY ValidRoles
<1> HIDE DEF known
<1> QED
  BY <1>1, <1>2, <1>3, <1>4

LEMMA AccessHoldAgrees == AccessHolds => A!AccessAgrees
<1> SUFFICES ASSUME AccessHolds PROVE A!AccessAgrees
  OBVIOUS
<1>1. A!TypeOK /\ A!OwnerRemains
  BY DEF AccessHolds, MembersHold
<1>2. A!OneRowPerUser
  <2> SUFFICES ASSUME serial, NEW u \in Users PROVE A!Cardinality(A!RowsOf(u)) <= 1
    BY Zenon DEF A!OneRowPerUser
  <2>1. A!RowsOf(u) = {} \/ \E r : A!RowsOf(u) = {r}
    BY DEF A!RowsOf, AccessHolds, MembersHold
  <2>2. A!Cardinality(A!RowsOf(u)) \in {0, 1}
    BY <2>1, OneAtMost, Zenon
  <2> QED
    BY <2>2
<1> QED
  BY <1>1, <1>2, RoleOpens, Zenon DEF A!AccessAgrees, AccessHolds, MembersHold

LEMMA AccessInit == A!Init => AccessHolds
<1> SUFFICES ASSUME A!Init PROVE AccessHolds
  OBVIOUS
<1>1. PICK u \in Users : members = {A!Row(1, u, "owner")}
  BY DEF A!Init
<1>2. MembersHold
  <2>1. A!Row(1, u, "owner") \in [id : 1 .. MaxRows, user : Users, role : Roles]
    BY ValidRoles DEF A!Row, Roles
  <2>2. A!TypeOK
    BY <1>1, <2>1, ValidRoles DEF A!Init, A!TypeOK, Roles
  <2>3. A!Owners # {}
    <3>1. A!Row(1, u, "owner").role = "owner"
      BY DEF A!Row
    <3> QED
      BY <1>1, <3>1, Zenon DEF A!Owners
  <2>4. (\A m \in members : m.id <= made) /\ \A m, n \in members : m = n
    BY <1>1 DEF A!Init, A!Row
  <2> QED
    BY <2>2, <2>3, <2>4 DEF MembersHold, A!OwnerRemains
<1>3. ChangesHold
  <2>1. \A w \in Workers : changes[w] = A!Idle
    BY DEF A!Init
  <2>2. Proper(A!Idle)
    BY DEF Proper, A!Idle, ProjectWrites
  <2>3. changes = [w \in Workers |-> changes[w]]
    BY DEF A!Init
  <2>4. ASSUME serial PROVE \A v, w \in Workers : changes[v] # A!Idle /\ changes[w] # A!Idle => v = w
    BY <2>1
  <2> QED
    BY <2>1, <2>2, <2>3, <2>4, Zenon DEF ChangesHold
<1> QED
  BY <1>2, <1>3 DEF AccessHolds

-----------------------------------------------------------------------------
(* A request begins.                                                       *)

LEMMA ChangeBegins ==
  ASSUME AccessHolds, NEW w \in Workers, A!Serve(w), NEW r, changes' = [changes EXCEPT ![w] = r],
         Proper(r), serial /\ r # A!Idle => AloneHolds(r),
         requests' \in 0 .. MaxRequests, UNCHANGED <<serial, A!tables, let_go>>
  PROVE  AccessHolds'
<1>1. \A v \in Workers : changes'[v] = IF v = w THEN r ELSE changes[v]
  BY Zenon DEF AccessHolds, ChangesHold
<1>2. /\ serial' = serial /\ account' = account /\ project' = project /\ members' = members
      /\ made' = made /\ team' = team /\ grant' = grant /\ let_go' = let_go
  BY DEF A!tables
<1>3. MembersHold'
  <2>1. A!TypeOK'
    BY <1>2 DEF AccessHolds, MembersHold, A!TypeOK
  <2>2. A!OwnerRemains'
    <3>1. A!Owners' = A!Owners
      BY <1>2 DEF A!Owners
    <3>2. serial /\ project = "active" => A!Owners # {} \/ let_go
      BY Zenon DEF AccessHolds, MembersHold, A!OwnerRemains
    <3> QED
      BY <1>2, <3>1, <3>2 DEF A!OwnerRemains
  <2> QED
    BY <1>2, <2>1, <2>2 DEF AccessHolds, MembersHold
<1>4. ASSUME NEW q PROVE AloneHolds(q)' <=> AloneHolds(q)
  <2>1. A!RowsAfter(q)' = A!RowsAfter(q)
    BY <1>2 DEF A!RowsAfter, A!RoleAfter
  <2>2. members' = members /\ project' = project
    BY <1>2
  <2> QED
    BY <1>2, <2>1, <2>2 DEF AloneHolds
<1>5. ChangesHold'
  <2>1. ASSUME NEW v \in Workers, NEW q \in {changes'[v]}
        PROVE  Proper(q) /\ (serial' /\ q # A!Idle => AloneHolds(q)')
    <3>1. Proper(q) /\ (serial /\ q # A!Idle => AloneHolds(q))
      BY <1>1 DEF AccessHolds, ChangesHold
    <3>2. AloneHolds(q)' <=> AloneHolds(q)
      BY <1>4
    <3> QED
      BY <1>2, <3>1, <3>2
  <2>2. changes' = [v \in Workers |-> changes'[v]]
    BY DEF AccessHolds, ChangesHold
  <2>3. serial' => \A u, v \in Workers : changes'[u] # A!Idle /\ changes'[v] # A!Idle => u = v
    BY <1>1, <1>2 DEF A!Serve
  <2> QED
    BY <2>1, <2>2, <2>3, Zenon DEF ChangesHold, Proper
<1> QED
  BY <1>3, <1>5 DEF AccessHolds

\* A request of an owner of the project begins.
LEMMA OwnerBegins ==
  ASSUME AccessHolds, Counted, NEW w \in Workers, NEW by, NEW r, A!Begin(w, by, r),
         Proper(r), serial /\ r # A!Idle => AloneHolds(r)
  PROVE  AccessHolds'
<1>1. requests' \in 0 .. MaxRequests
  BY DEF Counted, AccessHolds, MembersHold, A!TypeOK
<1> QED
  BY <1>1, ChangeBegins DEF A!Begin

\* The records of writes that requests make from Idle.
Draft(op, add, set, del, who, to) ==
  [op |-> op, add |-> add, set |-> set, del |-> del, user |-> who, to |-> to]

LEMMA OpWritten ==
  ASSUME NEW a, NEW b, NEW c, NEW d, NEW e, NEW f, NEW x, NEW r, r = Draft(a, b, c, d, e, f)
  PROVE  [r EXCEPT !.op = x] = Draft(x, b, c, d, e, f)
  BY DEF Draft

LEMMA AddWritten ==
  ASSUME NEW a, NEW b, NEW c, NEW d, NEW e, NEW f, NEW x, NEW r, r = Draft(a, b, c, d, e, f)
  PROVE  [r EXCEPT !.add = x] = Draft(a, x, c, d, e, f)
  BY DEF Draft

LEMMA SetWritten ==
  ASSUME NEW a, NEW b, NEW c, NEW d, NEW e, NEW f, NEW x, NEW r, r = Draft(a, b, c, d, e, f)
  PROVE  [r EXCEPT !.set = x] = Draft(a, b, x, d, e, f)
  BY DEF Draft

LEMMA DelWritten ==
  ASSUME NEW a, NEW b, NEW c, NEW d, NEW e, NEW f, NEW x, NEW r, r = Draft(a, b, c, d, e, f)
  PROVE  [r EXCEPT !.del = x] = Draft(a, b, c, x, e, f)
  BY DEF Draft

LEMMA UserWritten ==
  ASSUME NEW a, NEW b, NEW c, NEW d, NEW e, NEW f, NEW x, NEW r, r = Draft(a, b, c, d, e, f)
  PROVE  [r EXCEPT !.user = x] = Draft(a, b, c, d, x, f)
  BY DEF Draft

LEMMA ToWritten ==
  ASSUME NEW a, NEW b, NEW c, NEW d, NEW e, NEW f, NEW x, NEW r, r = Draft(a, b, c, d, e, f)
  PROVE  [r EXCEPT !.to = x] = Draft(a, b, c, d, e, x)
  BY DEF Draft

LEMMA IdleDraft == A!Idle = Draft("none", {}, {}, {}, Nobody, "same")
  BY DEF A!Idle, Draft

LEMMA AddDraft ==
  ASSUME NEW op, NEW add
  PROVE  [A!Idle EXCEPT !.op = op, !.add = add] = Draft(op, add, {}, {}, Nobody, "same")
<1>1. PICK q : q = [A!Idle EXCEPT !.op = op]
  OBVIOUS
<1>2. q = Draft(op, {}, {}, {}, Nobody, "same")
  BY IdleDraft, <1>1, OpWritten
<1>3. [q EXCEPT !.add = add] = Draft(op, add, {}, {}, Nobody, "same")
  BY <1>2, AddWritten
<1> QED
  BY <1>1, <1>3, Zenon

LEMMA SetDraft ==
  ASSUME NEW op, NEW set
  PROVE  [A!Idle EXCEPT !.op = op, !.set = set] = Draft(op, {}, set, {}, Nobody, "same")
<1>1. PICK q : q = [A!Idle EXCEPT !.op = op]
  OBVIOUS
<1>2. q = Draft(op, {}, {}, {}, Nobody, "same")
  BY IdleDraft, <1>1, OpWritten
<1>3. [q EXCEPT !.set = set] = Draft(op, {}, set, {}, Nobody, "same")
  BY <1>2, SetWritten
<1> QED
  BY <1>1, <1>3, Zenon

LEMMA DelDraft ==
  ASSUME NEW op, NEW del
  PROVE  [A!Idle EXCEPT !.op = op, !.del = del] = Draft(op, {}, {}, del, Nobody, "same")
<1>1. PICK q : q = [A!Idle EXCEPT !.op = op]
  OBVIOUS
<1>2. q = Draft(op, {}, {}, {}, Nobody, "same")
  BY IdleDraft, <1>1, OpWritten
<1>3. [q EXCEPT !.del = del] = Draft(op, {}, {}, del, Nobody, "same")
  BY <1>2, DelWritten
<1> QED
  BY <1>1, <1>3, Zenon

LEMMA ToDraft ==
  ASSUME NEW op, NEW to
  PROVE  [A!Idle EXCEPT !.op = op, !.to = to] = Draft(op, {}, {}, {}, Nobody, to)
<1>1. PICK q : q = [A!Idle EXCEPT !.op = op]
  OBVIOUS
<1>2. q = Draft(op, {}, {}, {}, Nobody, "same")
  BY IdleDraft, <1>1, OpWritten
<1>3. [q EXCEPT !.to = to] = Draft(op, {}, {}, {}, Nobody, to)
  BY <1>2, ToWritten
<1> QED
  BY <1>1, <1>3, Zenon

LEMMA BothDraft ==
  ASSUME NEW op, NEW add, NEW set
  PROVE  [A!Idle EXCEPT !.op = op, !.add = add, !.set = set] = Draft(op, add, set, {}, Nobody, "same")
<1>1. PICK q : q = [A!Idle EXCEPT !.op = op]
  OBVIOUS
<1>2. q = Draft(op, {}, {}, {}, Nobody, "same")
  BY IdleDraft, <1>1, OpWritten
<1>3. PICK r : r = [q EXCEPT !.add = add]
  OBVIOUS
<1>4. r = Draft(op, add, {}, {}, Nobody, "same")
  BY <1>2, <1>3, AddWritten
<1>5. [r EXCEPT !.set = set] = Draft(op, add, set, {}, Nobody, "same")
  BY <1>4, SetWritten
<1> QED
  BY <1>1, <1>3, <1>5, Zenon

LEMMA UserDraft ==
  ASSUME NEW op, NEW who
  PROVE  [A!Idle EXCEPT !.op = op, !.user = who] = Draft(op, {}, {}, {}, who, "same")
<1>1. PICK q : q = [A!Idle EXCEPT !.op = op]
  OBVIOUS
<1>2. q = Draft(op, {}, {}, {}, Nobody, "same")
  BY IdleDraft, <1>1, OpWritten
<1>3. [q EXCEPT !.user = who] = Draft(op, {}, {}, {}, who, "same")
  BY <1>2, UserWritten
<1> QED
  BY <1>1, <1>3, Zenon

LEMMA ArchiveDraft ==
  ASSUME NEW to, NEW op, NEW who
  PROVE  [[A!Idle EXCEPT !.to = to] EXCEPT !.op = op, !.user = who] = Draft(op, {}, {}, {}, who, to)
<1>1. PICK q : q = [A!Idle EXCEPT !.to = to]
  OBVIOUS
<1>2. q = Draft("none", {}, {}, {}, Nobody, to)
  BY IdleDraft, <1>1, ToWritten
<1>3. PICK r : r = [q EXCEPT !.op = op]
  OBVIOUS
<1>4. r = Draft(op, {}, {}, {}, Nobody, to)
  BY <1>2, <1>3, OpWritten
<1>5. [r EXCEPT !.user = who] = Draft(op, {}, {}, {}, who, to)
  BY <1>4, UserWritten
<1> QED
  BY <1>1, <1>3, <1>5, Zenon

LEMMA GiveDraft ==
  ASSUME NEW add, NEW set, NEW op, NEW who
  PROVE  [[A!Idle EXCEPT !.add = add, !.set = set] EXCEPT !.op = op, !.user = who]
           = Draft(op, add, set, {}, who, "same")
<1>1. PICK q : q = [A!Idle EXCEPT !.add = add]
  OBVIOUS
<1>2. q = Draft("none", add, {}, {}, Nobody, "same")
  BY IdleDraft, <1>1, AddWritten
<1>3. PICK r : r = [q EXCEPT !.set = set]
  OBVIOUS
<1>4. r = Draft("none", add, set, {}, Nobody, "same")
  BY <1>2, <1>3, SetWritten
<1>5. PICK s : s = [r EXCEPT !.op = op]
  OBVIOUS
<1>6. s = Draft(op, add, set, {}, Nobody, "same")
  BY <1>4, <1>5, OpWritten
<1>7. [s EXCEPT !.user = who] = Draft(op, add, set, {}, who, "same")
  BY <1>6, UserWritten
<1> QED
  BY <1>1, <1>3, <1>5, <1>7, Zenon

LEMMA MembersBegin ==
  ASSUME AccessHolds, Counted, NEW w \in Workers, NEW by \in Users, NEW u \in Users,
         NEW role \in A!VALID_ROLES,
         A!AddMember(w, by, u, role) \/ A!UpdateMember(w, by, u, role) \/ A!RemoveMember(w, by, u)
  PROVE  AccessHolds'
<1>1. \A m \in members : m.id \in 1 .. MaxRows /\ m.role \in Roles
  BY DEF AccessHolds, MembersHold, A!TypeOK, Roles
<1>2. CASE A!AddMember(w, by, u, role)
  <2>1. PICK r : r = Draft("member", {[user |-> u, role |-> role]}, {}, {}, Nobody, "same")
    OBVIOUS
  <2>2. A!Begin(w, by, r) /\ A!RowsOf(u) = {}
    <3>1. r = [A!Idle EXCEPT !.op = "member", !.add = {[user |-> u, role |-> role]}]
      BY <2>1, AddDraft
    <3> QED
      BY <1>2, <3>1, Zenon DEF A!AddMember
  <2>3. Proper(r)
    BY <2>1 DEF Draft, Proper, ProjectWrites
  <2>4. AloneHolds(r)
    BY <2>1, <2>2 DEF Draft, AloneHolds, A!RowsOf
  <2> QED
    BY <2>2, <2>3, <2>4, OwnerBegins
<1>3. CASE A!UpdateMember(w, by, u, role)
  <2>1. PICK m \in A!RowsOf(u) :
          A!Begin(w, by, [A!Idle EXCEPT !.op = "member", !.set = A!Change(m, role)])
    BY <1>3 DEF A!UpdateMember
  <2>2. PICK r : r = Draft("member", {}, A!Change(m, role), {}, Nobody, "same")
    OBVIOUS
  <2>3. A!Begin(w, by, r)
    <3>1. r = [A!Idle EXCEPT !.op = "member", !.set = A!Change(m, role)]
      BY <2>2, SetDraft
    <3> QED
      BY <2>1, <3>1, Zenon
  <2>4. A!Change(m, role) \subseteq [id : 1 .. MaxRows, role : Roles]
    BY <1>1, <2>1 DEF A!Change, A!RowsOf, Roles
  <2>5. Proper(r) /\ AloneHolds(r)
    BY <2>2, <2>4 DEF Draft, Proper, ProjectWrites, AloneHolds
  <2> QED
    BY <2>3, <2>5, OwnerBegins
<1>4. CASE A!RemoveMember(w, by, u)
  <2>1. PICK m \in A!RowsOf(u) :
          A!Begin(w, by, [A!Idle EXCEPT !.op = "member", !.del = {m.id}])
    BY <1>4 DEF A!RemoveMember
  <2>2. PICK r : r = Draft("member", {}, {}, {m.id}, Nobody, "same")
    OBVIOUS
  <2>3. A!Begin(w, by, r)
    <3>1. r = [A!Idle EXCEPT !.op = "member", !.del = {m.id}]
      BY <2>2, DelDraft
    <3> QED
      BY <2>1, <3>1, Zenon
  <2>4. {m.id} \subseteq 1 .. MaxRows
    BY <1>1, <2>1 DEF A!RowsOf
  <2>5. Proper(r) /\ AloneHolds(r)
    BY <2>2, <2>4 DEF Draft, Proper, ProjectWrites, AloneHolds
  <2> QED
    BY <2>3, <2>5, OwnerBegins
<1> QED
  BY <1>2, <1>3, <1>4

LEMMA ProjectBegins ==
  ASSUME AccessHolds, Counted, NEW w \in Workers, NEW by \in Users,
         A!ArchiveProject(w, by) \/ A!UnarchiveProject(w, by) \/ A!DeleteProject(w, by)
  PROVE  AccessHolds'
<1>1. PICK to \in {"archived", "active", "deleted"} :
        A!Begin(w, by, [A!Idle EXCEPT !.op = "project", !.to = to])
  BY DEF A!ArchiveProject, A!UnarchiveProject, A!DeleteProject
<1>2. PICK r : r = Draft("project", {}, {}, {}, Nobody, to)
  OBVIOUS
<1>3. A!Begin(w, by, r)
  <2>1. r = [A!Idle EXCEPT !.op = "project", !.to = to]
    BY <1>2, ToDraft
  <2> QED
    BY <1>1, <2>1, Zenon
<1>4. Proper(r) /\ AloneHolds(r)
  BY <1>2 DEF Draft, Proper, ProjectWrites, AloneHolds
<1> QED
  BY <1>3, <1>4, OwnerBegins

PromotionHolds(u, p) ==
  /\ p.add \subseteq [user : Users, role : A!VALID_ROLES] /\ (p.add = {} \/ \E a \in p.add : p.add = {a})
  /\ p.set \subseteq [id : 1 .. MaxRows, role : Roles]
  /\ \A a \in p.add, m \in members : m.user # a.user
  /\ \/ p.add = {[user |-> u, role |-> "owner"]}
     \/ \E m \in members : m.user = u /\ p.set = A!Change(m, "owner")

LEMMA PromotionIs ==
  ASSUME AccessHolds, NEW u \in Users, NEW p \in A!Promote(u)
  PROVE  PromotionHolds(u, p)
<1>1. CASE A!RowsOf(u) = {}
  <2>1. p = [add |-> {[user |-> u, role |-> "owner"]}, set |-> {}]
    BY <1>1 DEF A!Promote
  <2> QED
    BY <1>1, <2>1, ValidRoles DEF A!RowsOf, PromotionHolds
<1>2. CASE A!RowsOf(u) # {}
  <2>1. PICK m \in A!RowsOf(u) : p = [add |-> {}, set |-> A!Change(m, "owner")]
    BY <1>2 DEF A!Promote
  <2>2. m \in members /\ m.user = u /\ m.id \in 1 .. MaxRows
    BY DEF A!RowsOf, AccessHolds, MembersHold, A!TypeOK
  <2>3. A!Change(m, "owner") \subseteq [id : 1 .. MaxRows, role : Roles]
    BY <2>2, ValidRoles DEF A!Change, Roles
  <2> QED
    BY <2>1, <2>2, <2>3 DEF PromotionHolds
<1> QED
  BY <1>1, <1>2

\* A promotion leaves an owner, though the request also takes the role of another user.
LEMMA PromotionOwns ==
  ASSUME AccessHolds, NEW u \in Users, NEW p \in A!Promote(u), NEW r, r.add = p.add, r.del = {},
         r.user # u, p.set \subseteq r.set,
         \A c \in r.set : c \in p.set \/ \E o \in members : o.user # u /\ c.id = o.id
  PROVE  \E m \in A!RowsAfter(r) : m.role = "owner"
<1>1. CASE p.add = {[user |-> u, role |-> "owner"]}
  <2>1. A!Row(made + 1, u, "owner") \in A!RowsAfter(r)
    BY <1>1 DEF A!RowsAfter
  <2> QED
    BY <2>1 DEF A!Row
<1>2. ASSUME NEW m \in members, m.user = u, p.set = A!Change(m, "owner")
      PROVE  \E n \in A!RowsAfter(r) : n.role = "owner"
  <2>1. ASSUME NEW c \in r.set, c.id = m.id PROVE c.role = "owner"
    <3>1. \A o \in members : o.id = m.id => o = m
      BY DEF AccessHolds, MembersHold, A!TypeOK
    <3>2. c \in p.set
      BY <1>2, <2>1, <3>1
    <3> QED
      BY <1>2, <3>2 DEF A!Change
  <2>2. (\E c \in r.set : c.id = m.id) \/ m.role = "owner"
    <3>1. CASE m.role # "owner"
      <4>1. [id |-> m.id, role |-> "owner"] \in r.set
        BY <1>2, <3>1 DEF A!Change
      <4> QED
        BY <4>1
    <3> QED
      BY <3>1
  <2>3. A!RoleAfter(r, m) = "owner"
    <3>1. \A c \in r.set : c.id = m.id => c.role = "owner"
      BY <2>1
    <3>2. CASE \E c \in r.set : c.id = m.id
      <4>1. PICK c : c = CHOOSE d \in r.set : d.id = m.id
        OBVIOUS
      <4>2. c \in r.set /\ c.id = m.id
        BY <3>2, <4>1
      <4>3. A!RoleAfter(r, m) = c.role
        BY <3>2, <4>1 DEF A!RoleAfter
      <4> QED
        BY <3>1, <4>2, <4>3
    <3>3. CASE ~\E c \in r.set : c.id = m.id
      BY <2>2, <3>3 DEF A!RoleAfter
    <3> QED
      BY <3>2, <3>3
  <2>4. A!Row(m.id, m.user, "owner") \in A!RowsAfter(r)
    BY <1>2, <2>3 DEF A!RowsAfter
  <2> QED
    BY <2>4 DEF A!Row
<1> QED
  BY <1>1, <1>2, PromotionIs DEF PromotionHolds

LEMMA TransferBegins ==
  ASSUME AccessHolds, Counted, NEW w \in Workers, NEW by \in Users, NEW u \in Users,
         A!TransferOwnership(w, by, u)
  PROVE  AccessHolds'
<1>0. u # Nobody
  BY AccessAssumption
<1>1. PICK p \in A!Promote(u) :
        \/ /\ A!Owners = {}
           /\ A!Begin(w, by, [A!Idle EXCEPT !.op = "transfer", !.add = p.add, !.set = p.set])
        \/ \E o \in A!Owners :
             A!Begin(w, by, IF o.user = u THEN A!Idle
                            ELSE [A!Idle EXCEPT !.op = "transfer", !.add = p.add,
                                    !.set = p.set \union {[id |-> o.id, role |-> "editor"]}])
  BY Zenon DEF A!TransferOwnership
<1>2. /\ p.add \subseteq [user : Users, role : A!VALID_ROLES] /\ (p.add = {} \/ \E a \in p.add : p.add = {a})
      /\ p.set \subseteq [id : 1 .. MaxRows, role : Roles]
      /\ \A a \in p.add, m \in members : m.user # a.user
  BY PromotionIs DEF PromotionHolds
<1>3. ASSUME NEW s, p.set \subseteq s, s \subseteq [id : 1 .. MaxRows, role : Roles],
             \A c \in s : c \in p.set \/ \E o \in members : o.user # u /\ c.id = o.id,
             A!Begin(w, by, [A!Idle EXCEPT !.op = "transfer", !.add = p.add, !.set = s])
      PROVE  AccessHolds'
  <2>1. PICK r : r = Draft("transfer", p.add, s, {}, Nobody, "same")
    OBVIOUS
  <2>2. A!Begin(w, by, r)
    <3>1. r = [A!Idle EXCEPT !.op = "transfer", !.add = p.add, !.set = s]
      BY <2>1, BothDraft
    <3> QED
      BY <1>3, <3>1, Zenon
  <2>3. Proper(r)
    BY <1>2, <1>3, <2>1 DEF Draft, Proper, ProjectWrites
  <2>4. \E m \in A!RowsAfter(r) : m.role = "owner"
    BY <1>0, <1>3, <2>1, PromotionOwns DEF Draft
  <2>5. AloneHolds(r)
    BY <1>2, <2>1, <2>4 DEF Draft, AloneHolds
  <2> QED
    BY <2>2, <2>3, <2>5, OwnerBegins
<1>4. ASSUME NEW o \in A!Owners, o.user = u, A!Begin(w, by, A!Idle) PROVE AccessHolds'
  <2>1. Proper(A!Idle)
    BY DEF Proper, A!Idle, ProjectWrites
  <2> QED
    BY <1>4, <2>1, OwnerBegins
<1>5. ASSUME NEW o \in A!Owners, o.user # u,
             A!Begin(w, by, [A!Idle EXCEPT !.op = "transfer", !.add = p.add,
                               !.set = p.set \union {[id |-> o.id, role |-> "editor"]}])
      PROVE  AccessHolds'
  <2>1. o \in members /\ o.id \in 1 .. MaxRows
    BY DEF A!Owners, AccessHolds, MembersHold, A!TypeOK
  <2>2. PICK s : s = p.set \union {[id |-> o.id, role |-> "editor"]}
    OBVIOUS
  <2>3. s \subseteq [id : 1 .. MaxRows, role : Roles]
    BY <1>2, <2>1, <2>2 DEF Roles
  <2>4. \A c \in s : c \in p.set \/ \E q \in members : q.user # u /\ c.id = q.id
    BY <1>5, <2>1, <2>2
  <2> QED
    BY <1>3, <1>5, <2>2, <2>3, <2>4
<1>6. CASE A!Owners = {}
  BY <1>1, <1>2, <1>3, <1>6
<1>7. CASE A!Owners # {}
  BY <1>1, <1>4, <1>5, <1>7
<1> QED
  BY <1>6, <1>7

LEMMA DeletionBegins ==
  ASSUME AccessHolds, Counted, NEW w \in Workers, NEW u \in Users, A!DeleteUser(w, u)
  PROVE  AccessHolds'
<1>0. requests' \in 0 .. MaxRequests
  BY DEF Counted, AccessHolds, MembersHold, A!TypeOK
<1>1. A!Serve(w) /\ UNCHANGED <<serial, A!tables, let_go>>
  BY Zenon DEF A!DeleteUser
<1>2. PICK writes \in
        IF project = "deleted" \/ ~A!UniquelyOwns(u) THEN {A!Idle}
        ELSE {[A!Idle EXCEPT !.to = IF project = "active" THEN "archived" ELSE "same"]}
             \union {[A!Idle EXCEPT !.add = p.add, !.set = p.set] :
                       p \in UNION {A!Promote(v) : v \in {x \in Users \ {u} : account[x] = "active"}}} :
        changes' = [changes EXCEPT ![w] = [writes EXCEPT !.op = "deleteUser", !.user = u]]
  BY Zenon DEF A!DeleteUser
<1>3. ASSUME NEW r, Proper(r), serial => AloneHolds(r), changes' = [changes EXCEPT ![w] = r]
      PROVE  AccessHolds'
  BY <1>0, <1>1, <1>3, ChangeBegins
<1>4. CASE project = "deleted" \/ ~A!UniquelyOwns(u)
  <2>1. PICK r : r = Draft("deleteUser", {}, {}, {}, u, "same")
    OBVIOUS
  <2>2. changes' = [changes EXCEPT ![w] = r]
    <3>1. writes = A!Idle
      BY <1>2, <1>4
    <3>2. r = [A!Idle EXCEPT !.op = "deleteUser", !.user = u]
      BY <2>1, UserDraft
    <3> QED
      BY <1>2, <3>1, <3>2
  <2>3. Proper(r)
    BY <2>1 DEF Draft, Proper, ProjectWrites
  <2>4. ASSUME serial PROVE AloneHolds(r)
    <3>1. ASSUME project = "active", A!Owners # {} PROVE \E m \in A!RowsAfter(r) : m.role = "owner"
      <4>1. PICK m \in members : m.role = "owner" /\ m.user # u
        BY <1>4, <3>1 DEF A!UniquelyOwns, A!Owners, A!RowsOf
      <4>2. A!RoleAfter(r, m) = "owner"
        BY <2>1, <4>1 DEF Draft, A!RoleAfter
      <4>3. A!Row(m.id, m.user, "owner") \in A!RowsAfter(r)
        BY <2>1, <4>1, <4>2 DEF Draft, A!RowsAfter
      <4> QED
        BY <4>3 DEF A!Row
    <3>2. project = "active" => A!Owners # {} \/ let_go
      BY <2>4, Zenon DEF AccessHolds, MembersHold, A!OwnerRemains
    <3>3. r.add = {}
      BY <2>1 DEF Draft
    <3> QED
      BY <3>1, <3>2, <3>3 DEF Draft, AloneHolds
  <2> QED
    BY <1>3, <2>2, <2>3, <2>4
<1>5. CASE ~(project = "deleted" \/ ~A!UniquelyOwns(u))
  <2>1. CASE writes = [A!Idle EXCEPT !.to = IF project = "active" THEN "archived" ELSE "same"]
    <3>1. PICK to \in {"archived", "same"} : to = (IF project = "active" THEN "archived" ELSE "same")
      OBVIOUS
    <3>2. PICK r : r = Draft("deleteUser", {}, {}, {}, u, to)
      OBVIOUS
    <3>3. changes' = [changes EXCEPT ![w] = r]
      <4>1. writes = [A!Idle EXCEPT !.to = to]
        BY <2>1, <3>1
      <4>2. r = [[A!Idle EXCEPT !.to = to] EXCEPT !.op = "deleteUser", !.user = u]
        BY <3>2, ArchiveDraft
      <4> QED
        BY <1>2, <4>1, <4>2, Zenon
    <3>4. Proper(r)
      BY <3>2 DEF Draft, Proper, ProjectWrites
    <3>5. AloneHolds(r)
      BY <3>1, <3>2 DEF Draft, AloneHolds
    <3> QED
      BY <1>3, <3>3, <3>4, <3>5
  <2>2. ASSUME NEW v \in Users \ {u}, NEW p \in A!Promote(v),
               writes = [A!Idle EXCEPT !.add = p.add, !.set = p.set]
        PROVE  AccessHolds'
    <3>1. PICK r : r = Draft("deleteUser", p.add, p.set, {}, u, "same")
      OBVIOUS
    <3>2. changes' = [changes EXCEPT ![w] = r]
      <4>1. r = [[A!Idle EXCEPT !.add = p.add, !.set = p.set] EXCEPT !.op = "deleteUser", !.user = u]
        BY <3>1, GiveDraft
      <4> QED
        BY <1>2, <2>2, <4>1, Zenon
    <3>3. /\ p.add \subseteq [user : Users, role : A!VALID_ROLES]
          /\ (p.add = {} \/ \E a \in p.add : p.add = {a})
          /\ p.set \subseteq [id : 1 .. MaxRows, role : Roles]
          /\ \A a \in p.add, m \in members : m.user # a.user
      <4>1. PromotionHolds(v, p)
        BY PromotionIs
      <4> QED
        BY <4>1 DEF PromotionHolds
    <3>4. Proper(r)
      BY <3>1, <3>3 DEF Draft, Proper, ProjectWrites
    <3>5. \E m \in A!RowsAfter(r) : m.role = "owner"
      BY <3>1, PromotionOwns DEF Draft
    <3>6. AloneHolds(r)
      BY <3>1, <3>3, <3>5 DEF Draft, AloneHolds
    <3> QED
      BY <1>3, <3>2, <3>4, <3>6
  <2>3. \/ writes = [A!Idle EXCEPT !.to = IF project = "active" THEN "archived" ELSE "same"]
        \/ \E v \in Users \ {u} : \E p \in A!Promote(v) :
             writes = [A!Idle EXCEPT !.add = p.add, !.set = p.set]
    <3>1. \/ writes = [A!Idle EXCEPT !.to = IF project = "active" THEN "archived" ELSE "same"]
          \/ \E p \in UNION {A!Promote(v) : v \in {x \in Users \ {u} : account[x] = "active"}} :
               writes = [A!Idle EXCEPT !.add = p.add, !.set = p.set]
      BY <1>5, Zenon
    <3>2. ASSUME NEW p \in UNION {A!Promote(v) : v \in {x \in Users \ {u} : account[x] = "active"}}
          PROVE  \E v \in Users \ {u} : p \in A!Promote(v)
      OBVIOUS
    <3> QED
      BY <3>1, <3>2
  <2> QED
    BY <2>1, <2>2, <2>3
<1> QED
  BY <1>4, <1>5

-----------------------------------------------------------------------------
(* A request ends.                                                         *)

\* The rows there are after it.
LEMMA RowsAre ==
  ASSUME AccessHolds, NEW r, Proper(r), ~A!Conflict(r)
  PROVE  /\ A!RowsAfter(r) \subseteq [id : 1 .. MaxRows, user : Users, role : Roles]
         /\ made + A!Cardinality(r.add) \in 0 .. MaxRows
         /\ \A n \in A!RowsAfter(r) :
              \/ \E m \in members : n.id = m.id /\ n.user = m.user /\ n = A!Row(m.id, m.user, A!RoleAfter(r, m))
              \/ \E a \in r.add : n.id = made + 1 /\ n.user = a.user /\ n = A!Row(made + 1, a.user, a.role)
         /\ \A m, n \in A!RowsAfter(r) : m.id = n.id => m = n
         /\ \A n \in A!RowsAfter(r) : n.id <= made + A!Cardinality(r.add)
<1>1. /\ made \in 0 .. MaxRows /\ \A m \in members : m.id \in 1 .. MaxRows /\ m.id <= made
      /\ members \subseteq [id : 1 .. MaxRows, user : Users, role : Roles]
      /\ \A m, n \in members : m.id = n.id => m = n
  BY DEF AccessHolds, MembersHold, A!TypeOK, Roles
<1>2. /\ r.add = {} \/ \E a \in r.add : r.add = {a}
      /\ r.add \subseteq [user : Users, role : A!VALID_ROLES] /\ r.set \subseteq [id : 1 .. MaxRows, role : Roles]
  BY DEF Proper, ProjectWrites
<1>3. /\ r.add = {} => A!Cardinality(r.add) = 0
      /\ r.add # {} => A!Cardinality(r.add) = 1
  BY <1>2, OneAtMost, Zenon
<1>4. A!Cardinality(r.add) \in {0, 1} /\ ~(A!Cardinality(r.add) > MaxRows - made)
  BY <1>3 DEF A!Conflict
<1>5. made + A!Cardinality(r.add) \in 0 .. MaxRows
  <2> DEFINE k == A!Cardinality(r.add)
  <2>1. k \in {0, 1} /\ ~(k > MaxRows - made)
    BY <1>4
  <2> HIDE DEF k
  <2>2. made + k \in 0 .. MaxRows
    BY <1>1, <2>1
  <2> QED
    BY <2>2 DEF k
<1>6. ASSUME NEW m \in members PROVE A!RoleAfter(r, m) \in Roles
  <2>1. CASE \E c \in r.set : c.id = m.id
    <3>1. PICK c : c = CHOOSE d \in r.set : d.id = m.id
      OBVIOUS
    <3>2. c \in r.set
      BY <2>1, <3>1
    <3>3. A!RoleAfter(r, m) = c.role
      BY <2>1, <3>1 DEF A!RoleAfter
    <3> QED
      BY <1>2, <3>2, <3>3
  <2>2. CASE ~\E c \in r.set : c.id = m.id
    BY <1>1, <2>2 DEF A!RoleAfter
  <2> QED
    BY <2>1, <2>2
<1>7. ASSUME NEW n \in A!RowsAfter(r)
      PROVE  \/ \E m \in members : n.id = m.id /\ n.user = m.user /\ n = A!Row(m.id, m.user, A!RoleAfter(r, m))
             \/ \E a \in r.add : n.id = made + 1 /\ n.user = a.user /\ n = A!Row(made + 1, a.user, a.role)
  BY DEF A!RowsAfter, A!Row
<1>8. ASSUME NEW n \in A!RowsAfter(r)
      PROVE  n \in [id : 1 .. MaxRows, user : Users, role : Roles] /\ n.id <= made + A!Cardinality(r.add)
  <2>1. ASSUME NEW m \in members, n = A!Row(m.id, m.user, A!RoleAfter(r, m))
        PROVE  n \in [id : 1 .. MaxRows, user : Users, role : Roles] /\ n.id <= made
    BY <1>1, <1>6, <2>1 DEF A!Row
  <2>2. ASSUME NEW a \in r.add, n = A!Row(made + 1, a.user, a.role)
        PROVE  /\ n \in [id : 1 .. MaxRows, user : Users, role : Roles]
               /\ n.id = made + A!Cardinality(r.add)
    <3>1. A!Cardinality(r.add) = 1
      BY <1>3
    <3>2. made + 1 \in 1 .. MaxRows
      BY <1>1, <1>5, <3>1
    <3>3. a.user \in Users /\ a.role \in Roles
      BY <1>2 DEF Roles
    <3> QED
      BY <2>2, <3>1, <3>2, <3>3 DEF A!Row
  <2>3. n.id <= made => n.id <= made + A!Cardinality(r.add)
    <3> DEFINE k == A!Cardinality(r.add)
    <3>1. n.id \in Nat
      BY <1>1, <1>7
    <3>2. k \in {0, 1}
      BY <1>4
    <3> HIDE DEF k
    <3>3. n.id <= made => n.id <= made + k
      BY <1>1, <3>1, <3>2
    <3> QED
      BY <3>3 DEF k
  <2>4. n.id \in Nat /\ made + A!Cardinality(r.add) \in Nat
    BY <1>1, <1>5, <1>7
  <2> QED
    BY <1>7, <2>1, <2>2, <2>3, <2>4
<1>9. ASSUME NEW m \in A!RowsAfter(r), NEW n \in A!RowsAfter(r), m.id = n.id PROVE m = n
  <2>1. \A q \in members : q.id # made + 1
    BY <1>1
  <2>2. \A a, b \in r.add : a = b
    BY <1>2
  <2> QED
    BY <1>1, <1>7, <1>9, <2>1, <2>2
<1> QED
  BY <1>5, <1>7, <1>8, <1>9

LEMMA CommitHolds ==
  ASSUME AccessHolds, NEW w \in Workers, A!Commit(w) PROVE AccessHolds'
<1>1. PICK r : r = changes[w]
  OBVIOUS
<1>2. Proper(r) /\ r # A!Idle /\ (serial => AloneHolds(r))
  BY <1>1 DEF AccessHolds, ChangesHold, A!Commit
<1>3. changes' = [changes EXCEPT ![w] = A!Idle] /\ UNCHANGED <<serial, requests>>
  BY Zenon DEF A!Commit
<1>4. \A v \in Workers : changes'[v] = IF v = w THEN A!Idle ELSE changes[v]
  BY <1>3, Zenon DEF AccessHolds, ChangesHold
<1>5. ChangesHold'
  <2>1. Proper(A!Idle)
    BY DEF Proper, A!Idle, ProjectWrites
  <2>2. ASSUME NEW v \in Workers, NEW q \in {changes'[v]}
        PROVE  Proper(q) /\ (serial' => q = A!Idle)
    <3>1. CASE v = w
      BY <1>4, <2>1, <3>1
    <3>2. CASE v # w
      BY <1>1, <1>2, <1>3, <1>4, <3>2 DEF AccessHolds, ChangesHold
    <3> QED
      BY <3>1, <3>2
  <2>3. changes' = [v \in Workers |-> changes'[v]]
    BY <1>3, Zenon DEF AccessHolds, ChangesHold
  <2>4. \A v \in Workers : \A q \in {changes'[v]} : serial' /\ q # A!Idle => AloneHolds(q)'
    BY <2>2, Zenon
  <2>5. serial' => \A u, v \in Workers : changes'[u] # A!Idle /\ changes'[v] # A!Idle => u = v
    BY <2>2
  <2> QED
    BY <2>2, <2>3, <2>4, <2>5, Zenon DEF ChangesHold, Proper
<1>6. CASE A!Conflict(r)
  <2>1. UNCHANGED <<account, project, members, made, team, grant>> /\ let_go' = let_go
    BY <1>1, <1>6 DEF A!Commit, A!tables
  <2>2. MembersHold'
    <3>1. A!TypeOK'
      BY <1>3, <2>1 DEF AccessHolds, MembersHold, A!TypeOK
    <3>2. A!OwnerRemains'
      <4>1. A!Owners' = A!Owners
        BY <2>1 DEF A!Owners
      <4>2. serial /\ project = "active" => A!Owners # {} \/ let_go
        BY Zenon DEF AccessHolds, MembersHold, A!OwnerRemains
      <4> QED
        BY <1>3, <2>1, <4>1, <4>2, Zenon DEF A!OwnerRemains
    <3> QED
      BY <1>3, <2>1, <3>1, <3>2 DEF AccessHolds, MembersHold
  <2> QED
    BY <1>5, <2>2 DEF AccessHolds
<1>7. CASE ~A!Conflict(r)
  <2>1. /\ project' = IF r.to = "same" \/ project = "deleted" THEN project ELSE r.to
        /\ members' = IF r.to = "deleted" THEN {} ELSE A!RowsAfter(r)
        /\ made' = made + A!Cardinality(r.add)
        /\ grant' = IF r.to = "deleted" THEN "none" ELSE grant
        /\ account' = IF r.user = Nobody THEN account ELSE [account EXCEPT ![r.user] = "deleted"]
        /\ team' = team
    BY <1>1, <1>7 DEF A!Commit
  <2>2. let_go' <=> (/\ \A m \in A!RowsAfter(r) : m.role # "owner"
                     /\ let_go \/ r.to = "active" \/ (r.op = "member" /\ A!Owners # {}))
    BY <1>1, <1>7, Zenon DEF A!Commit
  <2>3. /\ A!RowsAfter(r) \subseteq [id : 1 .. MaxRows, user : Users, role : Roles]
        /\ made + A!Cardinality(r.add) \in 0 .. MaxRows
        /\ \A m, n \in A!RowsAfter(r) : m.id = n.id => m = n
        /\ \A n \in A!RowsAfter(r) : n.id <= made + A!Cardinality(r.add)
    BY <1>2, <1>7, RowsAre
  <2>4. A!TypeOK'
    <3>1. A!TypeOK /\ r.to \in {"same", "active", "archived", "deleted"} /\ r.user \in Users \union {Nobody}
      BY <1>2 DEF AccessHolds, MembersHold, Proper, ProjectWrites
    <3>2. account' \in [Users -> {"active", "inactive", "deleted"}]
      BY <2>1, <3>1 DEF A!TypeOK
    <3>3. project' \in {"active", "archived", "deleted"} /\ grant' \in A!VALID_ROLES \union {"none"}
          /\ team' \subseteq Users
      BY <2>1, <3>1 DEF A!TypeOK
    <3>4. /\ members' \subseteq [id : 1 .. MaxRows, user : Users, role : Roles]
          /\ \A m, n \in members' : m.id = n.id => m = n
          /\ made' \in 0 .. MaxRows
      BY <2>1, <2>3
    <3>5. requests' \in 0 .. MaxRequests
      BY <1>3, <3>1 DEF A!TypeOK
    <3> QED
      BY <3>2, <3>3, <3>4, <3>5 DEF A!TypeOK, Roles
  <2>5. ASSUME serial', NEW m \in members', NEW n \in members', m.user = n.user PROVE m = n
    <3>1. serial /\ m \in A!RowsAfter(r) /\ n \in A!RowsAfter(r)
      BY <1>3, <2>1, <2>5
    <3>2. /\ \A p, q \in members : p.user = q.user => p = q
          /\ \A a \in r.add, p \in members : p.user # a.user
      BY <1>2, <3>1 DEF AccessHolds, MembersHold, AloneHolds
    <3>3. \A a, b \in r.add : a = b
      BY <1>2 DEF Proper
    <3>4. \A k \in A!RowsAfter(r) :
            \/ \E p \in members : k.id = p.id /\ k.user = p.user /\ k = A!Row(p.id, p.user, A!RoleAfter(r, p))
            \/ \E a \in r.add : k.id = made + 1 /\ k.user = a.user /\ k = A!Row(made + 1, a.user, a.role)
      BY <1>2, <1>7, RowsAre
    <3> QED
      BY <2>5, <3>1, <3>2, <3>3, <3>4
  <2>6. ASSUME serial', project' = "active" PROVE A!Owners' # {} \/ let_go'
    <3>1. CASE r.to = "active"
      <4>1. members' = A!RowsAfter(r)
        BY <2>1, <3>1
      <4>2. CASE \E m \in A!RowsAfter(r) : m.role = "owner"
        BY <4>1, <4>2 DEF A!Owners
      <4>3. CASE \A m \in A!RowsAfter(r) : m.role # "owner"
        BY <2>2, <3>1, <4>3, Zenon
      <4> QED
        BY <4>2, <4>3
    <3>2. CASE r.to # "active"
      <4>1. r.to = "same" /\ project = "active" /\ members' = A!RowsAfter(r)
        BY <2>1, <2>6, <3>2
      <4>2. CASE \E m \in A!RowsAfter(r) : m.role = "owner"
        BY <4>1, <4>2 DEF A!Owners
      <4>3. CASE ~\E m \in A!RowsAfter(r) : m.role = "owner"
        <5>1. r.op = "member" \/ let_go
          BY <1>2, <1>3, <2>6, <4>1, <4>3, Zenon DEF AloneHolds
        <5>2. A!Owners # {} \/ let_go
          BY <1>3, <2>6, <4>1, Zenon DEF AccessHolds, MembersHold, A!OwnerRemains
        <5> QED
          BY <2>2, <4>3, <5>1, <5>2, Zenon
      <4> QED
        BY <4>2, <4>3
    <3> QED
      BY <3>1, <3>2
  <2>7. \A m \in members' : m.id <= made'
    BY <2>1, <2>3
  <2>8. A!OwnerRemains'
    BY <2>6, Zenon DEF A!OwnerRemains
  <2>9. MembersHold'
    BY <2>4, <2>5, <2>7, <2>8 DEF MembersHold
  <2> QED
    BY <1>5, <2>9 DEF AccessHolds
<1> QED
  BY <1>6, <1>7

\* One row that others only read is written.
LEMMA WriteHolds ==
  ASSUME AccessHolds, Counted, UNCHANGED <<project, members, made, changes, let_go>>,
         account' \in [Users -> {"active", "inactive", "deleted"}], team' \subseteq Users,
         grant' \in A!VALID_ROLES \union {"none"}
  PROVE  AccessHolds'
<1>1. /\ serial' = serial /\ requests' \in 0 .. MaxRequests /\ project' = project
      /\ members' = members /\ made' = made /\ changes' = changes /\ let_go' = let_go
  BY DEF Counted, AccessHolds, MembersHold, A!TypeOK
<1>2. MembersHold'
  <2>1. A!TypeOK'
    BY <1>1 DEF AccessHolds, MembersHold, A!TypeOK
  <2>2. A!OwnerRemains'
    <3>1. A!Owners' = A!Owners
      BY <1>1 DEF A!Owners
    <3>2. serial /\ project = "active" => A!Owners # {} \/ let_go
      BY Zenon DEF AccessHolds, MembersHold, A!OwnerRemains
    <3> QED
      BY <1>1, <3>1, <3>2 DEF A!OwnerRemains
  <2> QED
    BY <1>1, <2>1, <2>2 DEF AccessHolds, MembersHold
<1>3. ChangesHold'
  <2>1. ASSUME NEW q PROVE AloneHolds(q)' <=> AloneHolds(q)
    <3>1. A!RowsAfter(q)' = A!RowsAfter(q)
      BY <1>1 DEF A!RowsAfter, A!RoleAfter
    <3>2. members' = members /\ project' = project
      BY <1>1
    <3> QED
      BY <1>1, <3>1, <3>2 DEF AloneHolds
  <2>2. ASSUME NEW v \in Workers, NEW q \in {changes'[v]}
        PROVE  Proper(q) /\ (serial' /\ q # A!Idle => AloneHolds(q)')
    <3>1. Proper(q) /\ (serial /\ q # A!Idle => AloneHolds(q))
      BY <1>1 DEF AccessHolds, ChangesHold
    <3>2. AloneHolds(q)' <=> AloneHolds(q)
      BY <2>1
    <3> QED
      BY <1>1, <3>1, <3>2
  <2>3. changes' = [v \in Workers |-> changes'[v]]
    BY <1>1, Zenon DEF AccessHolds, ChangesHold
  <2>4. serial' => \A u, v \in Workers : changes'[u] # A!Idle /\ changes'[v] # A!Idle => u = v
    BY <1>1 DEF AccessHolds, ChangesHold
  <2> QED
    BY <2>2, <2>3, <2>4, Zenon DEF ChangesHold, Proper
<1> QED
  BY <1>2, <1>3 DEF AccessHolds

LEMMA AccessNext == AccessHolds /\ [A!Next]_accessVars /\ Counted => AccessHolds'
<1> SUFFICES ASSUME AccessHolds, [A!Next]_accessVars, Counted PROVE AccessHolds'
  OBVIOUS
<1>0. A!TypeOK
  BY DEF AccessHolds, MembersHold
<1>1. CASE UNCHANGED accessVars
  BY <1>0, <1>1, WriteHolds DEF accessVars, A!TypeOK
<1>2. ASSUME NEW w \in Workers, NEW u \in Users, NEW state \in {"active", "inactive"}, A!SetAccount(w, u, state)
      PROVE  AccessHolds'
  <2>1. account' \in [Users -> {"active", "inactive", "deleted"}]
    BY <1>0, <1>2 DEF A!SetAccount, A!TypeOK
  <2> QED
    BY <1>0, <1>2, <2>1, WriteHolds DEF A!SetAccount, A!TypeOK
<1>3. ASSUME NEW w \in Workers, NEW by \in Users, NEW role \in A!VALID_ROLES \union {"none"},
             A!SetGrant(w, by, role)
      PROVE  AccessHolds'
  BY <1>0, <1>3, WriteHolds DEF A!SetGrant, A!TypeOK
<1>4. ASSUME NEW w \in Workers, NEW u \in Users, A!SetTeam(w, u) PROVE AccessHolds'
  <2>1. team' \subseteq Users
    BY <1>0, <1>4 DEF A!SetTeam, A!TypeOK
  <2> QED
    BY <1>0, <1>4, <2>1, WriteHolds DEF A!SetTeam, A!TypeOK
<1>5. ASSUME NEW w \in Workers, NEW by \in Users, NEW u \in Users, A!RemoveMember(w, by, u)
      PROVE  AccessHolds'
  <2>1. "owner" \in A!VALID_ROLES
    BY ValidRoles
  <2> QED
    BY <1>5, <2>1, MembersBegin
<1>6. CASE A!Next
  BY <1>2, <1>3, <1>4, <1>5, <1>6, MembersBegin, TransferBegins, ProjectBegins, DeletionBegins, CommitHolds
    DEF A!Next
<1> QED
  BY <1>1, <1>6

\* Whatever the requests, for any number of them and of users: served one at a time, neither
\* the deletion of a user nor a transfer leaves an active project without an owner, and no
\* user has two rows; and what a user is shown of the project is what the user may open, but
\* for a former owner who was given the role "editor".
THEOREM OwnersRemain == Spec => []AccessAgrees
<1>1. Init => AccessHolds
  BY AccessInit DEF Init
<1>2. AccessHolds /\ [Next]_allVars => AccessHolds'
  BY OneMachine, AccessNext
<1>3. AccessHolds => AccessAgrees
  BY AccessHoldAgrees DEF AccessAgrees
<1> QED
  BY <1>1, <1>2, <1>3, PTL DEF Spec, allVars

-----------------------------------------------------------------------------
(* Sessions, passwords and reset links.                                    *)

UserRows ==
  [password : Nat, changed : Nat, count : Nat, locked : C!Minutes, active : BOOLEAN]
Setters == {"change", "confirm", "temporary", "admin"}
Tries ==
  [op : {"none", "fail", "ip_failure", "ip_lock", "welcome", "clear_ip", "issue", "unlock", "link"}
        \union Setters,
   seen : UserRows, at : Nat, password : Nat, link : Nat]

\* What a request carries it has read of the user, of the clock or of a link.
TryHolds(r) ==
  /\ r \in Tries
  /\ r.op = "fail" => r.seen.count + 1 <= requests
  /\ r.op = "ip_lock" => r.at > 0 /\ C!Locks(r.at)
  /\ r.op \in Setters => r.at \in 1 .. now
  /\ r.op \in {"welcome", "clear_ip", "issue"} => r.password \in 1 .. set_so_far
  /\ r.op = "confirm" => r.link \in 1 .. Cardinality(links)

\* Served alone, it is still so, and no session began after the clock was read.
Current(r) ==
  /\ r.op \in {"fail", "welcome", "temporary"} => r.seen.count = user.count
  /\ r.op \in {"welcome", "temporary"} /\ user.locked # 0 => r.seen.locked # 0
  /\ r.op = "ip_lock" => r.at <= failed.ip
  /\ r.op \in {"welcome", "clear_ip", "issue"} => r.password = user.password
  /\ r.op \in Setters => \A s \in sessions : s.issued_at < r.at
  /\ r.op = "confirm" => confirmed[r.link] = 0

TriesHold ==
  /\ attempts = [w \in Workers |-> attempts[w]]
  /\ \A w \in Workers : \A r \in {attempts[w]} : TryHolds(r) /\ (serial => Current(r))
  /\ serial => \A v, w \in Workers : attempts[v] # C!Idle /\ attempts[w] # C!Idle => v = w

\* Each request reads the clock twice at most, fails once and makes one link.
Doing(ops) == {w \in Workers : attempts[w].op \in ops}
Readers == {"welcome", "clear_ip", "issue", "change"}
BudgetHolds(spent, ops, most) ==
  IsFiniteSet(Doing(ops)) /\ spent + Cardinality(Doing(ops)) <= most
BudgetsHold ==
  /\ requests \in 0 .. MaxRequests
  /\ BudgetHolds(now, Readers, 2 * requests)
  /\ BudgetHolds(ip.count, {"fail", "ip_failure"}, requests)
  /\ BudgetHolds(Cardinality(links), {"link"}, requests)

UserHolds ==
  /\ now \in Nat /\ set_so_far \in Nat
  /\ user \in UserRows /\ user.password \in 1 .. set_so_far
  /\ user.changed <= now /\ user.count <= requests
  /\ \A s \in sessions : s.issued_at \in 1 .. now /\ s.password \in 1 .. set_so_far
  /\ C!SessionsEnd

FailuresHold ==
  /\ ip \in [count : Nat, locked : C!Minutes] /\ failed \in [user : Nat, ip : Nat]
  /\ C!FailuresCounted /\ (serial => ip.count <= failed.ip)

ResetRows == [id : Nat, used : BOOLEAN, expired : BOOLEAN]
\* Links are numbered as they are made, and one that was confirmed is used.
ResetsHold ==
  /\ IsFiniteSet(links) /\ links \subseteq ResetRows
  /\ \A l \in links : l.id \in 1 .. Cardinality(links)
  /\ \A l, m \in links : l.id = m.id => l = m
  /\ \A l, m \in C!Live : l = m
  /\ confirmed = [i \in 1 .. MaxRequests |-> confirmed[i]]
  /\ serial => \A i \in 1 .. MaxRequests :
       /\ confirmed[i] \in {0, 1}
       /\ confirmed[i] # 0 => i <= Cardinality(links) /\ \A l \in links : l.id = i => l.used

CredentialsHold == TriesHold /\ BudgetsHold /\ UserHolds /\ FailuresHold /\ ResetsHold

LEMMA SameCount == \A S : C!Cardinality(S) = Cardinality(S)
  BY DEF C!Cardinality, Cardinality

Try(op, seen, at, password, link) ==
  [op |-> op, seen |-> seen, at |-> at, password |-> password, link |-> link]
UserRow(password, changed, count, locked, isActive) ==
  [password |-> password, changed |-> changed, count |-> count, locked |-> locked, active |-> isActive]

Nobodys == UserRow(0, 0, 0, 0, TRUE)

\* The fields of a request in flight.
LEMMA TryFields ==
  \A op, seen, at, password, link :
    LET r == Try(op, seen, at, password, link) IN
    /\ r.op = op /\ r.seen = seen /\ r.at = at /\ r.password = password /\ r.link = link
    /\ /\ op \in {"none", "fail", "ip_failure", "ip_lock", "welcome", "clear_ip", "issue", "unlock", "link"}
                 \union Setters
       /\ seen \in UserRows /\ at \in Nat /\ password \in Nat /\ link \in Nat
       => r \in Tries
  BY DEF Try, Tries

\* The fields of a user row, and when it is one.
LEMMA UserFields ==
  \A password, changed, count, locked, isActive :
    LET r == UserRow(password, changed, count, locked, isActive) IN
    /\ r.password = password /\ r.changed = changed /\ r.count = count /\ r.locked = locked
    /\ r.active = isActive
    /\ /\ password \in Nat /\ changed \in Nat /\ count \in Nat /\ locked \in C!Minutes
       /\ isActive \in BOOLEAN
       => r \in UserRows
  BY DEF UserRow, UserRows

\* A user row is made of its fields.
LEMMA UserTyped ==
  \A r \in UserRows :
    /\ r.password \in Nat /\ r.changed \in Nat /\ r.count \in Nat /\ r.locked \in C!Minutes
    /\ r.active \in BOOLEAN
    /\ r = UserRow(r.password, r.changed, r.count, r.locked, r.active)
  BY DEF UserRow, UserRows

\* One field of the user at a time: PasswordSet and CountersSet chain them.
LEMMA SetsUserPassword ==
  ASSUME NEW a, NEW b, NEW c, NEW d, NEW e, NEW x, NEW r, r = UserRow(a, b, c, d, e)
  PROVE  [r EXCEPT !.password = x] = UserRow(x, b, c, d, e)
  BY DEF UserRow

LEMMA SetsUserChanged ==
  ASSUME NEW a, NEW b, NEW c, NEW d, NEW e, NEW x, NEW r, r = UserRow(a, b, c, d, e)
  PROVE  [r EXCEPT !.changed = x] = UserRow(a, x, c, d, e)
  BY DEF UserRow

LEMMA SetsUserCount ==
  ASSUME NEW a, NEW b, NEW c, NEW d, NEW e, NEW x, NEW r, r = UserRow(a, b, c, d, e)
  PROVE  [r EXCEPT !.count = x] = UserRow(a, b, x, d, e)
  BY DEF UserRow

LEMMA SetsUserLocked ==
  ASSUME NEW a, NEW b, NEW c, NEW d, NEW e, NEW x, NEW r, r = UserRow(a, b, c, d, e)
  PROVE  [r EXCEPT !.locked = x] = UserRow(a, b, c, x, e)
  BY DEF UserRow

LEMMA SetsUserActive ==
  ASSUME NEW a, NEW b, NEW c, NEW d, NEW e, NEW x, NEW r, r = UserRow(a, b, c, d, e)
  PROVE  [r EXCEPT !.active = x] = UserRow(a, b, c, d, x)
  BY DEF UserRow

\* The lock counters of the row change.
LEMMA CountersSet ==
  ASSUME NEW r \in UserRows, NEW count, NEW locked
  PROVE  [r EXCEPT !.count = count, !.locked = locked]
           = UserRow(r.password, r.changed, count, locked, r.active)
<1>1. r = UserRow(r.password, r.changed, r.count, r.locked, r.active)
  BY UserTyped
<1>2. PICK p : p = [r EXCEPT !.count = count]
  OBVIOUS
<1>3. p = UserRow(r.password, r.changed, count, r.locked, r.active)
  BY <1>1, <1>2, SetsUserCount
<1>4. [p EXCEPT !.locked = locked] = UserRow(r.password, r.changed, count, locked, r.active)
  BY <1>3, SetsUserLocked
<1> QED
  BY <1>2, <1>4, Zenon

\* A password is set, and its time.
LEMMA PasswordSet ==
  ASSUME NEW r \in UserRows, NEW password, NEW changed
  PROVE  [r EXCEPT !.password = password, !.changed = changed]
           = UserRow(password, changed, r.count, r.locked, r.active)
<1>1. r = UserRow(r.password, r.changed, r.count, r.locked, r.active)
  BY UserTyped
<1>2. PICK p : p = [r EXCEPT !.password = password]
  OBVIOUS
<1>3. p = UserRow(password, r.changed, r.count, r.locked, r.active)
  BY <1>1, <1>2, SetsUserPassword
<1>4. [p EXCEPT !.changed = changed] = UserRow(password, changed, r.count, r.locked, r.active)
  BY <1>3, SetsUserChanged
<1> QED
  BY <1>2, <1>4, Zenon

\* An idle worker carries nothing.
LEMMA IdleTry == C!Idle = Try("none", Nobodys, 0, 0, 0) /\ Nobodys \in UserRows
<1>1. 0 \in C!Minutes
  BY DEF C!Minutes, C!LOCKOUT_MAX_MINUTES
<1> QED
  BY <1>1, UserFields DEF C!Idle, Try, Nobodys, UserRow

\* One field of a request at a time: TryBegins and TryGoesOn chain them.
LEMMA SetsTryOp ==
  ASSUME NEW a, NEW b, NEW c, NEW d, NEW e, NEW x, NEW r, r = Try(a, b, c, d, e)
  PROVE  [r EXCEPT !.op = x] = Try(x, b, c, d, e)
  BY DEF Try

LEMMA SetsTrySeen ==
  ASSUME NEW a, NEW b, NEW c, NEW d, NEW e, NEW x, NEW r, r = Try(a, b, c, d, e)
  PROVE  [r EXCEPT !.seen = x] = Try(a, x, c, d, e)
  BY DEF Try

LEMMA SetsTryAt ==
  ASSUME NEW a, NEW b, NEW c, NEW d, NEW e, NEW x, NEW r, r = Try(a, b, c, d, e)
  PROVE  [r EXCEPT !.at = x] = Try(a, b, x, d, e)
  BY DEF Try

LEMMA SetsTryPassword ==
  ASSUME NEW a, NEW b, NEW c, NEW d, NEW e, NEW x, NEW r, r = Try(a, b, c, d, e)
  PROVE  [r EXCEPT !.password = x] = Try(a, b, c, x, e)
  BY DEF Try

LEMMA SetsTryLink ==
  ASSUME NEW a, NEW b, NEW c, NEW d, NEW e, NEW x, NEW r, r = Try(a, b, c, d, e)
  PROVE  [r EXCEPT !.link = x] = Try(a, b, c, d, x)
  BY DEF Try

\* The requests that begin.
LEMMA TryBegins ==
  ASSUME NEW op, NEW seen, NEW at, NEW password
  PROVE  /\ [C!Idle EXCEPT !.op = op] = Try(op, Nobodys, 0, 0, 0)
         /\ [C!Idle EXCEPT !.op = op, !.seen = seen] = Try(op, seen, 0, 0, 0)
         /\ [C!Idle EXCEPT !.op = op, !.seen = seen, !.password = password] = Try(op, seen, 0, password, 0)
         /\ [C!Idle EXCEPT !.op = op, !.at = at] = Try(op, Nobodys, at, 0, 0)
<1>1. PICK p : p = [C!Idle EXCEPT !.op = op]
  OBVIOUS
<1>2. p = Try(op, Nobodys, 0, 0, 0)
  BY <1>1, IdleTry, SetsTryOp
<1>3. PICK q : q = [p EXCEPT !.seen = seen]
  OBVIOUS
<1>4. q = Try(op, seen, 0, 0, 0)
  BY <1>2, <1>3, SetsTrySeen
<1>5. PICK s : s = [p EXCEPT !.at = at]
  OBVIOUS
<1>6. s = Try(op, Nobodys, at, 0, 0)
  BY <1>2, <1>5, SetsTryAt
<1>7. PICK t : t = [q EXCEPT !.password = password]
  OBVIOUS
<1>8. t = Try(op, seen, 0, password, 0)
  BY <1>4, <1>7, SetsTryPassword
<1> QED
  BY <1>1, <1>2, <1>3, <1>4, <1>5, <1>6, <1>7, <1>8, Zenon

\* The requests that go on.
LEMMA TryGoesOn ==
  ASSUME NEW r \in Tries, NEW op, NEW password
  PROVE  /\ [r EXCEPT !.op = op] = Try(op, r.seen, r.at, r.password, r.link)
         /\ [r EXCEPT !.op = op, !.password = password] = Try(op, r.seen, r.at, password, r.link)
<1>1. r = Try(r.op, r.seen, r.at, r.password, r.link)
  BY DEF Try, Tries
<1>2. PICK p : p = [r EXCEPT !.op = op]
  OBVIOUS
<1>3. p = Try(op, r.seen, r.at, r.password, r.link)
  BY <1>1, <1>2, SetsTryOp
<1>4. [p EXCEPT !.password = password] = Try(op, r.seen, r.at, password, r.link)
  BY <1>3, SetsTryPassword
<1> QED
  BY <1>2, <1>3, <1>4, Zenon

-----------------------------------------------------------------------------
(* The locks double, for a day at most.                                    *)

\* 2 ^ n is the number of subsets of 1 .. n.
LEMMA PowerOfTwo ==
  ASSUME NEW n \in Nat
  PROVE  2 ^ n \in Nat
<1> DEFINE S == 1 .. n
<1>1. IsFiniteSet(S) /\ Cardinality(S) = n
  BY FS_Interval
<1> HIDE DEF S
<1>2. IsFiniteSet(SUBSET S) /\ Cardinality(SUBSET S) = 2 ^ Cardinality(S)
  BY <1>1, FS_SUBSET
<1>3. Cardinality(SUBSET S) \in Nat
  BY <1>2, FS_CardinalityType
<1> QED
  BY <1>1, <1>2, <1>3

\* The lock that a threshold earns is a legal number of minutes.
LEMMA LockIsMinutes ==
  ASSUME NEW count \in Nat, count > 0, C!Locks(count)
  PROVE  C!Lock(count) \in C!Minutes
<1> USE FailuresAssumption
<1>1. PICK m : m = MAX_FAILED_LOGINS
  OBVIOUS
<1>2. m \in Nat /\ m > 0 /\ count % m = 0
  BY <1>1 DEF C!Locks
<1>3. (count \div m) \in Nat /\ (count \div m) > 0
  BY <1>2
<1>4. PICK n : n = (count \div m) - 1
  OBVIOUS
<1>5. n \in Nat
  BY <1>3, <1>4
<1>6. PICK minutes : minutes = 15 * 2 ^ n
  OBVIOUS
<1>7. minutes \in Nat
  BY <1>5, <1>6, PowerOfTwo
<1>8. C!Lock(count) = IF minutes < 24 * 60 THEN minutes ELSE 24 * 60
  BY <1>1, <1>4, <1>6 DEF C!Lock, C!LOCKOUT_DURATION_MINUTES, C!LOCKOUT_MAX_MINUTES
<1> QED
  BY <1>7, <1>8 DEF C!Minutes, C!LOCKOUT_MAX_MINUTES

\* There is one failure at least for each of a threshold.
LEMMA LocksAreEarned ==
  ASSUME NEW count \in Nat, count > 0, C!Locks(count)
  PROVE  count >= MAX_FAILED_LOGINS
<1>1. PICK m : m = MAX_FAILED_LOGINS
  OBVIOUS
<1>2. m \in Nat /\ m > 0 /\ count % m = 0
  BY <1>1, FailuresAssumption DEF C!Locks
<1>3. (count \div m) \in Nat /\ count = m * (count \div m) + (count % m)
  BY <1>2
<1>4. count \div m # 0
  BY <1>2, <1>3
<1> QED
  BY <1>1, <1>2, <1>3, <1>4

-----------------------------------------------------------------------------
(* A step of a request.                                                    *)

Weight(op, ops) == IF op \in ops THEN 1 ELSE 0

\* One worker changes what it does.
LEMMA DoingChanges ==
  ASSUME TriesHold, NEW w \in Workers, NEW r, attempts' = [attempts EXCEPT ![w] = r],
         NEW ops, IsFiniteSet(Doing(ops))
  PROVE  /\ IsFiniteSet(Doing(ops)')
         /\ Cardinality(Doing(ops)) \in Nat /\ Cardinality(Doing(ops))' \in Nat
         /\ Cardinality(Doing(ops))' + Weight(attempts[w].op, ops) = Cardinality(Doing(ops)) + Weight(r.op, ops)
<1>1. \A v \in Workers : attempts'[v] = IF v = w THEN r ELSE attempts[v]
  BY Zenon DEF TriesHold
<1>2. Cardinality(Doing(ops)) \in Nat
  BY FS_CardinalityType
<1>0. w \in Doing(ops) <=> attempts[w].op \in ops
  BY DEF Doing
<1>3. CASE r.op \in ops
  <2>1. Doing(ops)' = Doing(ops) \union {w}
    BY <1>1, <1>3 DEF Doing
  <2>2. /\ IsFiniteSet(Doing(ops) \union {w})
        /\ Cardinality(Doing(ops) \union {w}) =
             IF w \in Doing(ops) THEN Cardinality(Doing(ops)) ELSE Cardinality(Doing(ops)) + 1
    BY FS_AddElement
  <2> QED
    BY <1>0, <1>2, <1>3, <2>1, <2>2 DEF Weight
<1>4. CASE r.op \notin ops
  <2>1. Doing(ops)' = Doing(ops) \ {w}
    BY <1>1, <1>4 DEF Doing
  <2>2. /\ IsFiniteSet(Doing(ops) \ {w})
        /\ Cardinality(Doing(ops) \ {w}) =
             IF w \in Doing(ops) THEN Cardinality(Doing(ops)) - 1 ELSE Cardinality(Doing(ops))
    BY FS_RemoveElement
  <2>3. Cardinality(Doing(ops) \ {w}) \in Nat
    BY <2>2, FS_CardinalityType
  <2> QED
    BY <1>0, <1>2, <1>4, <2>1, <2>2, <2>3 DEF Weight
<1> QED
  BY <1>3, <1>4

\* Numbers only grow.
Onward ==
  /\ serial' = serial
  /\ requests' \in Nat /\ requests <= requests' /\ now' \in Nat /\ now <= now'
  /\ set_so_far' \in Nat /\ set_so_far <= set_so_far'
  /\ Cardinality(links)' \in Nat /\ Cardinality(links) <= Cardinality(links)'

\* The counters are numbers.
LEMMA CredentialNumbers ==
  ASSUME CredentialsHold
  PROVE  /\ requests \in Nat /\ now \in Nat /\ set_so_far \in Nat /\ Cardinality(links) \in Nat
         /\ ip.count \in Nat /\ user.count \in Nat /\ user.password \in Nat /\ user.changed \in Nat
         /\ MaxRequests \in Nat
<1>1. Cardinality(links) \in Nat
  BY FS_CardinalityType DEF CredentialsHold, ResetsHold
<1>2. ip.count \in Nat
  BY DEF CredentialsHold, FailuresHold
<1> QED
  BY <1>1, <1>2, BoundsAssumption, UserTyped DEF CredentialsHold, UserHolds, BudgetsHold

\* Requests keep what they carry.
LEMMA TryKept ==
  ASSUME CredentialsHold, Onward, NEW r, TryHolds(r)
  PROVE  TryHolds(r)'
<1>1. r \in Tries
  BY DEF TryHolds
<1>2. r.seen.count \in Nat
  BY <1>1, UserTyped DEF Tries
<1> QED
  BY <1>1, <1>2, CredentialNumbers DEF TryHolds, Onward

\* An idle worker carries nothing that could be stale.
LEMMA IdleHolds ==
  ASSUME NEW r, r = C!Idle
  PROVE  TryHolds(r) /\ Current(r) /\ TryHolds(r)' /\ Current(r)' /\ r.op = "none"
<1>1. r.op = "none" /\ r \in Tries
  BY IdleTry, TryFields
<1> QED
  BY <1>1 DEF TryHolds, Current, Setters

\* A request takes a step.  Served one at a time, there is no other.
LEMMA TryStep ==
  ASSUME CredentialsHold, Onward, NEW w \in Workers, NEW r, attempts' = [attempts EXCEPT ![w] = r],
         serial => \A v \in Workers \ {w} : attempts[v] = C!Idle,
         TryHolds(r)', serial => Current(r)'
  PROVE  TriesHold'
<1>1. \A v \in Workers : attempts'[v] = IF v = w THEN r ELSE attempts[v]
  BY Zenon DEF CredentialsHold, TriesHold
<1>2. serial' = serial
  BY DEF Onward
<1>3. ASSUME NEW v \in Workers, NEW q \in {attempts'[v]} PROVE TryHolds(q)' /\ (serial' => Current(q)')
  <2>1. CASE v = w
    BY <1>1, <1>2, <2>1
  <2>2. CASE v # w
    <3>1. q = attempts[v] /\ TryHolds(q)
      BY <1>1, <2>2 DEF CredentialsHold, TriesHold
    <3>2. TryHolds(q)'
      BY <3>1, TryKept
    <3>3. serial => q = C!Idle
      BY <2>2, <3>1
    <3> QED
      BY <1>2, <3>2, <3>3, IdleHolds
  <2> QED
    BY <2>1, <2>2
<1>4. attempts' = [v \in Workers |-> attempts'[v]]
  BY Zenon DEF CredentialsHold, TriesHold
<1>5. serial' => \A u, v \in Workers : attempts'[u] # C!Idle /\ attempts'[v] # C!Idle => u = v
  BY <1>1, <1>2
<1> QED
  BY <1>3, <1>4, <1>5, Zenon DEF TriesHold

\* Nobody takes a step.
LEMMA TriesKept ==
  ASSUME CredentialsHold, Onward, attempts' = attempts,
         \A r : Current(r) => Current(r)'
  PROVE  TriesHold'
<1>1. \A r : TryHolds(r) => TryHolds(r)'
  BY TryKept
<1>2. serial' = serial
  BY DEF Onward
<1>3. \A w \in Workers : \A r \in {attempts'[w]} : TryHolds(r)' /\ (serial' => Current(r)')
  BY <1>1, <1>2 DEF CredentialsHold, TriesHold
<1> QED
  BY <1>2, <1>3 DEF CredentialsHold, TriesHold

\* A step of one worker keeps what is spent within what was requested.
LEMMA BudgetStep ==
  ASSUME CredentialsHold, NEW w \in Workers, NEW r, attempts' = [attempts EXCEPT ![w] = r],
         NEW op, op = attempts[w].op,
         requests' \in 0 .. MaxRequests, now' \in Nat, ip.count' \in Nat, Cardinality(links)' \in Nat,
         now' + Weight(r.op, Readers) + 2 * requests <= now + Weight(op, Readers) + 2 * requests',
         ip.count' + Weight(r.op, {"fail", "ip_failure"}) + requests
           <= ip.count + Weight(op, {"fail", "ip_failure"}) + requests',
         Cardinality(links)' + Weight(r.op, {"link"}) + requests
           <= Cardinality(links) + Weight(op, {"link"}) + requests'
  PROVE  BudgetsHold'
<1>0. TriesHold /\ BudgetsHold
  BY DEF CredentialsHold
<1>1. \A o, ops : Weight(o, ops) \in Nat
  BY DEF Weight
<1>2. requests \in Nat /\ now \in Nat /\ Cardinality(links) \in Nat /\ ip.count \in Nat /\ requests' \in Nat
  BY CredentialNumbers
<1>3. BudgetHolds(now, Readers, 2 * requests)'
  <2>1. IsFiniteSet(Doing(Readers)) /\ now + Cardinality(Doing(Readers)) <= 2 * requests
    BY <1>0 DEF BudgetsHold, BudgetHolds
  <2>2. /\ IsFiniteSet(Doing(Readers)')
        /\ Cardinality(Doing(Readers)) \in Nat /\ Cardinality(Doing(Readers))' \in Nat
        /\ Cardinality(Doing(Readers))' + Weight(op, Readers) = Cardinality(Doing(Readers)) + Weight(r.op, Readers)
    BY <1>0, <2>1, DoingChanges
  <2> QED
    BY <1>1, <1>2, <2>1, <2>2 DEF BudgetHolds
<1>4. BudgetHolds(ip.count, {"fail", "ip_failure"}, requests)'
  <2> DEFINE ops == {"fail", "ip_failure"}
  <2>1. IsFiniteSet(Doing(ops)) /\ ip.count + Cardinality(Doing(ops)) <= requests
    BY <1>0 DEF BudgetsHold, BudgetHolds
  <2>2. /\ IsFiniteSet(Doing(ops)')
        /\ Cardinality(Doing(ops)) \in Nat /\ Cardinality(Doing(ops))' \in Nat
        /\ Cardinality(Doing(ops))' + Weight(op, ops) = Cardinality(Doing(ops)) + Weight(r.op, ops)
    BY <1>0, <2>1, DoingChanges
  <2> QED
    BY <1>1, <1>2, <2>1, <2>2 DEF BudgetHolds
<1>5. BudgetHolds(Cardinality(links), {"link"}, requests)'
  <2> DEFINE ops == {"link"}
  <2>1. IsFiniteSet(Doing(ops)) /\ Cardinality(links) + Cardinality(Doing(ops)) <= requests
    BY <1>0 DEF BudgetsHold, BudgetHolds
  <2>2. /\ IsFiniteSet(Doing(ops)')
        /\ Cardinality(Doing(ops)) \in Nat /\ Cardinality(Doing(ops))' \in Nat
        /\ Cardinality(Doing(ops))' + Weight(op, ops) = Cardinality(Doing(ops)) + Weight(r.op, ops)
    BY <1>0, <2>1, DoingChanges
  <2> QED
    BY <1>1, <1>2, <2>1, <2>2 DEF BudgetHolds
<1> QED
  BY <1>3, <1>4, <1>5 DEF BudgetsHold

\* A step that spends nothing keeps the three budgets.
LEMMA BudgetsKept ==
  ASSUME CredentialsHold, UNCHANGED <<attempts, requests, now>>,
         ip.count' \in Nat, ip.count' <= ip.count, Cardinality(links)' = Cardinality(links)
  PROVE  BudgetsHold'
<1>1. BudgetsHold
  BY DEF CredentialsHold
<1>2. \A ops : Doing(ops)' = Doing(ops)
  BY DEF Doing
<1>3. Cardinality(Doing({"fail", "ip_failure"})) \in Nat
  BY <1>1, FS_CardinalityType DEF BudgetsHold, BudgetHolds
<1>4. BudgetHolds(ip.count, {"fail", "ip_failure"}, requests)'
  BY <1>1, <1>2, <1>3, CredentialNumbers DEF BudgetsHold, BudgetHolds
<1> QED
  BY <1>1, <1>2, <1>4 DEF BudgetsHold, BudgetHolds

\* The row and the sessions are left alone.
LEMMA UserKept ==
  ASSUME CredentialsHold, Onward, UNCHANGED <<user, set_so_far, sessions>>
  PROVE  UserHolds'
<1>1. UserHolds
  BY DEF CredentialsHold
<1> QED
  BY <1>1, CredentialNumbers DEF UserHolds, Onward, C!SessionsEnd, C!is_session_current

\* The failure counters are left alone; a lock may end.
LEMMA FailuresKept ==
  ASSUME CredentialsHold, serial' = serial, UNCHANGED <<ip, failed>>, user'.count = user.count,
         user'.locked \in {user.locked, 0}
  PROVE  FailuresHold'
  BY DEF CredentialsHold, FailuresHold, C!FailuresCounted

\* The links are left alone.
LEMMA ResetsKept ==
  ASSUME CredentialsHold, UNCHANGED <<serial, links, confirmed>>
  PROVE  ResetsHold'
<1>1. ResetsHold
  BY DEF CredentialsHold
<1>2. C!Live' = C!Live
  BY DEF C!Live
<1> QED
  BY <1>1, <1>2 DEF ResetsHold

LEMMA ServesAlone ==
  ASSUME CredentialsHold, NEW w \in Workers, C!Serve(w)
  PROVE  /\ attempts[w].op = "none"
         /\ serial => \A v \in Workers \ {w} : attempts[v] = C!Idle
         /\ attempts[w] = C!Idle
         /\ requests' = requests + 1 /\ requests' \in 0 .. MaxRequests
<1>1. attempts[w].op = "none"
  BY IdleHolds DEF C!Serve
<1> QED
  BY <1>1, CredentialNumbers DEF C!Serve

\* Served one at a time, the others are idle while a request goes on.
LEMMA GoesOnAlone ==
  ASSUME CredentialsHold, NEW w \in Workers, attempts[w].op # "none"
  PROVE  /\ serial => \A v \in Workers \ {w} : attempts[v] = C!Idle
         /\ attempts[w] \in Tries /\ TryHolds(attempts[w]) /\ (serial => Current(attempts[w]))
<1>1. attempts[w] # C!Idle
  BY IdleHolds
<1>2. serial => \A v \in Workers \ {w} : attempts[v] = C!Idle
  BY <1>1 DEF CredentialsHold, TriesHold
<1>3. TryHolds(attempts[w]) /\ (serial => Current(attempts[w]))
  BY DEF CredentialsHold, TriesHold
<1> QED
  BY <1>2, <1>3 DEF TryHolds

\* A request counts once in a budget.
LEMMA WeightIsOne == \A op, ops : Weight(op, ops) \in {0, 1}
  BY DEF Weight

\* A request begins, and may read the clock.
LEMMA RequestBegins ==
  ASSUME CredentialsHold, NEW w \in Workers, C!Serve(w), NEW r, attempts' = [attempts EXCEPT ![w] = r],
         UNCHANGED <<serial, user, set_so_far, sessions, links, ip, failed, confirmed>>,
         now' = now \/ (now' = now + 1),
         now' + Weight(r.op, Readers) <= now + 2,
         TryHolds(r)', serial => Current(r)'
  PROVE  CredentialsHold'
<1>1. /\ attempts[w].op = "none" /\ (serial => \A v \in Workers \ {w} : attempts[v] = C!Idle)
      /\ requests' = requests + 1 /\ requests' \in 0 .. MaxRequests
  BY ServesAlone DEF C!Serve
<1>2. /\ requests \in Nat /\ now \in Nat /\ set_so_far \in Nat /\ Cardinality(links) \in Nat
      /\ ip.count \in Nat
  BY CredentialNumbers
<1>3. Onward
  BY <1>1, <1>2 DEF Onward
<1>4. TriesHold'
  BY <1>1, <1>3, TryStep
<1>5. BudgetsHold'
  <2>1. PICK op : op = attempts[w].op
    OBVIOUS
  <2>2. Weight(op, Readers) = 0
    BY <1>1, <2>1 DEF Weight, Readers
  <2>3. Weight(op, {"fail", "ip_failure"}) = 0
    BY <1>1, <2>1 DEF Weight
  <2>4. Weight(op, {"link"}) = 0
    BY <1>1, <2>1 DEF Weight
  <2>5. now' + Weight(r.op, Readers) + 2 * requests <= now + Weight(op, Readers) + 2 * requests'
    BY <1>1, <1>2, <2>2, WeightIsOne
  <2>6. ip.count' + Weight(r.op, {"fail", "ip_failure"}) + requests
          <= ip.count + Weight(op, {"fail", "ip_failure"}) + requests'
    BY <1>1, <1>2, <2>3, WeightIsOne
  <2>7. Cardinality(links)' + Weight(r.op, {"link"}) + requests
          <= Cardinality(links) + Weight(op, {"link"}) + requests'
    BY <1>1, <1>2, <2>4, WeightIsOne
  <2>8. now' \in Nat /\ ip.count' \in Nat /\ Cardinality(links)' \in Nat
    BY <1>2
  <2> QED
    BY <1>1, <2>1, <2>5, <2>6, <2>7, <2>8, BudgetStep
<1>6. UserHolds'
  BY <1>3, UserKept
<1>7. FailuresHold'
  BY FailuresKept
<1>8. ResetsHold'
  BY ResetsKept
<1> QED
  BY <1>4, <1>5, <1>6, <1>7, <1>8 DEF CredentialsHold

\* The bodies of requests that carry nothing of the clock.
LEMMA PlainBegins ==
  ASSUME CredentialsHold, NEW w \in Workers, C!Serve(w), NEW r, attempts' = [attempts EXCEPT ![w] = r],
         UNCHANGED <<serial, now, user, set_so_far, sessions, links, ip, failed, confirmed>>,
         r = C!Idle \/ (\E op \in {"ip_failure", "link"} : r = [C!Idle EXCEPT !.op = op])
  PROVE  CredentialsHold'
<1>1. now \in Nat
  BY CredentialNumbers
<1>2. PICK op \in {"none", "ip_failure", "link"} : r = Try(op, Nobodys, 0, 0, 0)
  BY IdleTry, TryBegins
<1>3. r \in Tries /\ r.op = op
  BY <1>2, IdleTry, TryFields
<1>4. TryHolds(r)' /\ Current(r)'
  BY <1>3 DEF TryHolds, Current, Setters
<1>5. Weight(r.op, Readers) <= 1
  BY WeightIsOne
<1>6. now' + Weight(r.op, Readers) <= now + 2
  BY <1>1, <1>5, WeightIsOne
<1> QED
  BY <1>4, <1>6, RequestBegins

\* login: the password and the counters are read.
LEMMA LoginBegins ==
  ASSUME CredentialsHold, NEW w \in Workers, NEW password \in {C!Wrong} \union 1 .. set_so_far,
         NEW asked \in BOOLEAN, C!BeginLogin(w, password, asked)
  PROVE  CredentialsHold'
<1>0. C!Serve(w) /\ UNCHANGED <<serial, now, user, set_so_far, sessions, links, ip, failed, confirmed>>
  BY DEF C!BeginLogin
<1>1. attempts = [v \in Workers |-> attempts[v]] /\ attempts[w] = C!Idle
  BY ServesAlone, <1>0 DEF CredentialsHold, TriesHold
<1>2. user \in UserRows /\ user.count <= requests
  BY DEF CredentialsHold, UserHolds
<1>3. /\ requests' = requests + 1 /\ requests \in Nat /\ now \in Nat /\ user.count \in Nat
      /\ set_so_far \in Nat
  BY <1>0, ServesAlone, CredentialNumbers
<1>4. CASE UNCHANGED attempts
  <2>1. attempts' = [attempts EXCEPT ![w] = C!Idle]
    BY <1>1, <1>4, Zenon
  <2> QED
    BY <1>0, <2>1, PlainBegins
<1>5. CASE C!Becomes(w, [C!Idle EXCEPT !.op = "fail", !.seen = user])
  <2>1. PICK r : r = [C!Idle EXCEPT !.op = "fail", !.seen = user]
    OBVIOUS
  <2>2. r = Try("fail", user, 0, 0, 0)
    BY <2>1, TryBegins
  <2>3. r \in Tries /\ r.op = "fail" /\ r.seen = user
    BY <1>2, <2>2, TryFields
  <2>4. TryHolds(r)' /\ Current(r)'
    BY <1>0, <1>2, <1>3, <2>3 DEF TryHolds, Current, Setters
  <2>5. now' + Weight(r.op, Readers) <= now + 2
    BY <1>0, <1>3, WeightIsOne
  <2>6. attempts' = [attempts EXCEPT ![w] = r]
    BY <1>5, <2>1 DEF C!Becomes
  <2> QED
    BY <1>0, <2>4, <2>5, <2>6, RequestBegins
<1>6. CASE /\ password = user.password
           /\ C!Becomes(w, [C!Idle EXCEPT !.op = "welcome", !.seen = user, !.password = password])
  <2>1. PICK r : r = [C!Idle EXCEPT !.op = "welcome", !.seen = user, !.password = password]
    OBVIOUS
  <2>2. r = Try("welcome", user, 0, password, 0)
    <3>1. PICK op : op = "welcome"
      OBVIOUS
    <3>2. [C!Idle EXCEPT !.op = op, !.seen = user, !.password = password] = Try(op, user, 0, password, 0)
      BY TryBegins
    <3> QED
      BY <2>1, <3>1, <3>2
  <2>3. password \in 1 .. set_so_far
    BY <1>6 DEF CredentialsHold, UserHolds
  <2>4. r \in Tries /\ r.op = "welcome" /\ r.seen = user /\ r.password = password
    BY <1>2, <1>3, <2>2, <2>3, TryFields
  <2>5. TryHolds(r)' /\ Current(r)'
    BY <1>0, <1>3, <1>6, <2>3, <2>4 DEF TryHolds, Current, Setters
  <2>6. now' + Weight(r.op, Readers) <= now + 2
    BY <1>0, <1>3, WeightIsOne
  <2>7. attempts' = [attempts EXCEPT ![w] = r]
    BY <1>6, <2>1 DEF C!Becomes
  <2> QED
    BY <1>0, <2>5, <2>6, <2>7, RequestBegins
<1> QED
  BY <1>4, <1>5, <1>6, Zenon DEF C!BeginLogin

\* A password is set: the clock is read, and the link checked.
LEMMA SetBegins ==
  ASSUME CredentialsHold, NEW w \in Workers, NEW op \in Setters, NEW link \in Nat,
         C!BeginSet(w, op, link),
         op = "confirm" => link \in 1 .. Cardinality(links) /\ (serial => confirmed[link] = 0)
  PROVE  CredentialsHold'
<1>1. /\ C!Serve(w) /\ now' = now + 1
      /\ UNCHANGED <<serial, user, set_so_far, sessions, links, ip, failed, confirmed>>
  BY DEF C!BeginSet, C!Reads
<1>2. user \in UserRows /\ \A s \in sessions : s.issued_at \in 1 .. now
  BY DEF CredentialsHold, UserHolds
<1>3. now \in Nat
  BY CredentialNumbers
<1>4. PICK seen : seen = user
  OBVIOUS
<1>5. PICK at : at = now + 1
  OBVIOUS
<1>6. PICK r : r = [C!Idle EXCEPT !.op = op, !.seen = seen, !.at = at, !.link = link]
  OBVIOUS
<1>7. r = Try(op, user, now + 1, 0, link)
  <2>1. PICK p : p = [C!Idle EXCEPT !.op = op]
    OBVIOUS
  <2>2. p = Try(op, Nobodys, 0, 0, 0)
    BY <2>1, IdleTry, SetsTryOp
  <2>3. PICK q : q = [p EXCEPT !.seen = seen]
    OBVIOUS
  <2>4. q = Try(op, seen, 0, 0, 0)
    BY <2>2, <2>3, SetsTrySeen
  <2>5. PICK u : u = [q EXCEPT !.at = at]
    OBVIOUS
  <2>6. u = Try(op, seen, at, 0, 0)
    BY <2>4, <2>5, SetsTryAt
  <2>7. PICK v : v = [u EXCEPT !.link = link]
    OBVIOUS
  <2>8. v = Try(op, seen, at, 0, link)
    BY <2>6, <2>7, SetsTryLink
  <2>9. r = v
    BY <1>6, <2>1, <2>3, <2>5, <2>7, Zenon
  <2> QED
    BY <1>4, <1>5, <2>8, <2>9
<1>8. r \in Tries /\ r.op = op /\ r.seen = user /\ r.at = now + 1 /\ r.link = link
  BY <1>2, <1>3, <1>7, TryFields
<1>9. TryHolds(r)'
  BY <1>1, <1>3, <1>8 DEF TryHolds, Setters
<1>10. serial => Current(r)'
  BY <1>1, <1>2, <1>3, <1>8 DEF Current, Setters
<1>11. now' + Weight(r.op, Readers) <= now + 2
  BY <1>1, <1>3, WeightIsOne
<1>12. attempts' = [attempts EXCEPT ![w] = r]
  BY <1>4, <1>5, <1>6 DEF C!BeginSet, C!Becomes
<1> QED
  BY <1>1, <1>9, <1>10, <1>11, <1>12, RequestBegins

\* A request goes on, or ends.
LEMMA RequestGoesOn ==
  ASSUME CredentialsHold, NEW w \in Workers, NEW op, op = attempts[w].op, op # "none",
         NEW r, attempts' = [attempts EXCEPT ![w] = r],
         Onward, requests' = requests, ip.count' \in Nat,
         now' + Weight(r.op, Readers) <= now + Weight(op, Readers),
         ip.count' + Weight(r.op, {"fail", "ip_failure"}) <= ip.count + Weight(op, {"fail", "ip_failure"}),
         Cardinality(links)' + Weight(r.op, {"link"}) <= Cardinality(links) + Weight(op, {"link"}),
         TryHolds(r)', serial => Current(r)', UserHolds', FailuresHold', ResetsHold'
  PROVE  CredentialsHold'
<1>1. /\ requests \in Nat /\ now \in Nat /\ set_so_far \in Nat /\ Cardinality(links) \in Nat
      /\ ip.count \in Nat
  BY CredentialNumbers
<1>2. requests' \in 0 .. MaxRequests
  BY DEF CredentialsHold, BudgetsHold
<1>3. serial => \A v \in Workers \ {w} : attempts[v] = C!Idle
  BY GoesOnAlone
<1>4. TriesHold'
  BY <1>3, TryStep
<1>5. BudgetsHold'
  <2>1. now' + Weight(r.op, Readers) + 2 * requests <= now + Weight(op, Readers) + 2 * requests'
    BY <1>1, WeightIsOne DEF Onward
  <2>2. ip.count' + Weight(r.op, {"fail", "ip_failure"}) + requests
          <= ip.count + Weight(op, {"fail", "ip_failure"}) + requests'
    BY <1>1, WeightIsOne DEF Onward
  <2>3. Cardinality(links)' + Weight(r.op, {"link"}) + requests
          <= Cardinality(links) + Weight(op, {"link"}) + requests'
    BY <1>1, WeightIsOne DEF Onward
  <2> QED
    BY <1>2, <2>1, <2>2, <2>3, BudgetStep DEF Onward
<1> QED
  BY <1>4, <1>5 DEF CredentialsHold

Lighter(after, before) ==
  /\ after # "link" /\ (after \in Readers => before \in Readers)
  /\ after \in {"fail", "ip_failure"} => before \in {"fail", "ip_failure"}

\* The same, when it reads no clock, meets no failure and makes no link.
LEMMA RequestPasses ==
  ASSUME CredentialsHold, NEW w \in Workers, NEW op, op = attempts[w].op, op # "none",
         NEW r, attempts' = [attempts EXCEPT ![w] = r],
         Onward, UNCHANGED <<requests, now>>, Cardinality(links)' = Cardinality(links),
         ip.count' \in Nat, ip.count' <= ip.count, Lighter(r.op, op),
         TryHolds(r)', serial => Current(r)', UserHolds', FailuresHold', ResetsHold'
  PROVE  CredentialsHold'
<1>1. now \in Nat /\ Cardinality(links) \in Nat /\ ip.count \in Nat
  BY CredentialNumbers
<1>2. \A ops : (r.op \in ops => op \in ops) => Weight(r.op, ops) <= Weight(op, ops)
  BY DEF Weight
<1>3. now' + Weight(r.op, Readers) <= now + Weight(op, Readers)
  <2>1. Weight(r.op, Readers) <= Weight(op, Readers)
    BY <1>2 DEF Lighter
  <2> QED
    BY <1>1, <2>1, WeightIsOne
<1>4. ip.count' + Weight(r.op, {"fail", "ip_failure"}) <= ip.count + Weight(op, {"fail", "ip_failure"})
  <2>1. Weight(r.op, {"fail", "ip_failure"}) <= Weight(op, {"fail", "ip_failure"})
    BY <1>2 DEF Lighter
  <2> QED
    BY <1>1, <2>1, WeightIsOne
<1>5. Cardinality(links)' + Weight(r.op, {"link"}) <= Cardinality(links) + Weight(op, {"link"})
  <2>1. Weight(r.op, {"link"}) <= Weight(op, {"link"})
    BY <1>2 DEF Lighter
  <2> QED
    BY <1>1, <2>1, WeightIsOne
<1> QED
  BY <1>1, <1>3, <1>4, <1>5, RequestGoesOn

\* The counters of the user change, and the password does not.
LEMMA UserCounts ==
  ASSUME CredentialsHold, UNCHANGED <<serial, now, set_so_far, sessions, requests>>,
         user' \in UserRows, user'.password = user.password, user'.changed = user.changed,
         user'.count <= requests
  PROVE  UserHolds'
  BY DEF CredentialsHold, UserHolds, C!SessionsEnd, C!is_session_current

\* _register_user_failure writes the count it computed.
LEMMA FailureRegistered ==
  ASSUME CredentialsHold, NEW w \in Workers, C!RegisterFailure(w)
  PROVE  CredentialsHold'
<1>0. PICK r : r = attempts[w]
  OBVIOUS
<1>1. r.op = "fail"
  BY <1>0 DEF C!RegisterFailure, C!Does
<1>2. r \in Tries /\ TryHolds(r) /\ (serial => Current(r))
  BY <1>0, <1>1, GoesOnAlone
<1>3. r.seen \in UserRows /\ r.at \in Nat /\ r.password \in Nat /\ r.link \in Nat
  BY <1>2 DEF Tries
<1>4. PICK count : count = r.seen.count + 1
  OBVIOUS
<1>5. count \in Nat /\ count > 0 /\ count <= requests /\ (serial => count = user.count + 1)
  BY <1>1, <1>2, <1>3, <1>4, UserTyped DEF TryHolds, Current
<1>6. PICK locked : locked = IF C!Locks(count) THEN C!Lock(count) ELSE user.locked
  OBVIOUS
<1>7. UserHolds /\ FailuresHold /\ user \in UserRows
  BY DEF CredentialsHold, UserHolds
<1>8. locked \in C!Minutes
  BY <1>5, <1>6, <1>7, LockIsMinutes, UserTyped
<1>9. /\ UNCHANGED <<serial, now, set_so_far, sessions, links, ip, requests, confirmed>>
      /\ failed' = [failed EXCEPT !.user = @ + 1]
  BY DEF C!RegisterFailure
<1>10. user' = UserRow(user.password, user.changed, count, locked, user.active)
  <2>1. user' = [user EXCEPT !.count = count, !.locked = locked]
    <3>1. count = attempts[w].seen.count + 1
      BY <1>0, <1>4
    <3>2. user' = [user EXCEPT !.count = attempts[w].seen.count + 1,
                               !.locked = IF C!Locks(attempts[w].seen.count + 1)
                                          THEN C!Lock(attempts[w].seen.count + 1) ELSE user.locked]
      BY <1>7, UserTyped DEF C!RegisterFailure
    <3> QED
      BY <1>6, <3>1, <3>2
  <2>2. PICK u : u = user
    OBVIOUS
  <2>3. [u EXCEPT !.count = count, !.locked = locked]
          = UserRow(u.password, u.changed, count, locked, u.active)
    BY <1>7, <2>2, CountersSet
  <2> QED
    BY <2>1, <2>2, <2>3
<1>11. /\ user' \in UserRows /\ user'.password = user.password /\ user'.changed = user.changed
       /\ user'.count = count /\ user'.locked = locked
  BY <1>5, <1>7, <1>8, <1>10, UserFields, UserTyped
<1>12. UserHolds'
  BY <1>5, <1>9, <1>11, UserCounts
<1>13. FailuresHold'
  <2>1. failed' \in [user : Nat, ip : Nat] /\ failed'.user = failed.user + 1 /\ failed'.ip = failed.ip
    BY <1>7, <1>9 DEF FailuresHold
  <2>2. ASSUME serial PROVE count = failed'.user
    BY <1>5, <1>7, <2>1, <2>2 DEF FailuresHold, C!FailuresCounted
  <2>3. ASSUME serial, locked # 0 PROVE failed'.user >= MAX_FAILED_LOGINS
    <3>1. CASE C!Locks(count)
      BY <1>5, <2>2, <2>3, <3>1, LocksAreEarned
    <3>2. CASE ~C!Locks(count)
      <4>1. failed.user >= MAX_FAILED_LOGINS /\ failed.user \in Nat
        BY <1>6, <1>7, <2>3, <3>2 DEF FailuresHold, C!FailuresCounted
      <4> QED
        BY <2>1, <4>1, FailuresAssumption
    <3> QED
      BY <3>1, <3>2
  <2> QED
    BY <1>7, <1>9, <1>11, <2>1, <2>2, <2>3 DEF FailuresHold, C!FailuresCounted
<1>14. PICK q : q = [r EXCEPT !.op = "ip_failure"]
  OBVIOUS
<1>15. q = Try("ip_failure", r.seen, r.at, r.password, r.link)
  BY <1>2, <1>14, TryGoesOn
<1>16. q \in Tries /\ q.op = "ip_failure"
  BY <1>3, <1>15, TryFields
<1>17. TryHolds(q)' /\ Current(q)'
  BY <1>16 DEF TryHolds, Current, Setters
<1>18. attempts' = [attempts EXCEPT ![w] = q]
  BY <1>0, <1>14 DEF C!RegisterFailure, C!Goes, C!Becomes
<1>19. ResetsHold'
  BY <1>9, ResetsKept
<1>20. PICK op : op = attempts[w].op
  OBVIOUS
<1>21. ip.count \in Nat /\ set_so_far \in Nat
  BY CredentialNumbers
<1>22. Onward
  BY <1>9, CredentialNumbers DEF Onward
<1>23. Lighter(q.op, op) /\ op # "none"
  BY <1>0, <1>1, <1>16, <1>20 DEF Lighter, Readers
<1>24. /\ UNCHANGED <<requests, now>> /\ Cardinality(links)' = Cardinality(links)
       /\ ip.count' \in Nat /\ ip.count' <= ip.count
  BY <1>9, <1>21
<1> QED
  BY <1>12, <1>13, <1>17, <1>18, <1>19, <1>20, <1>22, <1>23, <1>24, RequestPasses

\* The address is locked.
LEMMA LockedOut ==
  ASSUME CredentialsHold, NEW w \in Workers, NEW answered \in BOOLEAN, C!LockIp(w, answered)
  PROVE  CredentialsHold'
<1>1. PICK r : r = attempts[w]
  OBVIOUS
<1>2. r.op = "ip_lock"
  BY <1>1 DEF C!LockIp, C!Does
<1>3. r \in Tries /\ TryHolds(r) /\ (serial => Current(r))
  BY <1>1, <1>2, GoesOnAlone
<1>4. C!Lock(r.at) \in C!Minutes
  BY <1>2, <1>3, LockIsMinutes DEF TryHolds, Tries
<1>5. /\ UNCHANGED <<serial, now, user, set_so_far, sessions, links, requests, failed, confirmed>>
      /\ ip' = ip \/ ip' = [ip EXCEPT !.locked = C!Lock(r.at)]
      /\ attempts' = [attempts EXCEPT ![w] = C!Idle]
  BY <1>1 DEF C!LockIp, C!Ends, C!Becomes
<1>6. ip' \in [count : Nat, locked : C!Minutes] /\ ip'.count = ip.count
  BY <1>4, <1>5 DEF CredentialsHold, FailuresHold
<1>7. FailuresHold'
  <2>1. r.at >= MAX_FAILED_LOGINS /\ r.at \in Nat /\ MAX_FAILED_LOGINS \in Nat
    BY <1>2, <1>3, LocksAreEarned, FailuresAssumption DEF TryHolds, Tries
  <2>2. serial => r.at <= failed.ip
    BY <1>2, <1>3 DEF Current
  <2>3. FailuresHold /\ failed.ip \in Nat
    BY DEF CredentialsHold, FailuresHold
  <2>4. serial /\ ip'.locked # 0 => failed.ip >= MAX_FAILED_LOGINS
    <3>1. CASE ip' = ip
      BY <2>3, <3>1 DEF FailuresHold, C!FailuresCounted
    <3>2. CASE ip' # ip
      BY <2>1, <2>2, <2>3, <3>2
    <3> QED
      BY <3>1, <3>2
  <2> QED
    BY <1>5, <1>6, <2>3, <2>4 DEF FailuresHold, C!FailuresCounted
<1>8. set_so_far \in Nat /\ ip.count \in Nat /\ requests \in Nat /\ now \in Nat /\ Cardinality(links) \in Nat
  BY CredentialNumbers
<1>9. Onward
  BY <1>5, <1>8 DEF Onward
<1>10. UserHolds'
  BY <1>5, <1>9, UserKept
<1>11. ResetsHold'
  BY <1>5, ResetsKept
<1>12. PICK q : q = C!Idle
  OBVIOUS
<1>13. TryHolds(q)' /\ Current(q)' /\ q.op = "none"
  BY <1>12, IdleHolds
<1>14. PICK op : op = attempts[w].op
  OBVIOUS
<1>15. Lighter(q.op, op) /\ op # "none"
  BY <1>1, <1>2, <1>13, <1>14 DEF Lighter, Readers
<1>16. /\ UNCHANGED <<requests, now>> /\ Cardinality(links)' = Cardinality(links)
       /\ ip.count' \in Nat /\ ip.count' <= ip.count /\ attempts' = [attempts EXCEPT ![w] = q]
  BY <1>5, <1>6, <1>8, <1>12
<1> QED
  BY <1>7, <1>10, <1>11, <1>13, <1>14, <1>9, <1>15, <1>16, RequestPasses

LEMMA AddressFailed ==
  ASSUME CredentialsHold, NEW w \in Workers, NEW counted \in BOOLEAN, NEW answered \in BOOLEAN,
         C!RegisterIpFailure(w, counted, answered)
  PROVE  CredentialsHold'
<1>0. PICK op : op = attempts[w].op
  OBVIOUS
<1>1. op = "ip_failure"
  BY <1>0 DEF C!RegisterIpFailure, C!Does
<1>2. /\ UNCHANGED <<serial, now, user, set_so_far, sessions, links, requests, confirmed>>
      /\ ip' = (IF counted THEN [ip EXCEPT !.count = @ + 1] ELSE ip)
      /\ failed' = [failed EXCEPT !.ip = @ + 1]
  BY DEF C!RegisterIpFailure
<1>3. Onward
  BY <1>2, CredentialNumbers DEF Onward
<1>4. ip.count \in Nat /\ now \in Nat /\ Cardinality(links) \in Nat
  BY CredentialNumbers
<1>5. FailuresHold
  BY DEF CredentialsHold
<1>6. /\ ip' \in [count : Nat, locked : C!Minutes] /\ ip'.locked = ip.locked
      /\ ip'.count = IF counted THEN ip.count + 1 ELSE ip.count
  BY <1>2, <1>4, <1>5 DEF FailuresHold
<1>7. failed' \in [user : Nat, ip : Nat] /\ failed'.ip = failed.ip + 1 /\ failed'.user = failed.user
  BY <1>2, <1>5 DEF FailuresHold
<1>8. FailuresHold'
  <2>1. failed.ip \in Nat /\ failed'.ip \in Nat /\ MAX_FAILED_LOGINS \in Nat
    BY <1>5, <1>7, FailuresAssumption DEF FailuresHold
  <2>2. serial => ip'.count <= failed'.ip
    BY <1>4, <1>5, <1>6, <1>7, <2>1 DEF FailuresHold
  <2>3. serial /\ ip'.locked # 0 => failed'.ip >= MAX_FAILED_LOGINS
    BY <1>5, <1>6, <1>7, <2>1 DEF FailuresHold, C!FailuresCounted
  <2> QED
    BY <1>2, <1>5, <1>6, <1>7, <2>2, <2>3 DEF FailuresHold, C!FailuresCounted
<1>9. UserHolds'
  BY <1>2, <1>3, UserKept
<1>10. ResetsHold'
  BY <1>2, ResetsKept
<1>11. PICK r : /\ attempts' = [attempts EXCEPT ![w] = r]
               /\ \/ r = C!Idle
                  \/ /\ counted /\ C!Locks(ip.count + 1)
                     /\ r = [C!Idle EXCEPT !.op = "ip_lock", !.at = ip.count + 1]
  BY Zenon DEF C!RegisterIpFailure, C!Ends, C!Becomes
<1>12. TryHolds(r)' /\ (serial => Current(r)') /\ r.op \in {"none", "ip_lock"}
  <2>1. CASE r = C!Idle
    BY <2>1, IdleHolds
  <2>2. CASE counted /\ C!Locks(ip.count + 1) /\ r = [C!Idle EXCEPT !.op = "ip_lock", !.at = ip.count + 1]
    <3>1. PICK at : at = ip.count + 1
      OBVIOUS
    <3>2. r = Try("ip_lock", Nobodys, at, 0, 0)
      BY <2>2, <3>1, TryBegins
    <3>3. r \in Tries /\ r.op = "ip_lock" /\ r.at = at
      BY <1>4, <3>1, <3>2, IdleTry, TryFields
    <3>4. TryHolds(r)'
      BY <1>4, <2>2, <3>1, <3>3 DEF TryHolds, Setters
    <3>5. serial => at <= failed'.ip
      BY <1>2, <1>6, <1>8, <2>2, <3>1 DEF FailuresHold
    <3>6. serial => Current(r)'
      BY <3>3, <3>5 DEF Current, Setters
    <3> QED
      BY <3>3, <3>4, <3>6
  <2> QED
    BY <1>11, <2>1, <2>2
<1>13. now' + Weight(r.op, Readers) <= now + Weight(op, Readers)
  <2>1. Weight(r.op, Readers) = 0
    BY <1>12 DEF Weight, Readers
  <2> QED
    BY <1>2, <1>4, <2>1, WeightIsOne
<1>14. ip'.count + Weight(r.op, {"fail", "ip_failure"}) <= ip.count + Weight(op, {"fail", "ip_failure"})
  BY <1>1, <1>4, <1>6, <1>12 DEF Weight
<1>15. Cardinality(links)' + Weight(r.op, {"link"}) <= Cardinality(links) + Weight(op, {"link"})
  BY <1>1, <1>2, <1>4, <1>12 DEF Weight
<1>16. op # "none" /\ requests' = requests /\ ip.count' \in Nat
  BY <1>1, <1>2, <1>4, <1>6
<1> QED
  BY <1>0, <1>3, <1>8, <1>9, <1>10, <1>11, <1>12, <1>13, <1>14, <1>15, <1>16, RequestGoesOn

\* What clear_lockout leaves of the row.
LEMMA ClearedCounts ==
  ASSUME CredentialsHold, NEW seen, NEW u, u = C!Cleared(seen)
  PROVE  /\ u \in UserRows /\ u.password = user.password /\ u.changed = user.changed
         /\ u.count = IF seen.count = 0 THEN user.count ELSE 0
         /\ u.locked = IF seen.locked = 0 THEN user.locked ELSE 0
<1>1. user \in UserRows
  BY DEF CredentialsHold, UserHolds
<1>2. CASE seen.count = 0 /\ seen.locked = 0
  BY <1>1, <1>2 DEF C!Cleared
<1>3. CASE ~(seen.count = 0 /\ seen.locked = 0)
  <2>1. PICK count : count = IF seen.count = 0 THEN user.count ELSE 0
    OBVIOUS
  <2>2. PICK locked : locked = IF seen.locked = 0 THEN user.locked ELSE 0
    OBVIOUS
  <2>3. u = [user EXCEPT !.count = count, !.locked = locked]
    BY <1>1, <1>3, <2>1, <2>2, UserTyped DEF C!Cleared
  <2>4. PICK v : v = user
    OBVIOUS
  <2>5. [v EXCEPT !.count = count, !.locked = locked] = UserRow(v.password, v.changed, count, locked, v.active)
    BY <1>1, <2>4, CountersSet
  <2>6. u = UserRow(user.password, user.changed, count, locked, user.active)
    BY <2>3, <2>4, <2>5
  <2>7. count \in Nat /\ locked \in C!Minutes
    BY <1>1, <2>1, <2>2, UserTyped DEF C!Minutes, C!LOCKOUT_MAX_MINUTES
  <2> QED
    BY <1>1, <2>1, <2>2, <2>6, <2>7, UserFields, UserTyped
<1> QED
  BY <1>2, <1>3

\* clear_lockout of the user.
LEMMA LockoutCleared ==
  ASSUME CredentialsHold, NEW w \in Workers, C!ClearLockout(w)
  PROVE  CredentialsHold'
<1>0. PICK r : r = attempts[w]
  OBVIOUS
<1>1. PICK op : op = r.op
  OBVIOUS
<1>2. op = "welcome"
  BY <1>0, <1>1 DEF C!ClearLockout, C!Does
<1>3. r \in Tries /\ TryHolds(r) /\ (serial => Current(r))
  BY <1>0, <1>1, <1>2, GoesOnAlone
<1>4. /\ UNCHANGED <<serial, now, set_so_far, sessions, links, ip, requests, confirmed>>
      /\ user' = C!Cleared(r.seen) /\ failed' = [failed EXCEPT !.user = 0]
  BY <1>0 DEF C!ClearLockout
<1>5. UserHolds /\ FailuresHold
  BY DEF CredentialsHold
<1>6. PICK u : u = C!Cleared(r.seen)
  OBVIOUS
<1>7. /\ u \in UserRows /\ u.password = user.password /\ u.changed = user.changed
      /\ u.count = IF r.seen.count = 0 THEN user.count ELSE 0
      /\ u.locked = IF r.seen.locked = 0 THEN user.locked ELSE 0
  BY <1>6, ClearedCounts
<1>8. user' = u /\ u.count <= requests
  BY <1>4, <1>5, <1>6, <1>7, CredentialNumbers DEF UserHolds
<1>9. UserHolds'
  BY <1>4, <1>7, <1>8, UserCounts
<1>10. failed' \in [user : Nat, ip : Nat] /\ failed'.user = 0 /\ failed'.ip = failed.ip
  BY <1>4, <1>5 DEF FailuresHold
<1>11. serial => u.count = 0 /\ u.locked = 0
  BY <1>1, <1>2, <1>3, <1>7 DEF Current
<1>12. FailuresHold'
  BY <1>4, <1>5, <1>8, <1>10, <1>11 DEF FailuresHold, C!FailuresCounted
<1>13. ResetsHold'
  BY <1>4, ResetsKept
<1>14. Onward
  BY <1>4, CredentialNumbers DEF Onward
<1>15. PICK q : q = [r EXCEPT !.op = "clear_ip"]
  OBVIOUS
<1>16. q = Try("clear_ip", r.seen, r.at, r.password, r.link)
  BY <1>3, <1>15, TryGoesOn
<1>17. q \in Tries /\ q.op = "clear_ip" /\ q.password = r.password
  BY <1>3, <1>16, TryFields DEF Tries
<1>18. r.password \in 1 .. set_so_far /\ (serial => r.password = user.password)
  BY <1>1, <1>2, <1>3 DEF TryHolds, Current
<1>19. TryHolds(q)'
  BY <1>4, <1>17, <1>18 DEF TryHolds, Setters
<1>20. serial => Current(q)'
  BY <1>7, <1>8, <1>17, <1>18 DEF Current, Setters
<1>21. attempts' = [attempts EXCEPT ![w] = q]
  BY <1>0, <1>15 DEF C!ClearLockout, C!Goes, C!Becomes
<1>22. Lighter(q.op, op) /\ op # "none" /\ op = attempts[w].op
  BY <1>0, <1>1, <1>2, <1>17 DEF Lighter, Readers
<1>23. /\ UNCHANGED <<requests, now>> /\ Cardinality(links)' = Cardinality(links)
       /\ ip.count' \in Nat /\ ip.count' <= ip.count
  BY <1>4, CredentialNumbers
<1> QED
  BY <1>9, <1>12, <1>13, <1>14, <1>19, <1>20, <1>21, <1>22, <1>23, RequestPasses

\* clear_lockout of the address.
LEMMA AddressCleared ==
  ASSUME CredentialsHold, NEW w \in Workers, NEW answered \in BOOLEAN, C!ClearIp(w, answered)
  PROVE  CredentialsHold'
<1>0. PICK r : r = attempts[w]
  OBVIOUS
<1>1. PICK op : op = r.op
  OBVIOUS
<1>2. op = "clear_ip"
  BY <1>0, <1>1 DEF C!ClearIp, C!Does
<1>3. r \in Tries /\ TryHolds(r) /\ (serial => Current(r))
  BY <1>0, <1>1, <1>2, GoesOnAlone
<1>4. /\ UNCHANGED <<serial, now, user, set_so_far, sessions, links, requests, confirmed>>
      /\ \/ ip' = [count |-> 0, locked |-> 0] /\ failed' = [failed EXCEPT !.ip = 0]
         \/ UNCHANGED <<ip, failed>>
  BY DEF C!ClearIp
<1>5. FailuresHold /\ ip.count \in Nat
  BY CredentialNumbers DEF CredentialsHold
<1>6. ASSUME ip' = [count |-> 0, locked |-> 0] /\ failed' = [failed EXCEPT !.ip = 0]
      PROVE  FailuresHold' /\ ip.count' \in Nat /\ ip.count' <= ip.count
  <2>1. failed' \in [user : Nat, ip : Nat] /\ failed'.ip = 0 /\ failed'.user = failed.user
    BY <1>5, <1>6 DEF FailuresHold
  <2>2. ip' \in [count : Nat, locked : C!Minutes] /\ ip'.count = 0 /\ ip'.locked = 0
    BY <1>6 DEF C!Minutes, C!LOCKOUT_MAX_MINUTES
  <2> QED
    BY <1>4, <1>5, <2>1, <2>2 DEF FailuresHold, C!FailuresCounted
<1>7. ASSUME UNCHANGED <<ip, failed>>
      PROVE  FailuresHold' /\ ip.count' \in Nat /\ ip.count' <= ip.count
  BY <1>4, <1>5, <1>7, FailuresKept
<1>8. FailuresHold' /\ ip.count' \in Nat /\ ip.count' <= ip.count
  BY <1>4, <1>6, <1>7
<1>9. Onward
  BY <1>4, CredentialNumbers DEF Onward
<1>10. UserHolds'
  BY <1>4, <1>9, UserKept
<1>11. ResetsHold'
  BY <1>4, ResetsKept
<1>12. PICK q : q = [r EXCEPT !.op = "issue"]
  OBVIOUS
<1>13. q = Try("issue", r.seen, r.at, r.password, r.link)
  BY <1>3, <1>12, TryGoesOn
<1>14. q \in Tries /\ q.op = "issue" /\ q.password = r.password
  BY <1>3, <1>13, TryFields DEF Tries
<1>15. r.password \in 1 .. set_so_far /\ (serial => r.password = user.password)
  BY <1>1, <1>2, <1>3 DEF TryHolds, Current
<1>16. TryHolds(q)'
  BY <1>4, <1>14, <1>15 DEF TryHolds, Setters
<1>17. serial => Current(q)'
  BY <1>4, <1>14, <1>15 DEF Current, Setters
<1>18. attempts' = [attempts EXCEPT ![w] = q]
  BY <1>0, <1>12 DEF C!ClearIp, C!Goes, C!Becomes
<1>19. Lighter(q.op, op) /\ op # "none" /\ op = attempts[w].op
  BY <1>0, <1>1, <1>2, <1>14 DEF Lighter, Readers
<1>20. /\ UNCHANGED <<requests, now>> /\ Cardinality(links)' = Cardinality(links)
       /\ ip.count' \in Nat /\ ip.count' <= ip.count
  BY <1>4, <1>8
<1> QED
  BY <1>8, <1>9, <1>10, <1>11, <1>16, <1>17, <1>18, <1>19, <1>20, RequestPasses

\* A session opens with the password it checked.
LEMMA TokenIssued ==
  ASSUME CredentialsHold, NEW w \in Workers, C!IssueToken(w)
  PROVE  CredentialsHold'
<1>0. PICK r : r = attempts[w]
  OBVIOUS
<1>1. PICK op : op = r.op
  OBVIOUS
<1>2. op = "issue"
  BY <1>0, <1>1 DEF C!IssueToken, C!Does
<1>3. TryHolds(r) /\ (serial => Current(r))
  BY <1>0, <1>1, <1>2, GoesOnAlone
<1>4. r.password \in 1 .. set_so_far /\ (serial => r.password = user.password)
  BY <1>1, <1>2, <1>3 DEF TryHolds, Current
<1>5. /\ UNCHANGED <<serial, user, set_so_far, links, ip, requests, failed, confirmed>>
      /\ now' = now + 1
      /\ sessions' = sessions \union {[issued_at |-> now + 1, password |-> r.password]}
  BY <1>0 DEF C!IssueToken, C!Reads
<1>6. now \in Nat /\ ip.count \in Nat /\ Cardinality(links) \in Nat
  BY CredentialNumbers
<1>7. Onward
  BY <1>5, <1>6, CredentialNumbers DEF Onward
<1>8. UserHolds
  BY DEF CredentialsHold
<1>9. \A s \in sessions' : s \in sessions \/ (s.issued_at = now + 1 /\ s.password = r.password)
  BY <1>5
<1>10. \A s \in sessions' : s.issued_at \in 1 .. now' /\ s.password \in 1 .. set_so_far'
  BY <1>4, <1>5, <1>6, <1>8, <1>9 DEF UserHolds
<1>11. C!SessionsEnd'
  BY <1>4, <1>5, <1>8, <1>9 DEF UserHolds, C!SessionsEnd, C!is_session_current
<1>12. UserHolds'
  <2>1. user.changed \in Nat
    BY CredentialNumbers
  <2> QED
    BY <1>5, <1>6, <1>8, <1>10, <1>11, <2>1 DEF UserHolds
<1>13. FailuresHold'
  BY <1>5, FailuresKept
<1>14. ResetsHold'
  BY <1>5, ResetsKept
<1>15. PICK q : q = C!Idle
  OBVIOUS
<1>16. TryHolds(q)' /\ Current(q)' /\ q.op = "none"
  BY <1>15, IdleHolds
<1>17. now' + Weight(q.op, Readers) <= now + Weight(op, Readers)
  BY <1>2, <1>5, <1>6, <1>16 DEF Weight, Readers
<1>18. ip.count' + Weight(q.op, {"fail", "ip_failure"}) <= ip.count + Weight(op, {"fail", "ip_failure"})
  BY <1>2, <1>5, <1>6, <1>16 DEF Weight
<1>19. Cardinality(links)' + Weight(q.op, {"link"}) <= Cardinality(links) + Weight(op, {"link"})
  BY <1>2, <1>5, <1>6, <1>16 DEF Weight
<1>20. /\ op # "none" /\ op = attempts[w].op /\ requests' = requests /\ ip.count' \in Nat
       /\ attempts' = [attempts EXCEPT ![w] = q]
  BY <1>0, <1>1, <1>2, <1>5, <1>6, <1>15 DEF C!IssueToken, C!Ends, C!Becomes
<1> QED
  BY <1>7, <1>12, <1>13, <1>14, <1>16, <1>17, <1>18, <1>19, <1>20, RequestGoesOn

\* clear_lockout after a reset.
LEMMA Unlocked ==
  ASSUME CredentialsHold, NEW w \in Workers, C!Unlock(w)
  PROVE  CredentialsHold'
<1>1. PICK op : op = attempts[w].op
  OBVIOUS
<1>2. op = "unlock"
  BY <1>1 DEF C!Unlock, C!Does
<1>4. /\ UNCHANGED <<serial, now, set_so_far, sessions, links, ip, requests, confirmed>>
      /\ user' = C!Cleared(user) /\ failed' = [failed EXCEPT !.user = 0]
  BY DEF C!Unlock
<1>5. UserHolds /\ FailuresHold
  BY DEF CredentialsHold
<1>6. PICK seen, u : seen = user /\ u = C!Cleared(seen)
  OBVIOUS
<1>7. /\ u \in UserRows /\ u.password = user.password /\ u.changed = user.changed
      /\ u.count = IF seen.count = 0 THEN user.count ELSE 0
      /\ u.locked = IF seen.locked = 0 THEN user.locked ELSE 0
  BY <1>6, ClearedCounts
<1>8. user' = u /\ u.count = 0 /\ u.locked = 0 /\ u.count <= requests
  BY <1>4, <1>6, <1>7, CredentialNumbers
<1>9. UserHolds'
  BY <1>4, <1>7, <1>8, UserCounts
<1>10. failed' \in [user : Nat, ip : Nat] /\ failed'.user = 0 /\ failed'.ip = failed.ip
  BY <1>4, <1>5 DEF FailuresHold
<1>12. FailuresHold'
  BY <1>4, <1>5, <1>8, <1>10 DEF FailuresHold, C!FailuresCounted
<1>13. ResetsHold'
  BY <1>4, ResetsKept
<1>14. Onward
  BY <1>4, CredentialNumbers DEF Onward
<1>15. PICK q : q = C!Idle
  OBVIOUS
<1>16. TryHolds(q)' /\ Current(q)' /\ q.op = "none"
  BY <1>15, IdleHolds
<1>17. Lighter(q.op, op) /\ op # "none"
  BY <1>2, <1>16 DEF Lighter, Readers
<1>18. /\ UNCHANGED <<requests, now>> /\ Cardinality(links)' = Cardinality(links)
       /\ ip.count' \in Nat /\ ip.count' <= ip.count /\ attempts' = [attempts EXCEPT ![w] = q]
  BY <1>4, <1>15, CredentialNumbers DEF C!Unlock, C!Ends, C!Becomes
<1> QED
  BY <1>1, <1>9, <1>12, <1>13, <1>14, <1>16, <1>17, <1>18, RequestPasses

-----------------------------------------------------------------------------
(* Reset links.                                                            *)

\* A link that is used or expires keeps its number.
LEMMA LinkChanges ==
  \A l \in ResetRows :
    /\ [l EXCEPT !.used = TRUE] \in ResetRows /\ [l EXCEPT !.expired = TRUE] \in ResetRows
    /\ [l EXCEPT !.used = TRUE].id = l.id /\ [l EXCEPT !.used = TRUE].used
    /\ [l EXCEPT !.expired = TRUE].id = l.id /\ [l EXCEPT !.expired = TRUE].used = l.used
    /\ [l EXCEPT !.expired = TRUE].expired
<1> SUFFICES ASSUME NEW l \in ResetRows
             PROVE  /\ [l EXCEPT !.used = TRUE] \in ResetRows
                    /\ [l EXCEPT !.expired = TRUE] \in ResetRows
                    /\ [l EXCEPT !.used = TRUE].id = l.id /\ [l EXCEPT !.used = TRUE].used
                    /\ [l EXCEPT !.expired = TRUE].id = l.id
                    /\ [l EXCEPT !.expired = TRUE].used = l.used
                    /\ [l EXCEPT !.expired = TRUE].expired
  OBVIOUS
<1>1. [l EXCEPT !.used = TRUE] \in ResetRows
  BY DEF ResetRows
<1>2. [l EXCEPT !.expired = TRUE] \in ResetRows
  BY DEF ResetRows
<1>3. [l EXCEPT !.used = TRUE].id = l.id /\ [l EXCEPT !.used = TRUE].used
  BY DEF ResetRows
<1>4. [l EXCEPT !.expired = TRUE].id = l.id /\ [l EXCEPT !.expired = TRUE].expired
  BY DEF ResetRows
<1>5. [l EXCEPT !.expired = TRUE].used = l.used
  BY DEF ResetRows
<1> QED
  BY <1>1, <1>2, <1>3, <1>4, <1>5

\* Retiring the links leaves as many.
LEMMA RevokedLinks ==
  ASSUME ResetsHold
  PROVE  /\ IsFiniteSet(C!Revoked) /\ Cardinality(C!Revoked) = Cardinality(links)
         /\ C!Revoked \subseteq ResetRows
         /\ \A l \in C!Revoked : l.used /\ l.id \in 1 .. Cardinality(links)
         /\ \A l, m \in C!Revoked : l.id = m.id => l = m
<1>1. links \subseteq ResetRows
  BY DEF ResetsHold
<1>2. \A l \in C!Revoked : \E k \in links : l = [k EXCEPT !.used = TRUE] /\ l.id = k.id
  <2> SUFFICES ASSUME NEW l \in C!Revoked
               PROVE  \E k \in links : l = [k EXCEPT !.used = TRUE] /\ l.id = k.id
    OBVIOUS
  <2>1. PICK k \in links : l = [k EXCEPT !.used = TRUE]
    BY DEF C!Revoked
  <2>2. k \in ResetRows
    BY <1>1
  <2>3. [k EXCEPT !.used = TRUE].id = k.id
    BY <2>2, LinkChanges
  <2> QED
    BY <2>1, <2>3
<1>3. \A l \in C!Revoked : l \in ResetRows /\ l.used
  <2> SUFFICES ASSUME NEW l \in C!Revoked PROVE l \in ResetRows /\ l.used
    OBVIOUS
  <2>1. PICK k \in links : l = [k EXCEPT !.used = TRUE]
    BY DEF C!Revoked
  <2>2. k \in ResetRows
    BY <1>1
  <2>3. [k EXCEPT !.used = TRUE] \in ResetRows /\ [k EXCEPT !.used = TRUE].used
    BY <2>2, LinkChanges
  <2> QED
    BY <2>1, <2>3
<1>4. \A l, m \in C!Revoked : l.id = m.id => l = m
  <2> SUFFICES ASSUME NEW l \in C!Revoked, NEW m \in C!Revoked, l.id = m.id PROVE l = m
    OBVIOUS
  <2>1. PICK j \in links : l = [j EXCEPT !.used = TRUE] /\ l.id = j.id
    BY <1>2
  <2>2. PICK k \in links : m = [k EXCEPT !.used = TRUE] /\ m.id = k.id
    BY <1>2
  <2>3. j = k
    BY <2>1, <2>2 DEF ResetsHold
  <2> QED
    BY <2>1, <2>2, <2>3
<1>5. \A l \in C!Revoked : l.id \in 1 .. Cardinality(links)
  BY <1>2 DEF ResetsHold
<1>6. IsFiniteSet(C!Revoked) /\ Cardinality(C!Revoked) = Cardinality(links)
  <2> DEFINE f == [l \in links |-> [l EXCEPT !.used = TRUE]]
             S == links
             retired == C!Revoked
  <2>1. f \in Surjection(S, retired)
    BY DEF Surjection, C!Revoked
  <2>2. f \in Injection(S, retired)
    <3>1. ASSUME NEW a \in links, NEW b \in links, f[a] = f[b] PROVE a = b
      <4>1. f[a].id = a.id /\ f[b].id = b.id
        BY <1>1, LinkChanges
      <4>2. a.id = b.id
        BY <3>1, <4>1
      <4> QED
        BY <4>2 DEF ResetsHold
    <3> QED
      BY <3>1 DEF Injection, IsInjective, C!Revoked
  <2>3. IsFiniteSet(S)
    BY DEF ResetsHold
  <2> HIDE DEF f, S, retired
  <2>4. IsFiniteSet(retired) /\ Cardinality(retired) = Cardinality(S)
    BY <2>1, <2>2, <2>3, FS_Surjection
  <2> QED
    BY <2>4 DEF S, retired
<1> QED
  BY <1>3, <1>4, <1>5, <1>6

\* A reset link is made, and the earlier ones retired.
LEMMA LinkCommitted ==
  ASSUME CredentialsHold, NEW w \in Workers, C!CommitLink(w)
  PROVE  CredentialsHold'
<1>1. PICK op : op = attempts[w].op
  OBVIOUS
<1>2. op = "link"
  BY <1>1 DEF C!CommitLink, C!Does
<1>3. PICK n : n = Cardinality(links)
  OBVIOUS
<1>4. n \in Nat /\ now \in Nat /\ ip.count \in Nat /\ ResetsHold
  BY <1>3, CredentialNumbers DEF CredentialsHold
<1>5. PICK new : new = [id |-> n + 1, used |-> FALSE, expired |-> FALSE]
  OBVIOUS
<1>6. new \in ResetRows /\ new.id = n + 1 /\ ~new.used
  BY <1>4, <1>5 DEF ResetRows
<1>7. /\ UNCHANGED <<serial, now, user, set_so_far, sessions, ip, requests, failed, confirmed>>
      /\ links' = C!Revoked \union {new}
  BY <1>3, <1>5, SameCount DEF C!CommitLink
<1>8. new \notin C!Revoked
  BY <1>4, <1>3, <1>6, RevokedLinks
<1>9. IsFiniteSet(links') /\ Cardinality(links') = n + 1
  <2>1. IsFiniteSet(C!Revoked) /\ Cardinality(C!Revoked) = n
    BY <1>3, <1>4, RevokedLinks
  <2>2. /\ IsFiniteSet(C!Revoked \union {new})
        /\ Cardinality(C!Revoked \union {new}) =
             IF new \in C!Revoked THEN Cardinality(C!Revoked) ELSE Cardinality(C!Revoked) + 1
    BY <2>1, FS_AddElement
  <2> QED
    BY <1>7, <1>8, <2>1, <2>2
<1>10. ResetsHold'
  <2>1. \A l \in links' : l = new \/ (l \in C!Revoked /\ l.used /\ l.id \in 1 .. n)
    BY <1>3, <1>4, <1>7, RevokedLinks
  <2>2. links' \subseteq ResetRows
    BY <1>4, <1>6, <1>7, RevokedLinks
  <2>3. \A l \in links' : l.id \in 1 .. n + 1
    BY <1>4, <1>6, <2>1
  <2>4. \A l, m \in links' : l.id = m.id => l = m
    BY <1>4, <1>6, <2>1, RevokedLinks
  <2>5. \A l, m \in C!Live' : l = m
    BY <2>1 DEF C!Live
  <2>6. serial => \A i \in 1 .. MaxRequests :
          /\ confirmed[i] \in {0, 1}
          /\ confirmed[i] # 0 => i <= n + 1 /\ \A l \in links' : l.id = i => l.used
    <3>1. ASSUME serial, NEW i \in 1 .. MaxRequests
          PROVE  confirmed[i] \in {0, 1} /\ (confirmed[i] # 0 => i <= n)
      BY <1>3, <1>4, <3>1 DEF ResetsHold
    <3>2. \A i \in 1 .. MaxRequests : i <= n => i <= n + 1 /\ i # n + 1
      BY <1>4
    <3> QED
      BY <1>6, <2>1, <3>1, <3>2
  <2> QED
    BY <1>4, <1>7, <1>9, <2>2, <2>3, <2>4, <2>5, <2>6 DEF ResetsHold
<1>11. Onward
  BY <1>3, <1>4, <1>7, <1>9, CredentialNumbers DEF Onward
<1>12. UserHolds'
  BY <1>7, <1>11, UserKept
<1>13. FailuresHold'
  BY <1>7, FailuresKept
<1>14. PICK q : q = C!Idle
  OBVIOUS
<1>15. TryHolds(q)' /\ Current(q)' /\ q.op = "none"
  BY <1>14, IdleHolds
<1>16. now' + Weight(q.op, Readers) <= now + Weight(op, Readers)
  BY <1>2, <1>4, <1>7, <1>15 DEF Weight, Readers
<1>17. ip.count' + Weight(q.op, {"fail", "ip_failure"}) <= ip.count + Weight(op, {"fail", "ip_failure"})
  BY <1>2, <1>4, <1>7, <1>15 DEF Weight
<1>18. Cardinality(links)' + Weight(q.op, {"link"}) <= Cardinality(links) + Weight(op, {"link"})
  BY <1>2, <1>3, <1>4, <1>9, <1>15 DEF Weight
<1>19. /\ op # "none" /\ requests' = requests /\ ip.count' \in Nat
       /\ attempts' = [attempts EXCEPT ![w] = q]
  BY <1>2, <1>4, <1>7, <1>14 DEF C!CommitLink, C!Ends, C!Becomes
<1> QED
  BY <1>1, <1>10, <1>11, <1>12, <1>13, <1>15, <1>16, <1>17, <1>18, <1>19, RequestGoesOn

\* What only the tables and counters say, between requests.
LEMMA BetweenRequests ==
  ASSUME CredentialsHold, Onward, UNCHANGED <<attempts, requests, now>>,
         ip.count' \in Nat, ip.count' <= ip.count,
         Cardinality(links)' = Cardinality(links), UNCHANGED <<sessions, failed, confirmed>>,
         user'.count = user.count, user'.password = user.password, user'.locked \in {user.locked, 0},
         UserHolds', FailuresHold', ResetsHold'
  PROVE  CredentialsHold'
<1>1. \A r : Current(r) => Current(r)'
  BY DEF Current
<1>2. TriesHold'
  BY <1>1, TriesKept
<1>3. BudgetsHold'
  BY BudgetsKept
<1> QED
  BY <1>2, <1>3 DEF CredentialsHold

\* A reset link expires.
LEMMA Expired ==
  ASSUME CredentialsHold, NEW l \in links, C!LinkExpires(l)
  PROVE  CredentialsHold'
<1>1. /\ UNCHANGED <<serial, now, user, set_so_far, sessions, ip, attempts, requests, failed, confirmed>>
      /\ links' = (links \ {l}) \union {[l EXCEPT !.expired = TRUE]}
  BY DEF C!LinkExpires
<1>2. ResetsHold
  BY DEF CredentialsHold
<1>3. links \subseteq ResetRows
  BY <1>2 DEF ResetsHold
<1>4. PICK m : m = [l EXCEPT !.expired = TRUE]
  OBVIOUS
<1>5. m \in ResetRows /\ m.id = l.id /\ m.used = l.used /\ m.expired
  BY <1>3, <1>4, LinkChanges
<1>6. m \notin links \ {l}
  BY <1>2, <1>5 DEF ResetsHold
<1>7. IsFiniteSet(links') /\ Cardinality(links') = Cardinality(links)
  <2> DEFINE rest == links \ {l}
  <2>1. IsFiniteSet(links) /\ Cardinality(links) \in Nat
    BY <1>2, CredentialNumbers DEF ResetsHold
  <2>2. IsFiniteSet(rest) /\ Cardinality(rest) = Cardinality(links) - 1
    BY <2>1, FS_RemoveElement
  <2>3. m \notin rest /\ links' = rest \union {m}
    BY <1>1, <1>4, <1>6
  <2> HIDE DEF rest
  <2>4. IsFiniteSet(rest \union {m}) /\ Cardinality(rest \union {m}) = Cardinality(rest) + 1
    BY <2>2, <2>3, FS_AddElement
  <2> QED
    BY <2>1, <2>2, <2>3, <2>4
<1>8. ResetsHold'
  <2>1. \A k \in links' : k = m \/ k \in links \ {l}
    BY <1>1, <1>4
  <2>2. links' \subseteq ResetRows
    BY <1>3, <1>5, <2>1
  <2>3. \A k \in links' : k.id \in 1 .. Cardinality(links)
    BY <1>2, <1>5, <2>1 DEF ResetsHold
  <2>4. \A j, k \in links' : j.id = k.id => j = k
    BY <1>2, <1>5, <2>1 DEF ResetsHold
  <2>5. \A j, k \in C!Live' : j = k
    <3>1. \A k \in C!Live' : k \in C!Live
      BY <1>5, <2>1 DEF C!Live
    <3> QED
      BY <1>2, <3>1 DEF ResetsHold
  <2>6. serial => \A i \in 1 .. MaxRequests :
          /\ confirmed[i] \in {0, 1}
          /\ confirmed[i] # 0 => i <= Cardinality(links) /\ \A k \in links' : k.id = i => k.used
    BY <1>2, <1>5, <2>1 DEF ResetsHold
  <2> QED
    BY <1>1, <1>2, <1>7, <2>2, <2>3, <2>4, <2>5, <2>6 DEF ResetsHold
<1>9. Onward
  BY <1>1, <1>7, CredentialNumbers DEF Onward
<1>10. UserHolds'
  BY <1>1, <1>9, UserKept
<1>11. FailuresHold'
  BY <1>1, FailuresKept
<1>12. ip.count' \in Nat /\ ip.count' <= ip.count
  BY <1>1, CredentialNumbers
<1> QED
  BY <1>1, <1>7, <1>8, <1>9, <1>10, <1>11, <1>12, BetweenRequests

\* A password is set.
LEMMA PasswordCommitted ==
  ASSUME CredentialsHold, NEW w \in Workers, C!CommitPassword(w)
  PROVE  CredentialsHold'
<1>0. PICK r : r = attempts[w]
  OBVIOUS
<1>1. PICK op : op = r.op
  OBVIOUS
<1>2. op \in Setters /\ op # "none"
  BY <1>0, <1>1 DEF C!CommitPassword, Setters
<1>3. r \in Tries /\ TryHolds(r) /\ (serial => Current(r))
  BY <1>0, <1>1, <1>2, GoesOnAlone
<1>4. /\ r.at \in 1 .. now /\ (serial => \A s \in sessions : s.issued_at < r.at)
      /\ op = "confirm" => r.link \in 1 .. Cardinality(links) /\ (serial => confirmed[r.link] = 0)
  BY <1>1, <1>2, <1>3 DEF TryHolds, Current
<1>5. /\ UNCHANGED <<serial, now, sessions, ip, requests>> /\ set_so_far' = set_so_far + 1
      /\ user' = [C!RowToWrite(w) EXCEPT !.password = set_so_far + 1, !.changed = r.at]
      /\ failed' = IF op = "temporary" THEN [failed EXCEPT !.user = 0] ELSE failed
      /\ links' = IF op = "admin" THEN links ELSE C!Revoked
      /\ confirmed' = IF op = "confirm" THEN [confirmed EXCEPT ![r.link] = @ + 1] ELSE confirmed
  BY <1>0, <1>1 DEF C!CommitPassword, C!WritePassword
<1>6. /\ now \in Nat /\ set_so_far \in Nat /\ Cardinality(links) \in Nat /\ ip.count \in Nat
      /\ requests \in Nat /\ MaxRequests \in Nat
  BY CredentialNumbers
<1>7. UserHolds /\ FailuresHold /\ ResetsHold /\ user \in UserRows
  BY DEF CredentialsHold, UserHolds
<1>8. PICK row :
        /\ row = user \/ row.count \in {user.count, 0}
        /\ IF op = "temporary" THEN serial => row.count = 0 /\ row.locked = 0 ELSE row = user
        /\ user' \in UserRows /\ user'.password = set_so_far + 1 /\ user'.changed = r.at
        /\ user'.count = row.count /\ user'.locked = row.locked
  <2>0. PICK u : u = C!RowToWrite(w)
    OBVIOUS
  <2>1. PICK password, changed : password = set_so_far + 1 /\ changed = r.at
    OBVIOUS
  <2>5. /\ u \in UserRows /\ (u = user \/ u.count \in {user.count, 0})
        /\ IF op = "temporary" THEN serial => u.count = 0 /\ u.locked = 0 ELSE u = user
    <3>1. CASE op = "temporary"
      <4>1. PICK seen : seen = r.seen
        OBVIOUS
      <4>2. u = C!Cleared(seen)
        BY <1>0, <1>1, <2>0, <3>1, <4>1 DEF C!RowToWrite, C!Does
      <4>3. /\ u \in UserRows
            /\ u.count = IF seen.count = 0 THEN user.count ELSE 0
            /\ u.locked = IF seen.locked = 0 THEN user.locked ELSE 0
        BY <4>2, ClearedCounts
      <4>4. serial => seen.count = user.count /\ (user.locked # 0 => seen.locked # 0)
        BY <1>1, <1>3, <3>1, <4>1 DEF Current
      <4> QED
        BY <3>1, <4>3, <4>4
    <3>2. CASE op # "temporary"
      BY <1>0, <1>1, <1>7, <2>0, <3>2 DEF C!RowToWrite, C!Does
    <3> QED
      BY <3>1, <3>2
  <2>2. [u EXCEPT !.password = password, !.changed = changed]
          = UserRow(password, changed, u.count, u.locked, u.active)
    BY <2>5, PasswordSet
  <2>3. user' = UserRow(password, changed, u.count, u.locked, u.active)
    BY <1>5, <2>0, <2>1, <2>2
  <2>4. password \in Nat /\ changed \in Nat
    BY <1>4, <1>6, <2>1
  <2>6. /\ user' \in UserRows /\ user'.password = password /\ user'.changed = changed
        /\ user'.count = u.count /\ user'.locked = u.locked
    BY <2>3, <2>4, <2>5, UserFields, UserTyped
  <2> QED
    BY <2>1, <2>5, <2>6
<1>9. UserHolds'
  <2>1. user'.password \in 1 .. set_so_far' /\ user'.changed <= now' /\ user'.count <= requests'
    BY <1>4, <1>5, <1>6, <1>7, <1>8 DEF UserHolds
  <2>2. \A s \in sessions' : s.issued_at \in 1 .. now' /\ s.password \in 1 .. set_so_far'
    BY <1>5, <1>6, <1>7 DEF UserHolds
  <2>3. C!SessionsEnd'
    <3>1. ASSUME serial, NEW s \in sessions PROVE ~(s.issued_at >= r.at)
      BY <1>4, <1>6, <1>7, <3>1 DEF UserHolds
    <3> QED
      BY <1>5, <1>8, <3>1 DEF C!SessionsEnd, C!is_session_current
  <2> QED
    BY <1>5, <1>6, <1>8, <2>1, <2>2, <2>3 DEF UserHolds
<1>10. FailuresHold'
  <2>1. CASE op = "temporary"
    <3>1. failed' \in [user : Nat, ip : Nat] /\ failed'.user = 0 /\ failed'.ip = failed.ip
      BY <1>5, <1>7, <2>1 DEF FailuresHold
    <3> QED
      BY <1>5, <1>7, <1>8, <2>1, <3>1 DEF FailuresHold, C!FailuresCounted
  <2>2. CASE op # "temporary"
    BY <1>5, <1>8, <2>2, FailuresKept
  <2> QED
    BY <2>1, <2>2
<1>11. /\ IsFiniteSet(links') /\ Cardinality(links') = Cardinality(links) /\ links' \subseteq ResetRows
       /\ \A l \in links' : l.id \in 1 .. Cardinality(links)
       /\ \A l, m \in links' : l.id = m.id => l = m
       /\ \A l, m \in C!Live' : l = m
  <2>1. CASE op = "admin"
    <3>1. links' = links
      BY <1>5, <2>1
    <3>2. C!Live' = C!Live
      BY <3>1 DEF C!Live
    <3> QED
      BY <1>7, <3>1, <3>2 DEF ResetsHold
  <2>2. CASE op # "admin"
    <3>1. links' = C!Revoked
      BY <1>5, <2>2
    <3>2. C!Live' = {}
      BY <1>7, <3>1, RevokedLinks DEF C!Live
    <3> QED
      BY <1>7, <3>1, <3>2, RevokedLinks
  <2> QED
    BY <2>1, <2>2
<1>12. ResetsHold'
  <2>1. confirmed' = [i \in 1 .. MaxRequests |-> confirmed'[i]]
    BY <1>5, <1>7 DEF ResetsHold
  <2>2. ASSUME serial, NEW i \in 1 .. MaxRequests
        PROVE  /\ confirmed'[i] \in {0, 1}
               /\ confirmed'[i] # 0 => i <= Cardinality(links) /\ \A l \in links' : l.id = i => l.used
    <3>1. /\ confirmed[i] \in {0, 1}
          /\ confirmed[i] # 0 => i <= Cardinality(links) /\ \A l \in links : l.id = i => l.used
      BY <1>7, <2>2 DEF ResetsHold
    <3>2. CASE op = "confirm"
      <4>1. links' = C!Revoked
        BY <1>5, <3>2
      <4>2. \A l \in links' : l.used
        BY <1>7, <4>1, RevokedLinks
      <4>3. CASE i = r.link
        <5>1. confirmed'[i] = confirmed[i] + 1 /\ confirmed[i] = 0 /\ i <= Cardinality(links)
          BY <1>4, <1>5, <1>6, <1>7, <2>2, <3>2, <4>3 DEF ResetsHold
        <5> QED
          BY <4>2, <5>1
      <4>4. CASE i # r.link
        <5>1. confirmed'[i] = confirmed[i]
          BY <1>5, <1>7, <3>2, <4>4 DEF ResetsHold
        <5> QED
          BY <3>1, <4>2, <5>1
      <4> QED
        BY <4>3, <4>4
    <3>3. CASE op # "confirm"
      <4>1. confirmed' = confirmed
        BY <1>5, <3>3
      <4>2. CASE op = "admin"
        BY <1>5, <3>1, <4>1, <4>2
      <4>3. CASE op # "admin"
        <5>1. \A l \in links' : l.used
          BY <1>5, <1>7, <4>3, RevokedLinks
        <5> QED
          BY <3>1, <4>1, <5>1
      <4> QED
        BY <4>2, <4>3
    <3> QED
      BY <3>2, <3>3
  <2> QED
    BY <1>5, <1>11, <2>1, <2>2 DEF ResetsHold
<1>13. Onward
  BY <1>5, <1>6, <1>11 DEF Onward
<1>14. PICK q : /\ attempts' = [attempts EXCEPT ![w] = q]
               /\ \/ op = "change" /\ q = [r EXCEPT !.op = "issue", !.password = set_so_far + 1]
                  \/ op = "confirm" /\ q = [r EXCEPT !.op = "unlock"]
                  \/ op \in {"temporary", "admin"} /\ q = C!Idle
  <2>1. CASE op = "change"
    BY <1>0, <1>1, <2>1 DEF C!CommitPassword, C!Becomes
  <2>2. CASE op \in {"temporary", "admin"}
    BY <1>0, <1>1, <2>2 DEF C!CommitPassword, C!Ends, C!Becomes
  <2>3. CASE op = "confirm"
    BY <1>0, <1>1, <2>3 DEF C!CommitPassword, C!Goes, C!Becomes
  <2> QED
    BY <1>2, <2>1, <2>2, <2>3 DEF Setters
<1>15. TryHolds(q)' /\ (serial => Current(q)') /\ Lighter(q.op, op)
  <2>0. r.seen \in UserRows /\ r.at \in Nat /\ r.password \in Nat /\ r.link \in Nat
    BY <1>3 DEF Tries
  <2>1. CASE op = "change" /\ q = [r EXCEPT !.op = "issue", !.password = set_so_far + 1]
    <3>1. PICK password : password = set_so_far + 1
      OBVIOUS
    <3>2. q = Try("issue", r.seen, r.at, password, r.link)
      BY <1>3, <2>1, <3>1, TryGoesOn
    <3>3. q \in Tries /\ q.op = "issue" /\ q.password = set_so_far + 1
      BY <1>6, <2>0, <3>1, <3>2, TryFields
    <3>4. TryHolds(q)'
      BY <1>5, <1>6, <3>3 DEF TryHolds, Setters
    <3>5. Current(q)'
      BY <1>8, <3>3 DEF Current, Setters
    <3> QED
      BY <2>1, <3>3, <3>4, <3>5 DEF Lighter, Readers
  <2>2. CASE op \in {"temporary", "admin"} /\ q = C!Idle
    BY <2>2, IdleHolds DEF Lighter, Readers
  <2>3. CASE op = "confirm" /\ q = [r EXCEPT !.op = "unlock"]
    <3>1. q = Try("unlock", r.seen, r.at, r.password, r.link)
      BY <1>3, <2>3, TryGoesOn
    <3>2. q \in Tries /\ q.op = "unlock"
      BY <2>0, <3>1, TryFields
    <3> QED
      BY <3>2 DEF TryHolds, Current, Setters, Lighter, Readers
  <2> QED
    BY <1>14, <2>1, <2>2, <2>3
<1>16. /\ UNCHANGED <<requests, now>> /\ Cardinality(links)' = Cardinality(links)
       /\ ip.count' \in Nat /\ ip.count' <= ip.count /\ op = attempts[w].op
  BY <1>0, <1>1, <1>5, <1>6, <1>11
<1> QED
  BY <1>2, <1>9, <1>10, <1>12, <1>13, <1>14, <1>15, <1>16, RequestPasses

\* The user is activated or deactivated.
LEMMA ActiveSet ==
  ASSUME CredentialsHold, C!SetActive
  PROVE  CredentialsHold'
<1>1. /\ UNCHANGED <<serial, now, set_so_far, sessions, links, ip, attempts, requests, failed, confirmed>>
      /\ user' = [user EXCEPT !.active = ~@]
  BY DEF C!SetActive
<1>2. user \in UserRows /\ user.count <= requests
  BY DEF CredentialsHold, UserHolds
<1>3. PICK isActive : isActive = ~user.active
  OBVIOUS
<1>4. isActive \in BOOLEAN
  BY <1>3
<1>5. PICK u : u = user
  OBVIOUS
<1>6. u = UserRow(u.password, u.changed, u.count, u.locked, u.active)
  BY <1>2, <1>5, UserTyped
<1>7. [u EXCEPT !.active = isActive] = UserRow(u.password, u.changed, u.count, u.locked, isActive)
  BY <1>6, SetsUserActive
<1>8. user' = UserRow(u.password, u.changed, u.count, u.locked, isActive)
  BY <1>1, <1>3, <1>5, <1>7
<1>9. /\ user' \in UserRows /\ user'.password = user.password /\ user'.changed = user.changed
      /\ user'.count = user.count /\ user'.locked = user.locked
  BY <1>2, <1>4, <1>5, <1>8, UserFields, UserTyped
<1>10. UserHolds'
  BY <1>1, <1>2, <1>9, UserCounts
<1>11. FailuresHold' /\ ResetsHold'
  BY <1>1, <1>9, FailuresKept, ResetsKept
<1>12. Onward /\ ip.count' \in Nat /\ ip.count' <= ip.count
  BY <1>1, CredentialNumbers DEF Onward
<1> QED
  BY <1>1, <1>9, <1>10, <1>11, <1>12, BetweenRequests

\* Locks run out.
LEMMA LocksEnded ==
  ASSUME CredentialsHold, C!LocksEnd
  PROVE  CredentialsHold'
<1>1. UNCHANGED <<serial, now, set_so_far, sessions, links, attempts, requests, failed, confirmed>>
  BY DEF C!LocksEnd
<1>2. user \in UserRows /\ user.count <= requests /\ FailuresHold
  BY DEF CredentialsHold, UserHolds
<1>3. Onward
  BY <1>1, CredentialNumbers DEF Onward
<1>4. 0 \in C!Minutes
  BY DEF C!Minutes, C!LOCKOUT_MAX_MINUTES
<1>5. ResetsHold'
  BY <1>1, ResetsKept
<1>6. CASE user' = [user EXCEPT !.locked = 0] /\ UNCHANGED ip
  <2>1. PICK u : u = user
    OBVIOUS
  <2>2. u = UserRow(u.password, u.changed, u.count, u.locked, u.active)
    BY <1>2, <2>1, UserTyped
  <2>3. [u EXCEPT !.locked = 0] = UserRow(u.password, u.changed, u.count, 0, u.active)
    BY <2>2, SetsUserLocked
  <2>4. user' = UserRow(u.password, u.changed, u.count, 0, u.active)
    BY <1>6, <2>1, <2>3
  <2>5. /\ user' \in UserRows /\ user'.password = user.password /\ user'.changed = user.changed
        /\ user'.count = user.count /\ user'.locked = 0
    BY <1>2, <1>4, <2>1, <2>4, UserFields, UserTyped
  <2>6. UserHolds'
    BY <1>1, <1>2, <2>5, UserCounts
  <2>7. FailuresHold'
    BY <1>1, <1>6, <2>5, FailuresKept
  <2>8. ip.count' \in Nat /\ ip.count' <= ip.count
    BY <1>6, CredentialNumbers
  <2> QED
    BY <1>1, <1>3, <1>5, <2>5, <2>6, <2>7, <2>8, BetweenRequests
<1>7. CASE ip' = [ip EXCEPT !.locked = 0] /\ UNCHANGED user
  <2>1. ip' \in [count : Nat, locked : C!Minutes] /\ ip'.count = ip.count /\ ip'.locked = 0
    BY <1>2, <1>4, <1>7 DEF FailuresHold
  <2>2. FailuresHold'
    BY <1>1, <1>2, <1>7, <2>1 DEF FailuresHold, C!FailuresCounted
  <2>3. UserHolds'
    BY <1>1, <1>3, <1>7, UserKept
  <2>4. /\ user'.count = user.count /\ user'.password = user.password /\ user'.locked = user.locked
        /\ ip.count' \in Nat /\ ip.count' <= ip.count
    BY <1>7, <2>1, CredentialNumbers
  <2> QED
    BY <1>1, <1>3, <1>5, <2>1, <2>2, <2>3, <2>4, BetweenRequests
<1> QED
  BY <1>6, <1>7 DEF C!LocksEnd

\* The throttle store forgets the failures of the address.
LEMMA AddressForgotten ==
  ASSUME CredentialsHold, NEW locked, C!IpForgotten(locked)
  PROVE  CredentialsHold'
<1>1. /\ UNCHANGED <<serial, now, user, set_so_far, sessions, links, attempts, requests, failed, confirmed>>
      /\ locked \in {0, ip.locked} /\ ip' = [count |-> 0, locked |-> locked]
  BY DEF C!IpForgotten
<1>2. FailuresHold /\ ip.count \in Nat
  BY CredentialNumbers DEF CredentialsHold
<1>3. /\ ip' \in [count : Nat, locked : C!Minutes] /\ ip'.count = 0
      /\ ip'.locked # 0 => ip'.locked = ip.locked
  BY <1>1, <1>2 DEF FailuresHold, C!Minutes, C!LOCKOUT_MAX_MINUTES
<1>4. FailuresHold'
  BY <1>1, <1>2, <1>3 DEF FailuresHold, C!FailuresCounted
<1>5. Onward
  BY <1>1, CredentialNumbers DEF Onward
<1>6. UserHolds' /\ ResetsHold'
  BY <1>1, <1>5, UserKept, ResetsKept
<1>7. /\ ip.count' \in Nat /\ ip.count' <= ip.count /\ Cardinality(links)' = Cardinality(links)
      /\ user'.count = user.count /\ user'.password = user.password /\ user'.locked = user.locked
  BY <1>1, <1>2, <1>3
<1> QED
  BY <1>1, <1>4, <1>5, <1>6, <1>7, BetweenRequests

LEMMA CredentialsNext == CredentialsHold /\ [C!Next]_credentialVars /\ Counted => CredentialsHold'
<1> SUFFICES ASSUME CredentialsHold, [C!Next]_credentialVars, Counted PROVE CredentialsHold'
  OBVIOUS
<1>1. CASE UNCHANGED credentialVars
  <2>1. /\ UNCHANGED <<now, user, set_so_far, sessions, links, ip, attempts, failed, confirmed>>
        /\ serial' = serial
    BY <1>1 DEF credentialVars, Counted
  <2>2. requests' \in 0 .. MaxRequests /\ requests <= requests'
    BY DEF Counted, CredentialsHold, BudgetsHold
  <2>3. Onward
    BY <2>1, <2>2, CredentialNumbers DEF Onward
  <2>4. \A r : Current(r) => Current(r)'
    BY <2>1 DEF Current
  <2>5. TriesHold'
    BY <2>1, <2>3, <2>4, TriesKept
  <2>6. BudgetsHold'
    <3>1. \A ops : Doing(ops)' = Doing(ops)
      BY <2>1 DEF Doing
    <3>2. BudgetsHold
      BY DEF CredentialsHold
    <3>3. Cardinality(Doing(Readers)) \in Nat /\ Cardinality(Doing({"fail", "ip_failure"})) \in Nat
          /\ Cardinality(Doing({"link"})) \in Nat
      BY <3>2, FS_CardinalityType DEF BudgetsHold, BudgetHolds
    <3> QED
      BY <2>1, <2>2, <3>1, <3>2, <3>3, CredentialNumbers DEF BudgetsHold, BudgetHolds
  <2>7. UserHolds' /\ FailuresHold' /\ ResetsHold'
    BY <2>1, <2>3, UserKept, FailuresKept, ResetsKept
  <2> QED
    BY <2>5, <2>6, <2>7 DEF CredentialsHold
<1>2. ASSUME NEW w \in Workers, NEW asked \in BOOLEAN, C!LoginUnknown(w, asked) PROVE CredentialsHold'
  <2>1. PICK r : r = [C!Idle EXCEPT !.op = "ip_failure"]
    OBVIOUS
  <2>2. attempts' = [attempts EXCEPT ![w] = r]
    BY <1>2, <2>1 DEF C!LoginUnknown, C!Becomes
  <2> QED
    BY <1>2, <2>1, <2>2, PlainBegins DEF C!LoginUnknown
<1>3. ASSUME NEW w \in Workers, C!RequestReset(w) PROVE CredentialsHold'
  <2>1. PICK r : r = [C!Idle EXCEPT !.op = "link"]
    OBVIOUS
  <2>2. attempts' = [attempts EXCEPT ![w] = r]
    BY <1>3, <2>1 DEF C!RequestReset, C!Becomes
  <2> QED
    BY <1>3, <2>1, <2>2, PlainBegins DEF C!RequestReset
<1>4. ASSUME NEW w \in Workers, C!ChangeMyPassword(w) \/ C!AdminResetsPassword(w) \/ C!AdminSetsPassword(w)
      PROVE  CredentialsHold'
  <2>1. PICK op \in Setters \ {"confirm"} : C!BeginSet(w, op, 0)
    BY <1>4 DEF C!ChangeMyPassword, C!AdminResetsPassword, C!AdminSetsPassword, Setters
  <2> QED
    BY <2>1, SetBegins
<1>5. ASSUME NEW w \in Workers, NEW l \in links, C!ConfirmReset(w, l) PROVE CredentialsHold'
  <2>1. ResetsHold
    BY DEF CredentialsHold
  <2>2. C!BeginSet(w, "confirm", l.id) /\ ~l.used
    BY <1>5 DEF C!ConfirmReset
  <2>3. l.id \in 1 .. Cardinality(links) /\ Cardinality(links) <= MaxRequests
    <3>1. Cardinality(Doing({"link"})) \in Nat /\ Cardinality(links) + Cardinality(Doing({"link"})) <= requests
          /\ requests \in 0 .. MaxRequests
      BY FS_CardinalityType DEF CredentialsHold, BudgetsHold, BudgetHolds
    <3> QED
      BY <2>1, <3>1, CredentialNumbers DEF ResetsHold
  <2>4. l.id \in Nat /\ l.id \in 1 .. MaxRequests
    BY <2>3, CredentialNumbers
  <2>5. serial => confirmed[l.id] = 0
    BY <2>1, <2>2, <2>4 DEF ResetsHold
  <2>6. "confirm" \in Setters
    BY DEF Setters
  <2> QED
    BY <2>2, <2>3, <2>4, <2>5, <2>6, SetBegins
<1>6. CASE C!Next
  BY <1>2, <1>3, <1>4, <1>5, <1>6, LoginBegins, FailureRegistered, AddressFailed, LockedOut, LockoutCleared,
     AddressCleared, TokenIssued, PasswordCommitted, Unlocked, LinkCommitted, ActiveSet, LocksEnded,
     AddressForgotten, Expired
     DEF C!Next
<1> QED
  BY <1>1, <1>6

\* The invariant holds at the start.
LEMMA CredentialsInit == C!Init => CredentialsHold
<1> SUFFICES ASSUME C!Init PROVE CredentialsHold
  OBVIOUS
<1>1. /\ serial \in BOOLEAN /\ now = 0 /\ set_so_far = 1 /\ sessions = {} /\ links = {} /\ requests = 0
      /\ user = UserRow(1, 0, 0, 0, TRUE) /\ ip = [count |-> 0, locked |-> 0]
      /\ attempts = [w \in Workers |-> C!Idle] /\ failed = [user |-> 0, ip |-> 0]
      /\ confirmed = [i \in 1 .. MaxRequests |-> 0]
  BY DEF C!Init, UserRow
<1>2. 0 \in C!Minutes
  BY DEF C!Minutes, C!LOCKOUT_MAX_MINUTES
<1>3. user \in UserRows /\ user.password = 1 /\ user.changed = 0 /\ user.count = 0
  <2>1. TRUE \in BOOLEAN /\ 0 \in Nat /\ 1 \in Nat
    OBVIOUS
  <2>2. UserRow(1, 0, 0, 0, TRUE) \in UserRows
    BY <1>2, <2>1, UserFields
  <2>3. /\ UserRow(1, 0, 0, 0, TRUE).password = 1 /\ UserRow(1, 0, 0, 0, TRUE).changed = 0
        /\ UserRow(1, 0, 0, 0, TRUE).count = 0
    BY DEF UserRow
  <2> QED
    BY <1>1, <2>2, <2>3
<1>4. IsFiniteSet(links) /\ Cardinality(links) = 0
  BY <1>1, FS_EmptySet
<1>5. TriesHold
  <2>1. \A w \in Workers : attempts[w] = C!Idle
    BY <1>1
  <2>2. \A w \in Workers : \A r \in {attempts[w]} : TryHolds(r) /\ (serial => Current(r))
    BY <2>1, IdleHolds
  <2> QED
    BY <1>1, <2>1, <2>2 DEF TriesHold
<1>6. BudgetsHold
  <2>1. ASSUME NEW ops, "none" \notin ops PROVE IsFiniteSet(Doing(ops)) /\ Cardinality(Doing(ops)) = 0
    <3>1. \A w \in Workers : attempts[w].op = "none"
      BY <1>1, IdleHolds
    <3>2. Doing(ops) = {}
      BY <2>1, <3>1 DEF Doing
    <3> QED
      BY <3>2, FS_EmptySet
  <2>2. "none" \notin Readers /\ "none" \notin {"fail", "ip_failure"} /\ "none" \notin {"link"}
    BY DEF Readers
  <2>3. ip.count = 0
    BY <1>1
  <2> QED
    BY <1>1, <1>4, <2>1, <2>2, <2>3, BoundsAssumption DEF BudgetsHold, BudgetHolds
<1>7. UserHolds
  <2>1. user.password \in 1 .. set_so_far /\ user.changed <= now /\ user.count <= requests
    <3>1. set_so_far = 1 /\ now = 0 /\ requests = 0
      BY <1>1
    <3>2. user.password = 1 /\ user.changed = 0 /\ user.count = 0
      BY <1>3
    <3> QED
      BY <3>1, <3>2
  <2>2. now \in Nat /\ set_so_far \in Nat /\ \A s \in sessions : FALSE
    BY <1>1
  <2>3. C!SessionsEnd
    BY <2>2 DEF C!SessionsEnd
  <2>4. user \in UserRows
    BY <1>3
  <2> QED
    BY <2>1, <2>2, <2>3, <2>4 DEF UserHolds
<1>8. FailuresHold
  <2>1. user.locked = 0
    BY <1>1 DEF UserRow
  <2>2. ip \in [count : Nat, locked : C!Minutes] /\ ip.count = 0 /\ ip.locked = 0
    BY <1>1, <1>2
  <2>3. failed \in [user : Nat, ip : Nat] /\ failed.user = 0 /\ failed.ip = 0
    BY <1>1
  <2> QED
    BY <1>3, <2>1, <2>2, <2>3 DEF FailuresHold, C!FailuresCounted
<1>9. ResetsHold
  BY <1>1, <1>4 DEF ResetsHold, C!Live
<1> QED
  BY <1>5, <1>6, <1>7, <1>8, <1>9 DEF CredentialsHold

\* It is what CredentialsAgree needs.
LEMMA CredentialsHoldAgree == CredentialsHold => C!CredentialsAgree
<1> SUFFICES ASSUME CredentialsHold PROVE C!CredentialsAgree
  OBVIOUS
<1>0. UserHolds /\ FailuresHold /\ ResetsHold /\ BudgetsHold
  BY DEF CredentialsHold
<1>1. /\ requests \in Nat /\ now \in Nat /\ set_so_far \in Nat /\ Cardinality(links) \in Nat
      /\ ip.count \in Nat /\ user.count \in Nat /\ user.password \in Nat /\ user.changed \in Nat
      /\ MaxRequests \in Nat
  BY CredentialNumbers
<1>2. ASSUME NEW spent \in Nat, NEW ops, NEW most \in Nat,
             IsFiniteSet(Doing(ops)) /\ spent + Cardinality(Doing(ops)) <= most
      PROVE  spent <= most
  <2>1. Cardinality(Doing(ops)) \in Nat
    BY <1>2, FS_CardinalityType
  <2> QED
    BY <1>2, <2>1
<1>3. now <= 2 * requests /\ ip.count <= requests /\ Cardinality(links) <= requests /\ requests <= MaxRequests
  <2>1. now <= 2 * requests
    <3>1. PICK most : most = 2 * requests
      OBVIOUS
    <3>2. most \in Nat
      BY <1>1, <3>1
    <3>3. IsFiniteSet(Doing(Readers)) /\ now + Cardinality(Doing(Readers)) <= most
      BY <1>0, <3>1 DEF BudgetsHold, BudgetHolds
    <3>4. now <= most
      BY <1>1, <1>2, <3>2, <3>3
    <3> QED
      BY <3>1, <3>4
  <2>2. ip.count <= requests
    BY <1>0, <1>1, <1>2 DEF BudgetsHold, BudgetHolds
  <2>3. Cardinality(links) <= requests
    BY <1>0, <1>1, <1>2 DEF BudgetsHold, BudgetHolds
  <2> QED
    BY <1>0, <1>1, <2>1, <2>2, <2>3 DEF BudgetsHold
<1>4. C!TypeOK
  <2>1. now \in 0 .. C!MaxTime
    BY <1>1, <1>3 DEF C!MaxTime
  <2>2. /\ user.password \in 1 .. set_so_far /\ user.changed \in 0 .. now
        /\ user.count \in 0 .. MaxRequests
    BY <1>0, <1>1, <1>3 DEF UserHolds
  <2>3. user.locked \in C!Minutes /\ user.active \in BOOLEAN
    BY <1>0, UserTyped DEF UserHolds
  <2>4. \A s \in sessions : s.issued_at \in 1 .. now /\ s.password \in 1 .. set_so_far
    BY <1>0 DEF UserHolds
  <2>5. \A l \in links : l.id \in 1 .. MaxRequests
    BY <1>0, <1>1, <1>3 DEF ResetsHold
  <2>6. \A l \in links : l.used \in BOOLEAN /\ l.expired \in BOOLEAN
    BY <1>0 DEF ResetsHold, ResetRows
  <2>7. ip.count \in 0 .. MaxRequests /\ ip.locked \in C!Minutes
    BY <1>0, <1>1, <1>3 DEF FailuresHold
  <2> QED
    BY <2>1, <2>2, <2>3, <2>4, <2>5, <2>6, <2>7 DEF C!TypeOK
<1>5. C!LinksSetOnce
  <2>1. Cardinality(C!Live) <= 1
    <3>1. CASE C!Live = {}
      BY <3>1, FS_EmptySet
    <3>2. CASE C!Live # {}
      <4>1. PICK l : C!Live = {l}
        <5>1. PICK l : l \in C!Live
          BY <3>2
        <5>2. \A m \in C!Live : m = l
          BY <1>0, <5>1 DEF ResetsHold
        <5> QED
          BY <5>1, <5>2
      <4> QED
        BY <4>1, FS_Singleton
    <3> QED
      BY <3>1, <3>2
  <2>2. DOMAIN confirmed = 1 .. MaxRequests
    BY <1>0 DEF ResetsHold
  <2>3. serial => \A i \in DOMAIN confirmed : confirmed[i] <= 1
    BY <1>0, <2>2 DEF ResetsHold
  <2> QED
    BY <2>1, <2>3, SameCount DEF C!LinksSetOnce
<1> QED
  BY <1>0, <1>4, <1>5 DEF UserHolds, FailuresHold, C!CredentialsAgree

\* Whatever the requests, for any number of them and any threshold of the lock: served one
\* at a time, a session ends with the password it was opened with, a link sets one password
\* at most, the failed logins of a user are counted one by one, and no user and no address is
\* locked without as many failures, whatever the throttle store misses, keeps or forgets.
THEOREM OldPasswordsOpenNothing == Spec => []CredentialsAgree
<1>1. Init => CredentialsHold
  BY CredentialsInit DEF Init
<1>2. CredentialsHold /\ [Next]_allVars => CredentialsHold'
  BY OneMachine, CredentialsNext
<1>3. CredentialsHold => CredentialsAgree
  BY CredentialsHoldAgree DEF CredentialsAgree
<1> QED
  BY <1>1, <1>2, <1>3, PTL DEF Spec, allVars
=============================================================================
