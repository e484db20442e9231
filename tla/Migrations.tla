------------------------------ MODULE Migrations ------------------------------
(* A database that goes up and down the revisions while the application       *)
(* writes rows in between.  A run of alembic is one transaction (env.py), so   *)
(* one that fails or dies leaves the database as it found it: a step here is a *)
(* run of one revision, and a longer run is several.                           *)
EXTENDS AlembicVersions

Revisions == {History[i] : i \in DOMAIN History}

VARIABLES
  db,       \* the database
  applied,  \* the revisions it has gone up
  failed    \* the run that failed last: the revision and what the rows were like

vars == <<db, applied, failed>>

Init == db = Empty /\ applied = {} /\ failed = <<>>

Ran(r, up, troubles) ==
  LET run == Run(db, IF up THEN r.up ELSE r.down, troubles)
  IN IF run.ok
       THEN /\ db' = run.db
            /\ applied' = IF up THEN applied \cup {r.id} ELSE applied \ {r.id}
            /\ failed' = <<>>
       ELSE failed' = <<r.id, up, troubles>> /\ UNCHANGED <<db, applied>>

Pending(r) == r.id \notin applied /\ r.parents \subseteq applied
Topmost(r) == r.id \in applied /\ \A s \in Revisions : s.id \in applied => r.id \notin s.parents

Upgrade(r) ==
  /\ Pending(r)
  /\ \E troubles \in SUBSET Troubles : Ran(r, TRUE, troubles)

Downgrade(r) ==
  /\ Topmost(r)
  /\ \E troubles \in SUBSET Troubles : Ran(r, FALSE, troubles)

\* The release of these revisions has written every kind of row it can: some
\* with NULL where that is allowed, some alike where no key forbids it yet.
Use ==
  /\ db' = [db EXCEPT !.rows = {<<t, {}>> : t \in Tables(db)}, !.nulls = db.optional,
              !.doubles = {k \in CreateAll.keys \ db.keys : k[2] \subseteq Columns(db, k[1])}]
  /\ failed' = <<>> /\ UNCHANGED applied

Next == Use \/ \E r \in Revisions : Upgrade(r) \/ Downgrade(r)

Spec == Init /\ [][Next]_vars

-----------------------------------------------------------------------------
TypeOK ==
  /\ DOMAIN db = DOMAIN Empty
  /\ applied \subseteq {r.id : r \in Revisions}

\* A downgrade undoes its upgrade: whatever rows there are, up and down again
\* gives the schema there was, every column, key and index.
DowngradeUndoes ==
  \A r \in Revisions : Pending(r) =>
    LET up == Run(db, r.up, {})
        down == Run(up.db, r.down, {})
    IN up.ok => down.ok /\ SchemaOf(down.db) = SchemaOf(db)

\* A run fails only on rows it has no way with: an upgrade that makes names
\* unique on a name that is taken, and the one that copies ticket addresses on
\* one that is too long.  A downgrade never fails.
MayFail(o, troubles) ==
  \/ o.do = "rename doubles" /\ "name taken" \in troubles
  \/ o.do = "copy" /\ "long address" \in troubles
FailsOnTroubleOnly ==
  failed # <<>> =>
    \E r \in Revisions : \E i \in DOMAIN r.up :
      failed[1] = r.id /\ failed[2] /\ MayFail(r.up[i], failed[3])

\* What deleting a row sets to NULL may be NULL.
NullsAreAllowed ==
  \A r \in db.references : r[4] = "SET NULL" => <<r[1], r[2]>> \in db.optional

\* Once made, the settings have their row.
SettingsHaveRow == "app_settings" \in Tables(db) => HasRows(db, "app_settings")

\* From the revision that gives every timestamp its time zone on, those without
\* one are of the tables that two later revisions create.
LateNaive == {"version_attachments", "project_integrations", "integration_credentials",
  "bug_external_links"}
StampsHaveZone ==
  DatetimeUtcAware.id \in applied => \A f \in db.naive : f[1] \in LateNaive

\* The last revision is the schema that the models declare and the tests run
\* on, but for those timestamps and an index on the activity of a bug; and what
\* the session does to the rows below one it deletes, the database does too
\* (below a user, it does what no row allows: users are never deleted).
HeadIsModels ==
  LET schema == SchemaOf(db) IN
  applied = {r.id : r \in Revisions} =>
    /\ [schema EXCEPT !.naive = {}, !.indexes = {}] = [CreateAll EXCEPT !.indexes = {}]
    /\ schema.indexes = CreateAll.indexes \cup {<<"bug_activity", {"bug_id", "changed_at"}>>}
    /\ \A r \in Relationships : r[3] # "users" => r \in schema.references

SchemaHolds ==
  /\ TypeOK /\ DowngradeUndoes /\ FailsOnTroubleOnly /\ NullsAreAllowed
  /\ SettingsHaveRow /\ StampsHaveZone /\ HeadIsModels
=============================================================================
