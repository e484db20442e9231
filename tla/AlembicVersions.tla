--------------------------- MODULE AlembicVersions ---------------------------
(* What the operations of an alembic revision do to a PostgreSQL database;    *)
(* the revisions of alembic/versions, each with its parents and the           *)
(* operations of its upgrade and of its downgrade, in their order; and, at    *)
(* the end, the tables as the models declare them.                            *)
(*                                                                            *)
(* A database is a record of sets of facts, each <<table, columns, ...>>: its  *)
(* columns, the optional ones, the timestamps without a time zone, the foreign *)
(* keys, the unique keys and the indexes; and of its rows, the tables that     *)
(* have some, the columns that are NULL in some, and the sets of columns in    *)
(* which two of them agree.  The primary key "id" of a table is left out.      *)
EXTENDS Naturals, Sequences, TLC

LOCAL INSTANCE SequencesExt

Parts == {"columns", "optional", "naive", "references", "keys", "indexes"}
EachPart(Of(_)) ==
  [columns |-> Of("columns"), optional |-> Of("optional"), naive |-> Of("naive"),
   references |-> Of("references"), keys |-> Of("keys"), indexes |-> Of("indexes")]
Each(Of(_)) ==
  EachPart(Of) @@ [rows |-> Of("rows"), nulls |-> Of("nulls"), doubles |-> Of("doubles")]
Nothing == EachPart(LAMBDA k : {})
Empty == Each(LAMBDA k : {})

\* What rows of an old release may be like: the name of one, with its id behind
\* it, is the name of another; a ticket address is longer than 128 characters.
Troubles == {"name taken", "long address"}

Stamps == {"created_at", "updated_at", "added_at", "uploaded_at", "started_at",
  "finished_at", "executed_at", "last_used_at", "expires_at", "used_at", "deleted_at",
  "archived_at", "locked_until", "last_login_at", "released_at", "changed_at",
  "completed_at", "revoked_at", "last_viewed_at", "last_synced_at", "password_changed_at"}

Tables(db) == {f[1] : f \in db.columns}
Columns(db, t) == UNION {f[2] : f \in {g \in db.columns : g[1] = t}}
HasRows(db, t) == <<t, {}>> \in db.rows
One(t, columns) == {<<t, {c}>> : c \in columns}
All(t, sets) == {<<t, s>> : s \in sets}

Cascade(c, t) == <<c, t, "CASCADE">>
SetNull(c, t) == <<c, t, "SET NULL">>
Restricted(c, t) == <<c, t, "NO ACTION">>
References(t, references) == {<<t, {r[1]}, r[2], r[3]>> : r \in references}

-----------------------------------------------------------------------------
\* The operations: what is done, to which table, and the columns it needs.
Naive == "naive"
Utc == "utc"

Op(kind, t, uses) == [do |-> kind, table |-> t, uses |-> uses, facts |-> Nothing, to |-> t]
Add(t, uses, facts) == [Op("add", t, uses) EXCEPT !.facts = facts]
Drop(t, facts) == [Op("drop", t, {}) EXCEPT !.facts = facts]

CreateTable(t, required, optional, references, keys, indexes, zone) ==
  [Op("create", t, {}) EXCEPT !.facts =
    [columns |-> One(t, required \cup optional), optional |-> One(t, optional),
     naive |-> One(t, IF zone = Naive THEN (required \cup optional) \cap Stamps ELSE {}),
     references |-> References(t, references), keys |-> All(t, keys),
     indexes |-> All(t, indexes)]]
DropTable(t) == Op("drop table", t, {})
RenameTable(t, u) == [Op("rename table", t, {}) EXCEPT !.to = u]

AddColumns(t, columns, references) ==
  Add(t, {}, [Nothing EXCEPT !.columns = One(t, columns), !.optional = One(t, columns),
    !.references = References(t, references)])
AddStamps(t, columns, zone) ==
  Add(t, {}, [Nothing EXCEPT !.columns = One(t, columns), !.optional = One(t, columns),
    !.naive = IF zone = Naive THEN One(t, columns) ELSE {}])
\* A required column with a server default, which the rows there are take.
AddDefaulted(t, columns) == Add(t, {}, [Nothing EXCEPT !.columns = One(t, columns)])
DropColumns(t, columns) == Op("drop columns", t, columns)
RenameColumn(t, c, d) == [Op("rename column", t, {c}) EXCEPT !.to = d]
SetOptional(t, c) == Add(t, {c}, [Nothing EXCEPT !.optional = One(t, {c})])
SetRequired(t, c) == Drop(t, [Nothing EXCEPT !.optional = One(t, {c})])
ToNaive(t, columns) == Add(t, columns, [Nothing EXCEPT !.naive = One(t, columns)])
ToUtc(t, columns) == Drop(t, [Nothing EXCEPT !.naive = One(t, columns)])

Unique(t, columns) ==
  [Nothing EXCEPT !.keys = {<<t, columns>>}, !.indexes = {<<t, columns>>}]
AddReference(t, r) == Add(t, {r[1]}, [Nothing EXCEPT !.references = References(t, {r})])
DropReference(t, r) == Drop(t, [Nothing EXCEPT !.references = References(t, {r})])
AddKey(t, columns) == Add(t, columns, [Nothing EXCEPT !.keys = {<<t, columns>>}])
DropKey(t, columns) == Drop(t, [Nothing EXCEPT !.keys = {<<t, columns>>}])
CreateIndex(t, columns) == Add(t, columns, [Nothing EXCEPT !.indexes = {<<t, columns>>}])
DropIndex(t, columns) == Drop(t, [Nothing EXCEPT !.indexes = {<<t, columns>>}])
UniqueIndex(t, columns) == Add(t, columns, Unique(t, columns))
DropUniqueIndex(t, columns) == Drop(t, Unique(t, columns))

\* Statements on rows: one that leaves what is modelled as it is; one that gives
\* c a value where it is NULL, or deletes the rows where it is; one that puts
\* the id behind every name but the first; and rows made of those of table u.
Update(t, columns) == Op("update", t, columns)
Backfill(t, c) == Op("fill", t, {c})
DeleteNulls(t, c) == Op("fill", t, {c})
RenameDoubles(t, columns) == Op("rename doubles", t, columns)
Seed(t) == Op("seed", t, {})
InsertFrom(t, u, columns) == [Op("insert", u, columns) EXCEPT !.to = t]
CopyUrls(t, u, c) == [Op("copy", u, {c}) EXCEPT !.to = t]

-----------------------------------------------------------------------------
\* Whether PostgreSQL accepts an operation on this database.
Applies(db, o, troubles) ==
  /\ (o.table \in Tables(db)) = (o.do # "create")
  /\ o.uses \subseteq Columns(db, o.table)
  /\ o.do \in {"create", "add"} =>
       /\ \A k \in Parts : o.facts[k] \cap db[k] = {}
       /\ \A r \in o.facts.references : r[3] \in Tables(db) \cup {o.table}
       /\ o.facts.keys \cap db.doubles = {}
  /\ o.do = "drop" =>
       /\ \A k \in Parts : o.facts[k] \subseteq db[k]
       /\ o.facts.optional \cap db.nulls = {}
  /\ o.do = "drop table" => \A r \in db.references : r[3] = o.table => r[1] = o.table
  /\ o.do = "rename table" => o.to \notin Tables(db)
  /\ o.do = "rename column" => o.to \notin Columns(db, o.table)
  /\ o.do \in {"insert", "copy"} => o.to \in Tables(db)
  /\ o.do = "copy" => ~(HasRows(db, o.table) /\ "long address" \in troubles)

Keeping(db, Kept(_)) == Each(LAMBDA k : {f \in db[k] : Kept(f)})
Renaming(db, New(_)) == Each(LAMBDA k : {New(f) : f \in db[k]})
Fill(db, t) ==
  [db EXCEPT !.rows = @ \cup {<<t, {}>>}, !.nulls = @ \cup {f \in db.optional : f[1] = t}]

\* What is of a column or table goes with it, its keys and indexes included.
After(db, o, troubles) ==
  LET t == o.table
      Table(u) == IF u = t THEN o.to ELSE u
      Column(c) == IF c \in o.uses THEN o.to ELSE c
  IN CASE o.do \in {"create", "add"} ->
            Each(LAMBDA k : db[k] \cup
              (IF k \in Parts THEN o.facts[k]
               ELSE IF k = "nulls" /\ HasRows(db, t) THEN o.facts.optional \cap o.facts.columns
               ELSE {}))
       [] o.do = "drop" -> Each(LAMBDA k : IF k \in Parts THEN db[k] \ o.facts[k] ELSE db[k])
       [] o.do = "drop columns" -> Keeping(db, LAMBDA f : f[1] # t \/ f[2] \cap o.uses = {})
       [] o.do = "drop table" -> Keeping(db, LAMBDA f : f[1] # t)
       [] o.do = "rename column" ->
            Renaming(db, LAMBDA f :
              IF f[1] = t THEN [f EXCEPT ![2] = {Column(c) : c \in f[2]}] ELSE f)
       [] o.do = "rename table" ->
            Renaming(db, LAMBDA f : [i \in DOMAIN f |-> IF i \in {1, 3} THEN Table(f[i]) ELSE f[i]])
       [] o.do = "fill" -> [db EXCEPT !.nulls = @ \ One(t, o.uses)]
       [] o.do = "rename doubles" /\ "name taken" \notin troubles ->
            [db EXCEPT !.doubles = @ \ {<<t, o.uses>>}]
       [] o.do = "seed" \/ (o.do \in {"insert", "copy"} /\ HasRows(db, t)) -> Fill(db, o.to)
       [] OTHER -> db

\* The operations of one revision, in order; the first that fails stops them.
Run(db, operations, troubles) ==
  FoldLeft(LAMBDA run, o :
      IF run.ok /\ Applies(run.db, o, troubles)
        THEN [ok |-> TRUE, db |-> After(run.db, o, troubles)] ELSE [run EXCEPT !.ok = FALSE],
    [ok |-> TRUE, db |-> db], operations)

SchemaOf(db) == EachPart(LAMBDA k : db[k])

-----------------------------------------------------------------------------
(* The revisions.                                                          *)
Revision(id, parents, up, down) == [id |-> id, parents |-> parents, up |-> up, down |-> down]

InitialSchemaUp ==
  <<CreateTable("groups", {"name", "created_at"}, {"description"}, {}, {{"name"}}, {},
      Naive),
    CreateTable("projects", {"name", "created_at", "updated_at"}, {"description"}, {}, {},
      {}, Naive),
    CreateTable("users",
      {"username", "email", "hashed_password", "is_active", "created_at"},
      {"full_name", "api_key"}, {}, {{"email"}, {"username"}}, {}, Naive),
    UniqueIndex("users", {"api_key"}),
    CreateTable("group_members", {"group_id", "user_id", "role"}, {},
      {Cascade("group_id", "groups"), Cascade("user_id", "users")}, {}, {}, Utc),
    CreateTable("project_members", {"project_id", "user_id", "role", "added_at"}, {},
      {Cascade("project_id", "projects"), Cascade("user_id", "users")}, {}, {}, Naive),
    CreateTable("test_plans", {"project_id", "title", "created_at", "updated_at"},
      {"description"}, {Cascade("project_id", "projects")}, {}, {}, Naive),
    CreateTable("test_suites", {"project_id", "title", "created_at", "updated_at"},
      {"parent_suite_id", "description"},
      {SetNull("parent_suite_id", "test_suites"), Cascade("project_id", "projects")}, {},
      {}, Naive),
    CreateTable("test_cases", {"suite_id", "title", "created_at", "updated_at"},
      {"description", "preconditions"}, {Cascade("suite_id", "test_suites")}, {}, {}, Naive),
    CreateTable("test_executions", {"project_id", "title", "type", "status", "created_at"},
      {"test_plan_id", "description", "version", "environment", "assigned_to_id",
        "triggered_by", "started_at", "finished_at"},
      {SetNull("assigned_to_id", "users"), Cascade("project_id", "projects"),
        SetNull("test_plan_id", "test_plans")}, {}, {}, Naive),
    CreateTable("attachments", {"test_case_id", "filename", "file_path", "uploaded_at"},
      {"content_type", "size_bytes", "uploaded_by"},
      {Cascade("test_case_id", "test_cases")}, {}, {}, Naive),
    CreateTable("test_plan_cases", {"test_plan_id", "test_case_id"}, {},
      {Cascade("test_case_id", "test_cases"), Cascade("test_plan_id", "test_plans")},
      {{"test_plan_id", "test_case_id"}}, {}, Utc),
    CreateTable("test_results", {"execution_id", "test_case_id", "status"},
      {"comment", "executed_by", "executed_at", "duration_ms"},
      {Cascade("execution_id", "test_executions"), Cascade("test_case_id", "test_cases")},
      {}, {}, Naive),
    CreateTable("test_steps", {"test_case_id", "order", "content"}, {"expected_result"},
      {Cascade("test_case_id", "test_cases")}, {}, {}, Utc),
    CreateTable("result_attachments", {"result_id", "filename", "file_path", "uploaded_at"},
      {"content_type", "size_bytes", "uploaded_by", "comment"},
      {Cascade("result_id", "test_results")}, {}, {}, Naive),
    CreateTable("test_step_results", {"test_result_id", "step_id", "status"}, {"comment"},
      {Cascade("step_id", "test_steps"), Cascade("test_result_id", "test_results")}, {}, {},
      Utc)>>

InitialSchemaDown ==
  <<DropTable("test_step_results"), DropTable("result_attachments"),
    DropTable("test_steps"), DropTable("test_results"), DropTable("test_plan_cases"),
    DropTable("attachments"), DropTable("test_executions"), DropTable("test_cases"),
    DropTable("test_suites"), DropTable("test_plans"), DropTable("project_members"),
    DropTable("group_members"), DropUniqueIndex("users", {"api_key"}), DropTable("users"),
    DropTable("projects"), DropTable("groups")>>

InitialSchema == Revision("2c8f888e9a1e", {}, InitialSchemaUp, InitialSchemaDown)

AddVersionsAndExternalIds == Revision("c8b52cb822a5", {"2c8f888e9a1e"},
  <<CreateTable("project_versions", {"project_id", "name", "status", "created_at"},
      {"description", "vcs_tag"}, {Cascade("project_id", "projects")}, {}, {}, Naive),
    AddColumns("test_cases", {"setup", "teardown", "external_id"}, {}),
    CreateIndex("test_cases", {"external_id"}),
    AddColumns("test_executions", {"version_id"}, {}),
    AddReference("test_executions", SetNull("version_id", "project_versions")),
    AddColumns("test_step_results", {"log_output"}, {}),
    AddColumns("test_steps", {"step_type"}, {}), Backfill("test_steps", "step_type"),
    SetRequired("test_steps", "step_type"),
    AddColumns("test_suites", {"setup", "teardown"}, {})>>,
  <<DropColumns("test_suites", {"teardown", "setup"}),
    DropColumns("test_steps", {"step_type"}),
    DropColumns("test_step_results", {"log_output"}),
    DropReference("test_executions", SetNull("version_id", "project_versions")),
    DropColumns("test_executions", {"version_id"}),
    DropIndex("test_cases", {"external_id"}),
    DropColumns("test_cases", {"external_id", "teardown", "setup"}),
    DropTable("project_versions")>>)

RenameTitles == Revision("537df673456b", {"c8b52cb822a5"},
  <<RenameColumn("test_suites", "title", "name"),
    RenameColumn("test_cases", "title", "name"),
    RenameColumn("test_steps", "content", "action")>>,
  <<RenameColumn("test_suites", "name", "title"),
    RenameColumn("test_cases", "name", "title"),
    RenameColumn("test_steps", "action", "content")>>)

AddExecutionAttachments == Revision("b3e7f91a0d24", {"537df673456b"},
  <<CreateTable("execution_attachments", {"execution_id", "filename", "file_path"},
      {"content_type", "size_bytes", "uploaded_at", "uploaded_by"},
      {Cascade("execution_id", "test_executions")}, {}, {}, Naive)>>,
  <<DropTable("execution_attachments")>>)

AddTags == Revision("c4f8a2b1d7e9", {"b3e7f91a0d24"},
  <<AddColumns("test_suites", {"tags"}, {}), AddColumns("test_cases", {"tags"}, {})>>,
  <<DropColumns("test_suites", {"tags"}), DropColumns("test_cases", {"tags"})>>)

AddSuiteSteps == Revision("d1e3f5a7b9c2", {"c4f8a2b1d7e9"},
  <<CreateTable("suite_steps", {"suite_id", "order", "step_type", "action"}, {},
      {Cascade("suite_id", "test_suites")}, {}, {}, Utc),
    DropColumns("test_suites", {"setup", "teardown"})>>,
  <<AddColumns("test_suites", {"setup", "teardown"}, {}), DropTable("suite_steps")>>)

AddApiTokens == Revision("e2a9c4f1b8d3", {"d1e3f5a7b9c2"},
  <<AddDefaulted("users", {"is_admin"}),
    CreateTable("api_tokens", {"name", "token_hash", "prefix", "created_by"},
      {"user_id", "project_id", "created_at", "last_used_at"},
      {Cascade("user_id", "users"), Cascade("project_id", "projects"),
        Restricted("created_by", "users")}, {{"token_hash"}}, {{"token_hash"}}, Naive)>>,
  <<DropTable("api_tokens"), DropColumns("users", {"is_admin"})>>)

AddStepDurations == Revision("f3a1d8c5e2b4", {"e2a9c4f1b8d3"},
  <<AddColumns("test_step_results", {"duration_ms"}, {})>>,
  <<DropColumns("test_step_results", {"duration_ms"})>>)

AddExecutionAuthors == Revision("a1b2c3d4e5f6", {"f3a1d8c5e2b4"},
  <<AddColumns("test_executions", {"created_by_id", "token_name"},
      {SetNull("created_by_id", "users")})>>,
  <<DropColumns("test_executions", {"token_name", "created_by_id"})>>)

AddIndexes == Revision("a4b7c2d9e1f6", {"f3a1d8c5e2b4"},
  <<CreateIndex("test_executions", {"created_at"}),
    CreateIndex("test_results", {"execution_id"}), CreateIndex("test_cases", {"suite_id"})>>,
  <<DropIndex("test_cases", {"suite_id"}), DropIndex("test_results", {"execution_id"}),
    DropIndex("test_executions", {"created_at"})>>)

MergeHeads == Revision("b46b23df19fd", {"a1b2c3d4e5f6", "a4b7c2d9e1f6"},
  <<>>,
  <<>>)

AddOrder == Revision("ad2d55a50ae5", {"b46b23df19fd"},
  <<AddDefaulted("test_suites", {"order"}), AddDefaulted("test_cases", {"order"}),
    Update("test_suites", {"order", "project_id", "parent_suite_id"}),
    Update("test_cases", {"order", "suite_id"})>>,
  <<DropColumns("test_cases", {"order"}), DropColumns("test_suites", {"order"})>>)

\* Mutant: the rows that are there keep their NULL.
RequireStampsOfNewRows == Revision("6598b2bb11e0", {"ad2d55a50ae5"},
  <<SetRequired("api_tokens", "created_at"),
    SetRequired("execution_attachments", "uploaded_at")>>,
  <<SetOptional("execution_attachments", "uploaded_at"),
    SetOptional("api_tokens", "created_at")>>)

RequireStamps == Revision("6598b2bb11e0", {"ad2d55a50ae5"},
  <<Backfill("api_tokens", "created_at"), Backfill("execution_attachments", "uploaded_at"),
    SetRequired("api_tokens", "created_at"),
    SetRequired("execution_attachments", "uploaded_at")>>,
  <<SetOptional("execution_attachments", "uploaded_at"),
    SetOptional("api_tokens", "created_at")>>)

AddNotifications == Revision("71754a378930", {"6598b2bb11e0"},
  <<CreateTable("notifications", {"user_id", "type", "message", "is_read", "created_at"},
      {"link"}, {Cascade("user_id", "users")}, {}, {}, Naive),
    CreateIndex("notifications", {"created_at"}), CreateIndex("notifications", {"user_id"})>>,
  <<DropIndex("notifications", {"user_id"}), DropIndex("notifications", {"created_at"}),
    DropTable("notifications")>>)

AddCaseAuthorsAndRevisions == Revision("f481aa41654b", {"71754a378930"},
  <<CreateTable("case_revisions", {"case_id", "change_kind", "snapshot", "created_at"},
      {"actor_id"}, {SetNull("actor_id", "users"), Cascade("case_id", "test_cases")}, {},
      {}, Naive),
    CreateIndex("case_revisions", {"case_id"}),
    CreateIndex("case_revisions", {"created_at"}),
    AddColumns("test_cases", {"created_by_id", "updated_by_id"}, {}),
    AddReference("test_cases", SetNull("created_by_id", "users")),
    AddReference("test_cases", SetNull("updated_by_id", "users"))>>,
  <<DropReference("test_cases", SetNull("updated_by_id", "users")),
    DropReference("test_cases", SetNull("created_by_id", "users")),
    DropColumns("test_cases", {"updated_by_id", "created_by_id"}),
    DropIndex("case_revisions", {"created_at"}), DropIndex("case_revisions", {"case_id"}),
    DropTable("case_revisions")>>)

AddAppSettings == Revision("461099e5bde1", {"f481aa41654b"},
  <<CreateTable("app_settings",
      {"app_name", "allow_registration", "max_upload_mb", "notifications_retention_days",
        "smtp_use_tls", "updated_at"},
      {"site_url", "default_environment", "default_version_pattern", "smtp_host",
        "smtp_port", "smtp_user", "smtp_password", "smtp_from", "updated_by_id"},
      {SetNull("updated_by_id", "users")}, {}, {}, Naive),
    Seed("app_settings")>>,
  <<DropTable("app_settings")>>)

AddPreferences == Revision("a7f3c8b9e2d1", {"461099e5bde1"},
  <<CreateTable("user_notification_preferences",
      {"user_id", "event_type", "in_app", "email"}, {}, {Cascade("user_id", "users")},
      {{"user_id", "event_type"}}, {}, Utc),
    CreateIndex("user_notification_preferences", {"user_id"})>>,
  <<DropIndex("user_notification_preferences", {"user_id"}),
    DropTable("user_notification_preferences")>>)

AddSmtpReplyTo == Revision("b8e4d2c6f1a9", {"a7f3c8b9e2d1"},
  <<AddColumns("app_settings", {"smtp_reply_to"}, {})>>,
  <<DropColumns("app_settings", {"smtp_reply_to"})>>)

AddStartedAtToStepResults == Revision("c5a2b8e4d6f1", {"b8e4d2c6f1a9"},
  <<AddStamps("test_step_results", {"started_at"}, Naive)>>,
  <<DropColumns("test_step_results", {"started_at"})>>)

AddWsLogFlushMs == Revision("d6e1f0a3b8c2", {"c5a2b8e4d6f1"},
  <<AddDefaulted("app_settings", {"ws_log_flush_ms"})>>,
  <<DropColumns("app_settings", {"ws_log_flush_ms"})>>)

UniqueProjectAndTokenNames == Revision("e8f1c2a3b9d4", {"d6e1f0a3b8c2"},
  <<RenameDoubles("projects", {"name"}), RenameDoubles("api_tokens", {"user_id", "name"}),
    RenameDoubles("api_tokens", {"project_id", "name"}), AddKey("projects", {"name"}),
    AddKey("api_tokens", {"user_id", "name"}), AddKey("api_tokens", {"project_id", "name"})>>,
  <<DropKey("api_tokens", {"project_id", "name"}),
    DropKey("api_tokens", {"user_id", "name"}), DropKey("projects", {"name"})>>)

AddExportInlineAttachmentMb == Revision("f9b2a4c6d8e3", {"e8f1c2a3b9d4"},
  <<AddDefaulted("app_settings", {"export_inline_attachment_mb"})>>,
  <<DropColumns("app_settings", {"export_inline_attachment_mb"})>>)

AddExpiresAtToApiTokens == Revision("25e6a3f4703d", {"f9b2a4c6d8e3"},
  <<AddStamps("api_tokens", {"expires_at"}, Naive)>>,
  <<DropColumns("api_tokens", {"expires_at"})>>)

AddLockoutColumnsToUsers == Revision("c02821d14f90", {"25e6a3f4703d"},
  <<AddDefaulted("users", {"failed_login_count"}),
    AddStamps("users", {"locked_until"}, Naive)>>,
  <<DropColumns("users", {"locked_until", "failed_login_count"})>>)

AddPasswordResets == Revision("7e267648907c", {"c02821d14f90"},
  <<CreateTable("password_reset_tokens",
      {"user_id", "token_hash", "expires_at", "created_at"}, {"used_at"},
      {Cascade("user_id", "users")}, {}, {}, Naive),
    UniqueIndex("password_reset_tokens", {"token_hash"}),
    CreateIndex("password_reset_tokens", {"user_id"})>>,
  <<DropIndex("password_reset_tokens", {"user_id"}),
    DropUniqueIndex("password_reset_tokens", {"token_hash"}),
    DropTable("password_reset_tokens")>>)

AddDeletedAtToUsers == Revision("c4696244fc13", {"7e267648907c"},
  <<AddStamps("users", {"deleted_at"}, Naive), CreateIndex("users", {"deleted_at"})>>,
  <<DropIndex("users", {"deleted_at"}), DropColumns("users", {"deleted_at"})>>)

AddArchivedAtToProjects == Revision("2864d710f92c", {"c4696244fc13"},
  <<AddStamps("projects", {"archived_at"}, Naive), CreateIndex("projects", {"archived_at"})>>,
  <<DropIndex("projects", {"archived_at"}), DropColumns("projects", {"archived_at"})>>)

AddSelfDelete == Revision("320b81850a90", {"2864d710f92c"},
  <<AddDefaulted("app_settings", {"allow_user_self_delete"})>>,
  <<DropColumns("app_settings", {"allow_user_self_delete"})>>)

DatetimeUtcAwareUp ==
  <<ToUtc("api_tokens", {"created_at", "last_used_at", "expires_at"}),
    ToUtc("app_settings", {"updated_at"}), ToUtc("attachments", {"uploaded_at"}),
    ToUtc("case_revisions", {"created_at"}),
    ToUtc("execution_attachments", {"uploaded_at"}), ToUtc("groups", {"created_at"}),
    ToUtc("notifications", {"created_at"}),
    ToUtc("password_reset_tokens", {"expires_at", "used_at", "created_at"}),
    ToUtc("project_members", {"added_at"}), ToUtc("project_versions", {"created_at"}),
    ToUtc("projects", {"created_at", "updated_at", "archived_at"}),
    ToUtc("result_attachments", {"uploaded_at"}),
    ToUtc("test_cases", {"created_at", "updated_at"}),
    ToUtc("test_executions", {"started_at", "finished_at", "created_at"}),
    ToUtc("test_plans", {"created_at", "updated_at"}),
    ToUtc("test_results", {"executed_at"}), ToUtc("test_step_results", {"started_at"}),
    ToUtc("test_suites", {"created_at", "updated_at"}),
    ToUtc("users", {"locked_until", "deleted_at", "created_at"})>>

DatetimeUtcAwareDown ==
  <<ToNaive("users", {"created_at", "deleted_at", "locked_until"}),
    ToNaive("test_suites", {"updated_at", "created_at"}),
    ToNaive("test_step_results", {"started_at"}), ToNaive("test_results", {"executed_at"}),
    ToNaive("test_plans", {"updated_at", "created_at"}),
    ToNaive("test_executions", {"created_at", "finished_at", "started_at"}),
    ToNaive("test_cases", {"updated_at", "created_at"}),
    ToNaive("result_attachments", {"uploaded_at"}),
    ToNaive("projects", {"archived_at", "updated_at", "created_at"}),
    ToNaive("project_versions", {"created_at"}), ToNaive("project_members", {"added_at"}),
    ToNaive("password_reset_tokens", {"created_at", "used_at", "expires_at"}),
    ToNaive("notifications", {"created_at"}), ToNaive("groups", {"created_at"}),
    ToNaive("execution_attachments", {"uploaded_at"}),
    ToNaive("case_revisions", {"created_at"}), ToNaive("attachments", {"uploaded_at"}),
    ToNaive("app_settings", {"updated_at"}),
    ToNaive("api_tokens", {"expires_at", "last_used_at", "created_at"})>>

DatetimeUtcAware == Revision("80b02498ca2d", {"320b81850a90"}, DatetimeUtcAwareUp, DatetimeUtcAwareDown)

AddTimezones == Revision("7b2bdd216691", {"80b02498ca2d"},
  <<AddColumns("users", {"timezone"}, {}), AddDefaulted("users", {"use_relative_dates"})>>,
  <<DropColumns("users", {"use_relative_dates", "timezone"})>>)

AddLastLoginToUsers == Revision("d9f4a1b8c3e2", {"7b2bdd216691"},
  <<AddColumns("users", {"last_login_ip"}, {}), AddStamps("users", {"last_login_at"}, Utc)>>,
  <<DropColumns("users", {"last_login_ip", "last_login_at"})>>)

AddProjectGroups == Revision("e3c7d9b5f2a1", {"d9f4a1b8c3e2"},
  <<CreateTable("project_groups", {"project_id", "group_id", "role", "added_at"}, {},
      {Cascade("project_id", "projects"), Cascade("group_id", "groups")},
      {{"project_id", "group_id"}}, {}, Utc),
    CreateIndex("project_groups", {"project_id"}),
    CreateIndex("project_groups", {"group_id"}), Backfill("groups", "description")>>,
  <<DropIndex("project_groups", {"group_id"}), DropIndex("project_groups", {"project_id"}),
    DropTable("project_groups")>>)

UserLocale == Revision("f0e1c5471297", {"e3c7d9b5f2a1"},
  <<AddColumns("users", {"locale"}, {})>>,
  <<DropColumns("users", {"locale"})>>)

VersionReleaseDates == Revision("7a61b8d489ef", {"f0e1c5471297"},
  <<AddColumns("project_versions", {"release_date"}, {}),
    AddStamps("project_versions", {"released_at"}, Utc)>>,
  <<DropColumns("project_versions", {"released_at", "release_date"})>>)

DropVersionText == Revision("9be5727bc584", {"7a61b8d489ef"},
  <<InsertFrom("project_versions", "test_executions", {"version", "project_id"}),
    Update("test_executions", {"version", "version_id"}),
    DropColumns("test_executions", {"version"})>>,
  <<AddColumns("test_executions", {"version"}, {})>>)

AddProjectEnvironments == Revision("4a9d2c81e7b3", {"9be5727bc584"},
  <<CreateTable("project_environments",
      {"project_id", "name", "slug", "order", "is_default", "created_at"},
      {"description", "host", "color", "archived_at"}, {Cascade("project_id", "projects")},
      {{"project_id", "slug"}}, {{"project_id"}}, Utc),
    AddDefaulted("app_settings", {"auto_create_environments"}),
    Update("test_executions", {"environment"}),
    InsertFrom("project_environments", "test_executions", {"environment", "project_id"})>>,
  <<DropColumns("app_settings", {"auto_create_environments"}),
    DropTable("project_environments")>>)

AddBugsUp ==
  <<CreateTable("bugs",
      {"project_id", "number", "title", "severity", "status", "created_at", "updated_at"},
      {"description", "tags", "result_id", "execution_id", "version_id", "environment",
        "external_ticket_url", "assigned_to_id", "created_by_id", "resolved_at"},
      {Cascade("project_id", "projects"), SetNull("result_id", "test_results"),
        SetNull("execution_id", "test_executions"), SetNull("version_id", "project_versions"),
        SetNull("assigned_to_id", "users"), SetNull("created_by_id", "users")},
      {{"project_id", "number"}},
      {{"project_id"}, {"status"}, {"execution_id"}, {"assigned_to_id"}}, Utc),
    CreateTable("bug_comments", {"bug_id", "body", "created_at", "updated_at"},
      {"created_by_id"}, {Cascade("bug_id", "bugs"), SetNull("created_by_id", "users")}, {},
      {{"bug_id"}}, Utc),
    CreateTable("bug_attachments", {"bug_id", "filename", "file_path", "uploaded_at"},
      {"content_type", "size_bytes", "uploaded_by_id"},
      {Cascade("bug_id", "bugs"), SetNull("uploaded_by_id", "users")}, {}, {{"bug_id"}},
      Utc),
    CreateTable("bug_status_history", {"bug_id", "to_status", "changed_at"},
      {"from_status", "note", "changed_by_id"},
      {Cascade("bug_id", "bugs"), SetNull("changed_by_id", "users")}, {}, {{"bug_id"}}, Utc)>>

AddBugsDown ==
  <<DropTable("bug_status_history"), DropTable("bug_attachments"),
    DropTable("bug_comments"), DropTable("bugs")>>

AddBugs == Revision("c2e7f3a91b50", {"4a9d2c81e7b3"}, AddBugsUp, AddBugsDown)

AddBugUpdatedByAndLinks == Revision("d4c8b1f7a9e2", {"c2e7f3a91b50"},
  <<AddColumns("bugs", {"updated_by_id"}, {SetNull("updated_by_id", "users")}),
    CreateTable("bug_links", {"bug_id", "created_at"},
      {"label", "url", "execution_id", "test_case_id", "test_step_id", "target_bug_id",
        "created_by_id"},
      {Cascade("bug_id", "bugs"), SetNull("execution_id", "test_executions"),
        SetNull("test_case_id", "test_cases"), SetNull("test_step_id", "test_steps"),
        SetNull("target_bug_id", "bugs"), SetNull("created_by_id", "users")}, {},
      {{"bug_id"}}, Utc)>>,
  <<DropTable("bug_links"), DropColumns("bugs", {"updated_by_id"})>>)

BackfillBugUpdatedBy == Revision("d8a3f1c5b7e9", {"d4c8b1f7a9e2"},
  <<Update("bugs", {"updated_by_id", "created_by_id"})>>,
  <<>>)

AddFixedInVersion == Revision("e2b7d4a9f1c3", {"d8a3f1c5b7e9"},
  <<AddColumns("bug_links", {"kind"}, {}),
    AddColumns("bugs", {"fixed_in_version_id"},
      {SetNull("fixed_in_version_id", "project_versions")})>>,
  <<DropColumns("bugs", {"fixed_in_version_id"}), DropColumns("bug_links", {"kind"})>>)

BugActivityLog == Revision("f5a8d2c1e9b7", {"e2b7d4a9f1c3"},
  <<RenameTable("bug_status_history", "bug_activity"),
    RenameColumn("bug_activity", "from_status", "from_value"),
    RenameColumn("bug_activity", "to_status", "to_value"),
    SetOptional("bug_activity", "to_value"), AddColumns("bug_activity", {"field"}, {}),
    Backfill("bug_activity", "field"), SetRequired("bug_activity", "field"),
    CreateIndex("bug_activity", {"bug_id", "changed_at"})>>,
  <<DropIndex("bug_activity", {"bug_id", "changed_at"}),
    DeleteNulls("bug_activity", "to_value"), DropColumns("bug_activity", {"field"}),
    RenameColumn("bug_activity", "to_value", "to_status"),
    SetRequired("bug_activity", "to_status"),
    RenameColumn("bug_activity", "from_value", "from_status"),
    RenameTable("bug_activity", "bug_status_history")>>)

CaseComments == Revision("a1c9b3e7f4d8", {"f5a8d2c1e9b7"},
  <<CreateTable("case_comments", {"test_case_id", "body", "created_at", "updated_at"},
      {"created_by_id"},
      {Cascade("test_case_id", "test_cases"), SetNull("created_by_id", "users")}, {}, {},
      Utc),
    CreateIndex("case_comments", {"test_case_id"})>>,
  <<DropIndex("case_comments", {"test_case_id"}), DropTable("case_comments")>>)

AddWebhooks == Revision("b4f7d2c8e9a1", {"a1c9b3e7f4d8"},
  <<CreateTable("webhooks",
      {"project_id", "name", "url", "secret", "events", "is_active", "created_at",
        "updated_at"}, {}, {Cascade("project_id", "projects")}, {}, {}, Utc),
    CreateIndex("webhooks", {"project_id"}),
    CreateTable("webhook_deliveries",
      {"webhook_id", "event_type", "payload", "attempt_count", "succeeded", "created_at"},
      {"status_code", "response_excerpt", "last_error", "completed_at"},
      {Cascade("webhook_id", "webhooks")}, {}, {}, Utc),
    CreateIndex("webhook_deliveries", {"webhook_id"})>>,
  <<DropIndex("webhook_deliveries", {"webhook_id"}), DropTable("webhook_deliveries"),
    DropIndex("webhooks", {"project_id"}), DropTable("webhooks")>>)

ArchiveTestCases == Revision("c5e8d1a3f9b2", {"b4f7d2c8e9a1"},
  <<AddStamps("test_cases", {"archived_at"}, Utc)>>,
  <<DropColumns("test_cases", {"archived_at"})>>)

UniqueProjectVersionName == Revision("d2b1c8f5a3e7", {"c5e8d1a3f9b2"},
  <<RenameDoubles("project_versions", {"project_id", "name"}),
    AddKey("project_versions", {"project_id", "name"})>>,
  <<DropKey("project_versions", {"project_id", "name"})>>)

CascadeDeleteParentSuite == Revision("e6a3c19f4d72", {"d2b1c8f5a3e7"},
  <<DropReference("test_suites", SetNull("parent_suite_id", "test_suites")),
    AddReference("test_suites", Cascade("parent_suite_id", "test_suites"))>>,
  <<DropReference("test_suites", Cascade("parent_suite_id", "test_suites")),
    AddReference("test_suites", SetNull("parent_suite_id", "test_suites"))>>)

AddVersionAttachments == Revision("f4d27e8b1a35", {"e6a3c19f4d72"},
  <<CreateTable("version_attachments",
      {"version_id", "filename", "file_path", "uploaded_at"},
      {"content_type", "size_bytes", "uploaded_by_id"},
      {Cascade("version_id", "project_versions"), SetNull("uploaded_by_id", "users")}, {},
      {}, Naive),
    CreateIndex("version_attachments", {"version_id"})>>,
  <<DropIndex("version_attachments", {"version_id"}), DropTable("version_attachments")>>)

IntegrationsScaffold == Revision("a8c41f9e3b27", {"f4d27e8b1a35"},
  <<CreateTable("project_integrations",
      {"project_id", "provider", "name", "config", "status_mapping", "is_active",
        "created_at", "updated_at"}, {}, {Cascade("project_id", "projects")},
      {{"project_id", "provider", "name"}}, {}, Naive),
    CreateIndex("project_integrations", {"project_id"}),
    CreateTable("integration_credentials",
      {"integration_id", "kind", "secret_encrypted", "created_at", "updated_at"},
      {"created_by_id", "expires_at", "last_used_at"},
      {Cascade("integration_id", "project_integrations"), SetNull("created_by_id",
        "users")}, {{"integration_id"}}, {}, Naive),
    CreateTable("bug_external_links",
      {"bug_id", "external_id", "url", "status_normalized", "created_at"},
      {"integration_id", "provider", "status_raw", "last_synced_at", "created_by_id"},
      {Cascade("bug_id", "bugs"), SetNull("integration_id", "project_integrations"),
        SetNull("created_by_id", "users")}, {{"bug_id", "integration_id", "external_id"}},
      {}, Naive),
    CreateIndex("bug_external_links", {"bug_id"}),
    CreateIndex("bug_external_links", {"integration_id"}),
    CopyUrls("bug_external_links", "bugs", "external_ticket_url")>>,
  <<DropIndex("bug_external_links", {"integration_id"}),
    DropIndex("bug_external_links", {"bug_id"}), DropTable("bug_external_links"),
    DropTable("integration_credentials"), DropIndex("project_integrations", {"project_id"}),
    DropTable("project_integrations")>>)

BugWatchers == Revision("68c5c4c30227", {"a8c41f9e3b27"},
  <<CreateTable("bug_watchers", {"bug_id", "user_id", "created_at"}, {},
      {Cascade("bug_id", "bugs"), Cascade("user_id", "users")}, {{"bug_id", "user_id"}}, {},
      Utc)>>,
  <<DropTable("bug_watchers")>>)

PublicReports == Revision("c7d8e9f0a1b2", {"68c5c4c30227", "a1b2c3d4e5f6", "a4b7c2d9e1f6"},
  <<CreateTable("public_reports",
      {"project_id", "kind", "token_hash", "created_at", "view_count"},
      {"label", "execution_id", "version_id", "environment", "created_by_id", "expires_at",
        "revoked_at", "last_viewed_at"},
      {Cascade("project_id", "projects"), Cascade("execution_id", "test_executions"),
        SetNull("version_id", "project_versions"), SetNull("created_by_id", "users")},
      {{"token_hash"}}, {}, Utc),
    CreateIndex("public_reports", {"project_id"}),
    CreateIndex("public_reports", {"token_hash"}),
    CreateIndex("public_reports", {"execution_id"})>>,
  <<DropIndex("public_reports", {"execution_id"}),
    DropIndex("public_reports", {"token_hash"}),
    DropIndex("public_reports", {"project_id"}), DropTable("public_reports")>>)

AddCustomFieldDefinitions == Revision("d3f7a8b2c1e9", {"c7d8e9f0a1b2"},
  <<CreateTable("custom_field_definitions",
      {"project_id", "entity_type", "key", "label", "type", "required", "position",
        "created_at", "updated_at"}, {"options", "default_value", "archived_at"},
      {Cascade("project_id", "projects")}, {{"project_id", "entity_type", "key"}}, {}, Utc),
    CreateIndex("custom_field_definitions", {"project_id"}),
    AddDefaulted("bugs", {"custom_fields"}), AddDefaulted("test_cases", {"custom_fields"}),
    AddDefaulted("test_executions", {"custom_fields"})>>,
  <<DropColumns("test_executions", {"custom_fields"}),
    DropColumns("test_cases", {"custom_fields"}), DropColumns("bugs", {"custom_fields"}),
    DropIndex("custom_field_definitions", {"project_id"}),
    DropTable("custom_field_definitions")>>)

AddIpThrottle == Revision("0799fc4d990b", {"d3f7a8b2c1e9"},
  <<AddDefaulted("app_settings", {"ip_throttle_enabled"})>>,
  <<DropColumns("app_settings", {"ip_throttle_enabled"})>>)

SnapshotExecutionHistory == Revision("d10c791c155a", {"0799fc4d990b"},
  <<AddColumns("test_results", {"test_case_title"}, {}),
    AddColumns("test_step_results", {"step_action", "step_expected_result"}, {}),
    Backfill("test_results", "test_case_title"),
    Backfill("test_step_results", "step_action"),
    DropReference("test_results", Cascade("test_case_id", "test_cases")),
    AddReference("test_results", SetNull("test_case_id", "test_cases")),
    DropReference("test_step_results", Cascade("step_id", "test_steps")),
    AddReference("test_step_results", SetNull("step_id", "test_steps")),
    SetOptional("test_results", "test_case_id"),
    SetOptional("test_step_results", "step_id")>>,
  <<DeleteNulls("test_step_results", "step_id"),
    DeleteNulls("test_results", "test_case_id"),
    SetRequired("test_step_results", "step_id"),
    SetRequired("test_results", "test_case_id"),
    DropReference("test_step_results", SetNull("step_id", "test_steps")),
    AddReference("test_step_results", Cascade("step_id", "test_steps")),
    DropReference("test_results", SetNull("test_case_id", "test_cases")),
    AddReference("test_results", Cascade("test_case_id", "test_cases")),
    DropColumns("test_step_results", {"step_expected_result", "step_action"}),
    DropColumns("test_results", {"test_case_title"})>>)

DropUserApiKey == Revision("7c2e4f1a9b30", {"d10c791c155a"},
  <<DropUniqueIndex("users", {"api_key"}), DropColumns("users", {"api_key"})>>,
  <<AddColumns("users", {"api_key"}, {}), UniqueIndex("users", {"api_key"})>>)

AddPasswordChangedAt == Revision("a41f6d2e8c17", {"7c2e4f1a9b30"},
  <<AddStamps("users", {"password_changed_at"}, Utc)>>,
  <<DropColumns("users", {"password_changed_at"})>>)

AddResultAssignee == Revision("b5d2e8f3c914", {"a41f6d2e8c17"},
  <<AddColumns("test_results", {"assigned_to_id"}, {}),
    AddReference("test_results", SetNull("assigned_to_id", "users")),
    CreateIndex("test_results", {"assigned_to_id"})>>,
  <<DropIndex("test_results", {"assigned_to_id"}),
    DropReference("test_results", SetNull("assigned_to_id", "users")),
    DropColumns("test_results", {"assigned_to_id"})>>)

-----------------------------------------------------------------------------
\* Every revision after its parents.
History == <<
  InitialSchema, AddVersionsAndExternalIds, RenameTitles, AddExecutionAttachments,
  AddTags, AddSuiteSteps, AddApiTokens, AddStepDurations, AddExecutionAuthors, AddIndexes,
  MergeHeads, AddOrder, RequireStamps, AddNotifications, AddCaseAuthorsAndRevisions,
  AddAppSettings, AddPreferences, AddSmtpReplyTo, AddStartedAtToStepResults,
  AddWsLogFlushMs, UniqueProjectAndTokenNames, AddExportInlineAttachmentMb,
  AddExpiresAtToApiTokens, AddLockoutColumnsToUsers, AddPasswordResets,
  AddDeletedAtToUsers, AddArchivedAtToProjects, AddSelfDelete, DatetimeUtcAware,
  AddTimezones, AddLastLoginToUsers, AddProjectGroups, UserLocale, VersionReleaseDates,
  DropVersionText, AddProjectEnvironments, AddBugs, AddBugUpdatedByAndLinks,
  BackfillBugUpdatedBy, AddFixedInVersion, BugActivityLog, CaseComments, AddWebhooks,
  ArchiveTestCases, UniqueProjectVersionName, CascadeDeleteParentSuite,
  AddVersionAttachments, IntegrationsScaffold, BugWatchers, PublicReports,
  AddCustomFieldDefinitions, AddIpThrottle, SnapshotExecutionHistory, DropUserApiKey,
  AddPasswordChangedAt, AddResultAssignee>>

-----------------------------------------------------------------------------
(* The tables as the classes of testjam.models declare them: what create_all  *)
(* makes of them, which is the database the tests run on.  Every timestamp is  *)
(* a UTCDateTime.  A relationship to many says what the session does to the    *)
(* rows below one that is deleted: delete them, or set their key to NULL.      *)

Model(t, required, optional, references, keys, indexes, below) ==
  [table |-> CreateTable(t, required, optional, references, keys, indexes, Utc).facts,
   below |-> {<<r[1], {r[2]}, t, r[3]>> : r \in below}]

Bug == Model("bugs",
    {"project_id", "number", "title", "severity", "status", "custom_fields", "created_at",
      "updated_at"},
    {"description", "tags", "result_id", "execution_id", "version_id",
      "fixed_in_version_id", "environment", "external_ticket_url", "assigned_to_id",
      "created_by_id", "updated_by_id", "resolved_at"},
    {Cascade("project_id", "projects"), SetNull("result_id", "test_results"),
      SetNull("execution_id", "test_executions"), SetNull("version_id", "project_versions"),
      SetNull("fixed_in_version_id", "project_versions"), SetNull("assigned_to_id", "users"),
      SetNull("created_by_id", "users"), SetNull("updated_by_id", "users")},
    {{"project_id", "number"}},
    {{"project_id"}, {"status"}, {"execution_id"}, {"assigned_to_id"}},
    {Cascade("bug_comments", "bug_id"), Cascade("bug_attachments", "bug_id"),
      Cascade("bug_activity", "bug_id"), Cascade("bug_external_links", "bug_id"),
      Cascade("bug_links", "bug_id"), Cascade("bug_watchers", "bug_id")})

BugComment == Model("bug_comments", {"bug_id", "body", "created_at", "updated_at"}, {"created_by_id"},
    {Cascade("bug_id", "bugs"), SetNull("created_by_id", "users")}, {}, {{"bug_id"}}, {})

BugAttachment == Model("bug_attachments", {"bug_id", "filename", "file_path", "uploaded_at"},
    {"content_type", "size_bytes", "uploaded_by_id"},
    {Cascade("bug_id", "bugs"), SetNull("uploaded_by_id", "users")}, {}, {{"bug_id"}}, {})

BugLink == Model("bug_links", {"bug_id", "created_at"},
    {"kind", "label", "url", "execution_id", "test_case_id", "test_step_id",
      "target_bug_id", "created_by_id"},
    {Cascade("bug_id", "bugs"), SetNull("execution_id", "test_executions"),
      SetNull("test_case_id", "test_cases"), SetNull("test_step_id", "test_steps"),
      SetNull("target_bug_id", "bugs"), SetNull("created_by_id", "users")}, {},
    {{"bug_id"}}, {})

BugActivity == Model("bug_activity", {"bug_id", "field", "changed_at"},
    {"from_value", "to_value", "note", "changed_by_id"},
    {Cascade("bug_id", "bugs"), SetNull("changed_by_id", "users")}, {}, {{"bug_id"}}, {})

BugWatcher == Model("bug_watchers", {"bug_id", "user_id", "created_at"}, {},
    {Cascade("bug_id", "bugs"), Cascade("user_id", "users")}, {{"bug_id", "user_id"}}, {},
    {})

CaseRevision == Model("case_revisions", {"case_id", "change_kind", "snapshot", "created_at"},
    {"actor_id"}, {Cascade("case_id", "test_cases"), SetNull("actor_id", "users")}, {},
    {{"case_id"}, {"created_at"}}, {})

CustomFieldDefinition == Model("custom_field_definitions",
    {"project_id", "entity_type", "key", "label", "type", "required", "position",
      "created_at", "updated_at"}, {"options", "default_value", "archived_at"},
    {Cascade("project_id", "projects")}, {{"project_id", "entity_type", "key"}},
    {{"project_id"}}, {})

ProjectEnvironment == Model("project_environments",
    {"project_id", "name", "slug", "order", "is_default", "created_at"},
    {"description", "host", "color", "archived_at"}, {Cascade("project_id", "projects")},
    {{"project_id", "slug"}}, {{"project_id"}}, {})

TestExecution == Model("test_executions",
    {"project_id", "title", "type", "status", "custom_fields", "created_at"},
    {"test_plan_id", "version_id", "description", "environment", "assigned_to_id",
      "triggered_by", "created_by_id", "token_name", "started_at", "finished_at"},
    {Cascade("project_id", "projects"), SetNull("test_plan_id", "test_plans"),
      SetNull("version_id", "project_versions"), SetNull("assigned_to_id", "users"),
      SetNull("created_by_id", "users")}, {}, {{"created_at"}},
    {Cascade("test_results", "execution_id"), Cascade("execution_attachments",
      "execution_id")})

TestResult == Model("test_results", {"execution_id", "status"},
    {"test_case_id", "test_case_title", "comment", "executed_by", "executed_at",
      "duration_ms", "assigned_to_id"},
    {Cascade("execution_id", "test_executions"), SetNull("test_case_id", "test_cases"),
      SetNull("assigned_to_id", "users")}, {}, {{"execution_id"}, {"assigned_to_id"}},
    {Cascade("test_step_results", "test_result_id"), Cascade("result_attachments",
      "result_id")})

TestStepResult == Model("test_step_results", {"test_result_id", "status"},
    {"step_id", "step_action", "step_expected_result", "comment", "duration_ms",
      "started_at", "log_output"},
    {Cascade("test_result_id", "test_results"), SetNull("step_id", "test_steps")}, {}, {},
    {})

ResultAttachment == Model("result_attachments", {"result_id", "filename", "file_path", "uploaded_at"},
    {"content_type", "size_bytes", "uploaded_by", "comment"},
    {Cascade("result_id", "test_results")}, {}, {}, {})

ExecutionAttachment == Model("execution_attachments", {"execution_id", "filename", "file_path", "uploaded_at"},
    {"content_type", "size_bytes", "uploaded_by"},
    {Cascade("execution_id", "test_executions")}, {}, {}, {})

ProjectIntegration == Model("project_integrations",
    {"project_id", "provider", "name", "config", "status_mapping", "is_active",
      "created_at", "updated_at"}, {}, {Cascade("project_id", "projects")},
    {{"project_id", "provider", "name"}}, {{"project_id"}},
    {Cascade("integration_credentials", "integration_id"), SetNull("bug_external_links",
      "integration_id")})

IntegrationCredential == Model("integration_credentials",
    {"integration_id", "kind", "secret_encrypted", "created_at", "updated_at"},
    {"created_by_id", "expires_at", "last_used_at"},
    {Cascade("integration_id", "project_integrations"), SetNull("created_by_id", "users")},
    {{"integration_id"}}, {}, {})

BugExternalLink == Model("bug_external_links",
    {"bug_id", "external_id", "url", "status_normalized", "created_at"},
    {"integration_id", "provider", "status_raw", "last_synced_at", "created_by_id"},
    {Cascade("bug_id", "bugs"), SetNull("integration_id", "project_integrations"),
      SetNull("created_by_id", "users")}, {{"bug_id", "integration_id", "external_id"}},
    {{"bug_id"}, {"integration_id"}}, {})

Notification == Model("notifications", {"user_id", "type", "message", "is_read", "created_at"}, {"link"},
    {Cascade("user_id", "users")}, {}, {{"user_id"}, {"created_at"}}, {})

UserNotificationPreference == Model("user_notification_preferences", {"user_id", "event_type", "in_app", "email"}, {},
    {Cascade("user_id", "users")}, {{"user_id", "event_type"}}, {{"user_id"}}, {})

PasswordResetToken == Model("password_reset_tokens", {"user_id", "token_hash", "expires_at", "created_at"},
    {"used_at"}, {Cascade("user_id", "users")}, {{"token_hash"}},
    {{"user_id"}, {"token_hash"}}, {})

Project == Model("projects", {"name", "created_at", "updated_at"}, {"description", "archived_at"},
    {}, {{"name"}}, {{"archived_at"}},
    {Cascade("project_members", "project_id"), Cascade("project_groups", "project_id"),
      Cascade("test_suites", "project_id"), Cascade("test_plans", "project_id"),
      Cascade("test_executions", "project_id"), Cascade("project_versions", "project_id"),
      Cascade("project_environments", "project_id"), Cascade("bugs", "project_id"),
      Cascade("custom_field_definitions", "project_id")})

ProjectMember == Model("project_members", {"project_id", "user_id", "role", "added_at"}, {},
    {Cascade("project_id", "projects"), Cascade("user_id", "users")}, {}, {}, {})

ProjectGroup == Model("project_groups", {"project_id", "group_id", "role", "added_at"}, {},
    {Cascade("project_id", "projects"), Cascade("group_id", "groups")},
    {{"project_id", "group_id"}}, {{"project_id"}, {"group_id"}}, {})

PublicReport == Model("public_reports", {"project_id", "kind", "token_hash", "created_at", "view_count"},
    {"label", "execution_id", "version_id", "environment", "created_by_id", "expires_at",
      "revoked_at", "last_viewed_at"},
    {Cascade("project_id", "projects"), Cascade("execution_id", "test_executions"),
      SetNull("version_id", "project_versions"), SetNull("created_by_id", "users")},
    {{"token_hash"}}, {{"project_id"}, {"token_hash"}, {"execution_id"}}, {})

AppSettings == Model("app_settings",
    {"app_name", "allow_registration", "allow_user_self_delete", "auto_create_environments",
      "max_upload_mb", "notifications_retention_days", "smtp_use_tls", "ws_log_flush_ms",
      "ip_throttle_enabled", "export_inline_attachment_mb", "updated_at"},
    {"site_url", "default_environment", "default_version_pattern", "smtp_host", "smtp_port",
      "smtp_user", "smtp_password", "smtp_from", "smtp_reply_to", "updated_by_id"},
    {SetNull("updated_by_id", "users")}, {}, {}, {})

TestSuite == Model("test_suites", {"project_id", "name", "order", "created_at", "updated_at"},
    {"parent_suite_id", "description", "tags"},
    {Cascade("project_id", "projects"), Cascade("parent_suite_id", "test_suites")}, {}, {},
    {Cascade("test_suites", "parent_suite_id"), Cascade("test_cases", "suite_id"),
      Cascade("suite_steps", "suite_id")})

TestCase == Model("test_cases",
    {"suite_id", "name", "custom_fields", "order", "created_at", "updated_at"},
    {"description", "preconditions", "setup", "teardown", "tags", "external_id",
      "created_by_id", "updated_by_id", "archived_at"},
    {Cascade("suite_id", "test_suites"), SetNull("created_by_id", "users"),
      SetNull("updated_by_id", "users")}, {}, {{"suite_id"}, {"external_id"}},
    {Cascade("test_steps", "test_case_id"), Cascade("attachments", "test_case_id"),
      Cascade("case_revisions", "case_id"), Cascade("case_comments", "test_case_id")})

CaseComment == Model("case_comments", {"test_case_id", "body", "created_at", "updated_at"},
    {"created_by_id"},
    {Cascade("test_case_id", "test_cases"), SetNull("created_by_id", "users")}, {},
    {{"test_case_id"}}, {})

TestStep == Model("test_steps", {"test_case_id", "order", "step_type", "action"}, {"expected_result"},
    {Cascade("test_case_id", "test_cases")}, {}, {}, {})

SuiteStep == Model("suite_steps", {"suite_id", "order", "step_type", "action"}, {},
    {Cascade("suite_id", "test_suites")}, {}, {}, {})

Attachment == Model("attachments", {"test_case_id", "filename", "file_path", "uploaded_at"},
    {"content_type", "size_bytes", "uploaded_by"}, {Cascade("test_case_id", "test_cases")},
    {}, {}, {})

TestPlan == Model("test_plans", {"project_id", "title", "created_at", "updated_at"}, {"description"},
    {Cascade("project_id", "projects")}, {}, {},
    {SetNull("test_executions", "test_plan_id")})

ApiToken == Model("api_tokens", {"name", "token_hash", "prefix", "created_by", "created_at"},
    {"user_id", "project_id", "last_used_at", "expires_at"},
    {Cascade("user_id", "users"), Cascade("project_id", "projects"), Restricted("created_by",
      "users")}, {{"user_id", "name"}, {"project_id", "name"}, {"token_hash"}},
    {{"token_hash"}}, {})

User == Model("users",
    {"username", "email", "hashed_password", "is_active", "is_admin", "failed_login_count",
      "created_at", "use_relative_dates"},
    {"full_name", "locked_until", "password_changed_at", "deleted_at", "last_login_at",
      "last_login_ip", "timezone", "locale"}, {}, {{"username"}, {"email"}},
    {{"deleted_at"}},
    {SetNull("group_members", "user_id"), SetNull("project_members", "user_id")})

Group == Model("groups", {"name", "created_at"}, {"description"}, {}, {{"name"}}, {},
    {Cascade("group_members", "group_id"), Cascade("project_groups", "group_id")})

GroupMember == Model("group_members", {"group_id", "user_id", "role"}, {},
    {Cascade("group_id", "groups"), Cascade("user_id", "users")}, {}, {}, {})

ProjectVersion == Model("project_versions", {"project_id", "name", "status", "created_at"},
    {"description", "vcs_tag", "release_date", "released_at"},
    {Cascade("project_id", "projects")}, {{"project_id", "name"}}, {},
    {SetNull("test_executions", "version_id"), Cascade("version_attachments",
      "version_id")})

VersionAttachment == Model("version_attachments", {"version_id", "filename", "file_path", "uploaded_at"},
    {"content_type", "size_bytes", "uploaded_by_id"},
    {Cascade("version_id", "project_versions"), SetNull("uploaded_by_id", "users")}, {},
    {{"version_id"}}, {})

Webhook == Model("webhooks",
    {"project_id", "name", "url", "secret", "events", "is_active", "created_at",
      "updated_at"}, {}, {Cascade("project_id", "projects")}, {}, {{"project_id"}},
    {Cascade("webhook_deliveries", "webhook_id")})

WebhookDelivery == Model("webhook_deliveries",
    {"webhook_id", "event_type", "payload", "attempt_count", "succeeded", "created_at"},
    {"status_code", "response_excerpt", "last_error", "completed_at"},
    {Cascade("webhook_id", "webhooks")}, {}, {{"webhook_id"}}, {})

TestPlanCases ==
  Model("test_plan_cases", {"test_plan_id", "test_case_id"}, {},
    {Cascade("test_plan_id", "test_plans"), Cascade("test_case_id", "test_cases")},
    {{"test_plan_id", "test_case_id"}}, {}, {})

-----------------------------------------------------------------------------
Classes == {
  Bug, BugComment, BugAttachment, BugLink, BugActivity, BugWatcher, CaseRevision,
  CustomFieldDefinition, ProjectEnvironment, TestExecution, TestResult, TestStepResult,
  ResultAttachment, ExecutionAttachment, ProjectIntegration, IntegrationCredential,
  BugExternalLink, Notification, UserNotificationPreference, PasswordResetToken, Project,
  ProjectMember, ProjectGroup, PublicReport, AppSettings, TestSuite, TestCase,
  CaseComment, TestStep, SuiteStep, Attachment, TestPlan, ApiToken, User, Group,
  GroupMember, ProjectVersion, VersionAttachment, Webhook, WebhookDelivery, TestPlanCases}

CreateAll == [k \in Parts |-> UNION {c.table[k] : c \in Classes}]
Relationships == UNION {c.below : c \in Classes}
=============================================================================
