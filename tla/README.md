# Formal model of testjam

TLA+ specifications of testjam, a self-hosted test-management server (FastAPI
backend, React frontend, Python SDK with a CLI and a Robot Framework listener),
with the TLC runs that check them and the TLAPS proofs about them. Paths below
are relative to `src/`.

## 1. The system

### 1.1 How it runs

The backend (`backend/testjam`) is one or more FastAPI worker processes over
PostgreSQL. HTTP handlers are synchronous functions that run in a thread pool,
each with a SQLAlchemy session of its own (`database.py`: no autoflush, no
autocommit, default isolation, which is READ COMMITTED). No handler locks a row
it reads. WebSocket code runs on the event loop; a handler reaches it through
`realtime._schedule`, which hands a coroutine to the loop and returns. Mails and
webhook deliveries are FastAPI background tasks that run in memory after the
response: there is no queue on disk. Redis, when configured, fans WebSocket
messages out between worker processes.

### 1.2 Components

| Component | State | Operations | Makes it correct | Hard because |
|---|---|---|---|---|
| executions (`routers/executions/{crud,results}.py`, `services/execution_events.py`) | rows of `test_executions`, `test_results`, `test_step_results` | create, update, reopen, rerun, delete; create / bulk / update result; start, update, log a step | closed runs are read-only, one row per case, a completion sweeps what runs and is announced, a failure is reported | check, change and commit are separate steps of overlapping requests; the completion commits half-way |
| result imports (`routers/executions/result_imports.py`) | the same rows | JUnit and Robot Framework XML | a report maps to the right cases, newly failed rows are reported | matching by external id, then by name; a file may name a row twice |
| pages and report of executions (`routers/{dashboard,coverage}.py`, `services/{project_summaries,execution_reports}.py`) | none, they read | dashboard, summaries, matrix, HTML report | each says what the rows say, and one what the other | two queries with a commit between them; stale stamps |
| log flusher (`services/log_flusher.py`) | buffer and pending flush per execution, interval | append, flush, configure | every log line is broadcast once, lines of an execution stay in order | interval changed while lines are buffered, two flushes sending at once |
| realtime (`realtime.py`, `routers/ws.py`) | registry topic -> sockets and socket -> topics | subscribe, unsubscribe, disconnect, broadcast | the two indexes mirror each other, a live subscriber gets every broadcast, a closed socket leaves nothing behind | sends happen outside the lock; a dead socket is dropped by whoever notices first |
| backplane (`realtime_backplane.py`) | Redis subscription and consumer task | start, stop, publish, consume | processes show the same messages in the same order, and their own | consumer failure, reconnection, stop during a broadcast |
| live pages (`frontend/src/hooks/use*Live.js`, `useTopicSocket.js`) | query cache, socket, timers | connect, reconnect, patch the cache | a page that is shown has one socket, for its topics | callbacks of a socket come after the effect that made it is over |
| webhooks (`services/webhook_dispatch.py`, `webhook_events.py`) | `webhooks`, `webhook_deliveries` | fire, attempt, retry, pause, test | every attempt budget ends in a recorded outcome, success stops retries | crash between attempts, hook paused or deleted mid-delivery |
| listener (`testjam-client/testjam_client/listener/`) | current suite, test, steps, streaming flag, circuit breaker | start / end suite, test, keyword; log; close | every step result reaches the server, failures of the server neither fail nor stall the run | fallback from streaming to batch, partial failures, an open breaker |
| bugs (`routers/bugs.py`, `services/bug_{numbering,activity,events}.py`) | `bugs`, `bug_activity`, the environment catalogue | create, edit, change status, delete | numbers unique, the log tells the edits, resolved_at follows the status | MAX + 1 numbering, optimistic check before the commit |
| bug reports and mentions (`services/{bug_reports,mention_resolver,mention_search}.py`) | none, they read | report, release notes, resolve, search | each bug is in one place; what the search offers resolves | what is referred to is deleted, archived or foreign |
| bug links (`routers/bugs.py`) | `bug_links` | add, delete, reciprocal rows | every link between bugs has its mirror | the mirror is looked up by its values |
| integrations (`services/integration_service.py`, `integrations/`) | `bug_external_links`, tickets of a remote tracker | push, sync, delete | a ticket is linked, a deleted link stays away | remote call and local commit are not atomic |
| notifications and watchers (`services/{notifications,bug_watchers,mention_notify}.py`) | `notifications`, preferences, `bug_watchers` | watch, comment, assign, notify | watchers are told once, and actors not of what they do | dedupe is a query and an insert |
| members and ownership (`routers/{members,projects,groups}.py`, `services/{project_ownership,user_lifecycle,permissions}.py`) | `project_members`, groups, grants | add, change, remove, transfer, archive, delete a user | a project keeps an owner, what is listed opens | several APIs change roles, each with its own checks |
| sessions and passwords (`routers/auth.py`, `auth/`, `services/password_reset.py`) | password, counters, locks, reset tokens | log in, change, reset, expire | an old password opens nothing, a link works once, failures count | counters are read, changed and written back |
| API tokens, public links (`routers/tokens.py`, `services/{token_purge,public_reports}.py`) | `api_tokens`, `public_reports` | create, rotate, revoke, purge, use, view | what was revoked stays revoked | use and view write to the row they read earlier |
| suites, cases, plans (`routers/{suites,cases,testplans}.py`) | tree of suites, cases, steps, revisions | create, edit, move, reorder, archive, copy, delete | the tree stays a tree, revisions tell the definitions | concurrent moves; snapshots of what is loaded |
| custom fields (`routers/custom_fields.py`, `services/custom_fields.py`) | definitions, values in JSON columns | define, change options and defaults, delete, set | rows hold values their definitions allow | the definition changes under the values |
| environments and versions (`routers/{environments,versions}.py`) | `project_environments`, slugs in executions | create, rename, archive, make default, delete | one default, slugs resolve | executions name them by slug, without a foreign key |
| attachments, backup (`services/{attachment_files,backup,restore}.py`) | rows and files | upload, delete, back up, restore | a row has its file, a file its row | two stores and no common commit |
| schema (`alembic/versions`, `models/`) | the database | upgrade, downgrade | each revision runs on real rows, a downgrade undoes it, the head is what the models declare | tests run on `create_all`, migrations on empty databases |
| SDK and CLI, exports, mail, settings, pages | | | | thin or textual (section 7) |

### 1.3 How they interact

A result handler commits, then calls `execution_events`, which broadcasts on
`execution:{id}` and `project:{id}` (realtime, backplane, live pages), queues
webhooks and notifications, and hands log lines to the log flusher. The listener
drives the result handlers over HTTP, one call per started and ended keyword.
Bugs are created from results and pushed to external trackers; what happens to
them goes through `bug_events` to watchers. Every table is the product of the
revisions of `alembic`, which the container runs before the server starts.

## 2. Plan

Done, in this order:

1. `ExecutionLifecycle`, proofs in `ExecutionLifecycleProofs`.
2. `LogStream` (abstract), `LogFlusher`, proofs in `LogFlusherProofs`; `StepLog`
   composes the flusher with the handler that feeds it.
3. `ConnectionManager`, `Backplane`, `TopicSocket`, proofs in `ConnectionManagerProofs`.
4. `WebhookDispatch`, proofs in `WebhookDispatchProofs`.
5. `RobotListener` over `CircuitBreaker`, proofs in `RobotListenerProofs`.
6. `BugTracker`, `BugReports`, `BugLinks`, `ExternalTickets`, `BugNotifications`, proofs in
   `BugsProofs`.
7. `ProjectAccess`, `Credentials`, `ApiTokens`, `PublicLinks`, proofs in `AccessProofs`.
8. `SuiteTree`, `CaseHistory`, `CustomFields`, `Environments`, `AttachmentFiles`, proofs in
   `CatalogProofs`.
9. `ResultImports`, `ProjectPages`, `ExecutionReport`.
10. `AlembicVersions`, `Migrations`.

## 3. Modules

One module models one component; `MC...` modules name the values of its
constants for TLC, `...Proofs` modules hold its theorems. Operators marked
"Mutant" in a comment are wrong variants of the definition that follows them.
No specification uses them; they are there to show that the properties would
catch such a bug.

Components that share no rows are checked in one run: the MC module instantiates
each of them, and a variable `part` says which one a behaviour is of; the others
stay as they start. So `MCAccess` is four machines side by side, not their product, and the
runs `bugs` and `tracker` are two instances of `MCBugs` for three of its six machines each.
`MCOutgoing` is two machines of the tasks behind responses, `StepLog` and `WebhookDispatch`.

In the modules of HTTP handlers, `req[w]` is what a worker has read, or is about to
write; a handler is two or more actions, cut where it commits, calls out, or
writes what it decided on what it read. `serial`, chosen at the start, says that
requests are served one at a time; properties that hold only then say so, and the
comment of the property or section 4 tells what overlapping requests break. Variables
marked "history" are not in the program: they record that an excused case has
happened, so that the property can be stated for all others.

### 3.1 ExecutionLifecycle

One execution, its result rows and step-result rows, and a pool of workers that
each serve one request at a time.

| Model | Code |
|---|---|
| `exec`, `result`, `stepResult` | committed columns `status` of the three tables; rows are primary keys with a fixed case (or result and step), as those columns are never written |
| `req[w]` | a handler between its load and its answer: the status it loaded, and its pending UPDATEs and INSERTs (its "patch"); `Keep` is a column that is not dirty |
| `lock` | the PostgreSQL row lock of the execution, held from `db.flush()` to the commit |
| `announced`, `reported` | whether the webhook of the present status, of the present failure, has been fired |
| `Load...` | one action per handler, with its checks and everything it changes in memory |
| `CommitResults`, `NotifyResults` | commit and event dispatch of the result handlers |
| `Flush`, `CommitStatus`, `Announce` | `update_execution` and `reopen_execution`; `CommitStatus` is the commit inside `_block_running_artefacts` when the change is a completion |
| `Delete`, `Die` | `delete_execution`; a handler that fails at any point |

The session writes only what differs from what it loaded (SQLAlchemy's unit of
work), so an overlapping commit to another column survives and one to the same
column is lost. A load is one step although it is several queries, and so is a
commit; interleavings between two queries of one load are not modelled. A bulk body may
name a case twice (`earlier`): each item is flushed in a savepoint of its own, so the second
finds what the first wrote (`Before`), is written over it (`BulkPatch`), and the case is
reported if either made it fail (`BulkFails`). A third item of the same case is left out.

### 3.2 LogFlusher, LogStream, StepLog

`LogFlusher` is the buffer of one worker. `tasks` are the coroutines handed to the
event loop, `buffer` and `pending` are `_buffers` and `_pending`, `sent` is what
was handed to `manager.broadcast`. Neither of the two locks is held across an
await, so an append up to its broadcast, and a drain up to its broadcast, are one
step each. The interval is abstracted to zero or positive; a negative or missing
one is replaced by the default, which is positive. A broadcast may raise when
`CanFail` (Redis); what was popped is then gone.

`LogStream` says what that is for: a line accepted leaves once, in some hand-off,
and does so in the end. `StepLog` adds the HTTP handler: `column` is `log_output`
of a step result, `loaded` what a handler read of it, and the handler's last act
is `ScheduleAppend` of the flusher.

### 3.3 ConnectionManager, Backplane, TopicSocket

The registry of one worker. `byTopic` and `wsTopics` are the two indexes (an empty bucket and a
missing one are the same). `link[ws]` is the state of the network connection and `endpoint[ws]`
that of the coroutine `ws_endpoint`, which learns later that the link broke, and may until then
still handle messages the client had sent; it ends then, or with an exception while the client is
there, whose connection the server then closes (`EndpointEnds`). `cast[c]` is one call of
`deliver_local`: the sockets it copied and has not sent to, and those whose send raised. Each
`Send` is a step, because `send_json` is awaited outside the lock. `told`, `acks`, `owed` and
`got` are history for the properties. The legacy `connect` and `disconnect`, the check of topics
and heartbeats are left out; the branch to Redis is in `Backplane`. A send raises only when the
client has gone: payloads that cannot be serialised are excluded.

`Backplane` has several processes. `place[p]` is where the lifespan is, `consumer[p]`
the task `_consume`, `inbox[p]` what its subscription holds, `tasks[p]` the broadcasts
scheduled and not begun, `log` the messages in Redis's order. `Broadcast` goes to
Redis or to the own sockets, as `get_backplane()` says; `Stop` is the end of the
lifespan, from `set_backplane(None)` to the cancelled consumer, which no other task
comes between. External: a connection that is lost (`Disconnect`: redis-py subscribes
again or raises), a publish that fails or is carried out twice, a process that
ends. What a process does with a message is `ConnectionManager`.

`TopicSocket` is the hook `useTopicSocket`. Its effect runs again when the topics, the
token or `enabled` change; each run has its socket, timer and watchdog (`socket[e]`,
`timer[e]`, `watchdog[e]`), and shares `connected` and `topicsRef` with the others. The
cleanup is part of `Run` and `Unmount`. A ping arms a watchdog that runs already, so it
changes nothing; the delays of `nextBackoff` are not told apart. Browsers deliver no
message to a socket that is closing.

### 3.4 WebhookDispatch

A delivery is a pair of a response that fired an event and a webhook. `task` is where its
background task is, `attempt` its loop counter, `row` its row in `webhook_deliveries`, `received`
the answers its attempts got. A task is cut at each commit, call and query: `LoadWebhook`,
`InsertDelivery`, `Reload` (the commit expires both rows, and the loop needs the webhook's URL),
the attempts, `LoadRow`, `CommitOutcome`. Starlette awaits the background tasks of a response one
after another (`IsNext`), and an exception in one ends it and loses those behind it (`Raise`): a
webhook deleted before the insert or the reload, a host that the resolver cannot encode
(`PostRaises`), a row deleted before its last commit or an excerpt with a NUL byte
(`CommitFails`). `HookSet` are the webhooks of the project, `Hooks` the order in which the query
lists them. Status codes are abstracted to 2xx, other codes below 500, and 5xx. A webhook may be
paused, resumed and deleted at any time; the cascade of the deletion removes its rows. A restart
loses the tasks. Redelivery by hand, which the manual mentions, has no code.

### 3.5 RobotListener, CircuitBreaker

Robot runs a fixed script of events (`Script`) and swallows what the listener raises.
`Place[at]` says where in the run Robot is before event `at`: in which suites, in which
test, and in which item of it at which depth. `ScriptAssumption` and `NamesAssumption`
say what a run of Robot is: it begins with a suite, tests are in a suite and run once,
items are in tests and nest, lines are logged within items, and a test ends after its
items. TLC evaluates them for the script of the run.
`pc` is the call a handler is in; the layers of the HTTP adapter are those of
`CircuitBreaker`: a call of the SDK is one request, and a login and a repetition if
the session has expired; `failures`, `cooling` are the state of the breaker.
Its `Outcomes` are 2xx, 4xx, 5xx and no answer. `stack`, `test`, `step`, `depth` and
`streaming` are the attributes of the listener; `case`, `home` and `row` is what the
server has made of the calls that took effect, `row[t][i]` with the lines of its log.
A case is, of its test: none, active and with its external id, one to be put right (archived,
or without the id), or `foreign`, one that has the test's name and is found only by it. Before
the listener creates a case, another run may create it, or anyone one of its name
(`OtherCreatesCase`); when the creation is refused, `FindCreatedCase` looks by
external id, then by name, archived or not, and takes what it finds as it is.
`end_suite` of the root closes the run; its artefacts and console output are left out.

### 3.6 Bugs: BugTracker, BugReports, BugLinks, ExternalTickets, BugNotifications

`BugTracker`: rows of one project. Creation is `BeginCreate`, `InsertEnvironment` (the
catalogue row the creation may add, in its own transaction), `TakeNumber` (MAX + 1), `Insert` (the
unique index waits, or refuses: the whole transaction is rolled back, the catalogue row with it,
and the next attempt does not insert that row again; a row the bug refers to may be missing as
well, `sound`), `CommitCreate`. `EditCatalog` is every other request that adds, renames or
takes out a row of the catalogue; an edit compares `previous_values`
with the row it loaded and commits before it logs (`CommitUpdate`, `Reload`,
`RecordChange`), a change of status is one commit. Titles stand for all edited columns.

`BugReports` are operators over one state of the tables: which bugs the report and the
release notes show and in which section, and what mention tokens resolve to and the
searches offer, for a bug that refers to versions, a case, an execution, users.
Actions are the requests that change what they read. All are served alone, as each
report is read in queries that the properties do not tell apart.

`BugLinks`: `AddLink` inserts both rows in one commit; `delete_link` looks its mirror up by kind
and ends and deletes what it found later. `ExternalTickets`: `ticket` is the remote tracker; a
push and a sync are a call to it and a commit, between which everything may happen.
`BugNotifications`: each handler commits its change, then notifies users, a set and so in any
order, one query and one insert for each. The first preference of a user and event is a row with a
unique key: a handler that meets another's uncommitted one waits, and is refused if that is
committed (`Refused`) or two wait for each other (`Deadlocked`), and goes on if it is rolled back
(`Released`). `window` counts how often the time of a duplicate ran out.

### 3.7 Access: ProjectAccess, Credentials, ApiTokens, PublicLinks

`ProjectAccess`: one project, its members, one group with a grant, accounts, and every request
that changes them: members API, group API, transfer, archival, deletion of a user with its plan of
transfers and archivals. `effective_role`, `Accessible`, `Owners`, `UniquelyOwns` are the queries
of `services/permissions.py`, `project_ownership.py` and `user_lifecycle.py`; for a user with two
rows, which overlapping additions make, `effective_role` is an error, as `scalar()` raises.
`Credentials`: one user and one address; passwords and readings of the clock are numbered; a login
is cut at each commit of a counter. The throttle of addresses is a store that may be off, may not
record or not clear, and may forget its counter at any time (`IpForgotten`); a password and the
unlocking it brings are one commit when an administrator issues it. `ApiTokens`: tokens of a user
and of a project, and the purge script as one of the workers. `PublicLinks`: a view reads the
link, renders, and counts itself on what it read.

### 3.8 Catalogue: SuiteTree, CaseHistory, CustomFields, Environments, AttachmentFiles

`SuiteTree`: rows with a parent, an order and a name; each request reads the tree and writes it in
one commit, and foreign keys act at the commit. `CaseHistory` and `CustomFields` have one action
per request, served alone: what is checked is that each request leaves revisions, plans and values
right, whatever came before. `Environments`: the catalogue, the default and the executions that
name a slug, with overlapping requests, and one version. Custom fields of a case are in no
snapshot, so `CaseHistory` does not have them. `dialect` of `CustomFields` says which database it
is: a definition can be deleted on SQLite only (section 4.3). `AttachmentFiles`: `rows` and
`disk`; an upload writes, then commits; a deletion commits, then removes; backup and restore are
cut where the dump ends and the copying begins.

### 3.9 ResultImports, ProjectPages, ExecutionReport

`ResultImports`: creation, rerun, the entries of a file matched to rows by external id and name,
the commit, and the report of new failures. `ProjectPages`: cards, summaries and cells as
operators, each checked against a definition of what it should say over the rows; the newest
executions of a page are a set. `ExecutionReport`: `Load` reads rows, cases and their suites,
`Render` the other suites and climbs to the roots; between them, moves may commit, and the suites
that `Load` has read are not read again (the session's identity map). `Climb` is the least set
that has a suite and the parent of each of its suites; it ends if it has the root.

### 3.10 AlembicVersions, Migrations

A database is a record of sets of facts (`AlembicVersions`): columns, those that are optional,
timestamps without a zone, references, unique keys, indexes; and about its rows, which tables have
some, which columns are NULL in some, and which sets of columns agree in two. An operation of
alembic changes facts, and fails on facts PostgreSQL would refuse it for. The same module has the
operations of every revision, up and down, in their order, and ends with what the classes of
`models/` declare. `Migrations` applies revisions to a database while the application writes rows
in between; a run that fails leaves the database as it was, since `env.py` runs each in a
transaction. Types of columns other than timestamps, lengths but one, and values of rows are left
out.

## 4. Runs

### 4.1 What is checked

| Run | Machines | Instance | Shows |
|---|---|---|---|
| `executions` | `ExecutionLifecycle`, `ResultImports`, `ProjectPages`, `ExecutionReport` | one worker and one case with two rows and two step rows, handlers die; 2 workers importing and rerunning 2 executions of 2 cases, 3 requests; 4 requests before a page; 3 suites, 2 requests during a report | one row per case, completions sweep, closed executions stay; imports and reruns lose no case and no failure; pages and report agree with the rows |
| `exec_concurrent` | `ExecutionLifecycle` | 2 workers, 1 result with 1 step, clients send passed and failed, fairness | overlapping handlers: completions announced, failures reported, a closed execution frozen once the requests that saw it open are gone; every request answered |
| `outgoing` | `StepLog`, `LogFlusher`, `LogStream`, `WebhookDispatch` | 1 client, 2 lines of one step, 1 of another, the interval changes, broadcasts fail, executions close; 1 response, 2 webhooks, pause, delete, exceptions, restart; fairness | lines leave in order while the interval is left alone, the live log is a prefix of the stored log, an acknowledged line is broadcast unless that fails; refinement of `LogStream` with its fairness. The row tells what the receiver saw; only failures are retried, within the budget; what was started, or queued, is recorded but for an exception, a deletion or a restart |
| `ws_registry` | `ConnectionManager`, `Backplane`, `TopicSocket` | 2 sockets, 2 topics, 2 broadcasts; 2 processes, 2 broadcasts, 1 loss; 3 runs of the effect | indexes mirror each other, no leak, no live subscriber dropped or left out; processes agree and serve their own; a page keeps one socket going |
| `listener` | `RobotListener`, `CircuitBreaker` | a script of two tests in nested suites, breaker of 2 failures, any outcome of any call | the wait is bounded, no finished step is forgotten, results are those of the run and in their place |
| `bugs` | `BugTracker`, `BugReports`, `Migrations` | 2 workers, 4 requests, 2 attempts at a number, 3 bugs; 2 bugs, 2 versions and a foreign one; all revisions | numbers, status and activity agree; reports place each bug once; revisions go up and down on rows |
| `tracker` | `BugLinks`, `ExternalTickets`, `BugNotifications` | 2 workers each; 3 bugs, 4 rows; 2 tickets, 2 moves; 3 users of which 2 members, 3 requests | links and mirrors, tickets and links, watchers and notifications |
| `access` | `ProjectAccess`, `Credentials`, `ApiTokens`, `PublicLinks` | 2 workers, 4 requests; 3 users of which 1 admin; 2 failures to a lock; 2 names; 2 links | who gets in, and who is kept out for good |
| `catalog` | `SuiteTree`, `CaseHistory`, `CustomFields`, `Environments`, `AttachmentFiles` | 3 suites and requests; 2 cases of 2 steps; 2 options, 2 rows, either database; 3 environments; 2 owners, 2 files, 5 requests | each against the operations that could leave it inconsistent |
| `exec_abort_silent` | `ExecutionLifecycle` | 1 worker, 1 result | a finding: an abort fires no webhook |
| `coverage_in_flight` | `ProjectPages` | the pages of `executions` | a finding: cells show runs that are not completed |
| `link_of_deleted_version` | `PublicLinks` | the links of `access` | a finding: a link of a deleted version shows the bugs of all |

Why these bounds are enough for the cases of interest: a race on a row needs two
writers, and a writer's load, commit and notification already interleave with
those of the other in every order; the third to fifth request lets an earlier
one prepare the state (a lock, a rotated token, a revision) and a later one see what
the race left. Two rows of one case are what an upsert gone wrong can make. Two lines
suffice to reorder, and the third comes while the first two wait in the buffer. Two
sockets let a dead one stand beside a live one, and two topics let the removal from
one matter to the other. Two webhooks let one delivery stand in the way of another;
deliveries of different responses share nothing but the webhook. Three suites make
a cycle of moves and a subtree below it. Two messages suffice for two processes to
disagree on an order. Three runs of the effect let the first socket close while
the third opens. The listener's script has a test with an item inside a step, and
one without steps in the next suite, below a root and a directory.
`RETRY_DELAYS_SECONDS` has its value from the code; `Retries` is 2 instead of 5, the
breaker trips at 2 failures and the lock comes at 2, to reach them early. Every bound
is a constant marked "bound", or `Max...`, in its module.

Deadlock is not checked where the system may stop: all requests answered and no more
to come, all lines sent, all clients gone. `listener` checks it: the run of Robot
always gets to its end, where it stutters.

### 4.2 Noticed while modelling

The findings in `PROJECT.json` are `exec_abort_silent`, `coverage_in_flight` and
`link_of_deleted_version`. The following came up as well; where a property excuses a case, it is one
of these or of section 4.3.

Executions. A result handler commits after a close it did not see; two overlapping
upserts of a case insert two rows;
two overlapping log requests of a step lose a line. `PUT /executions/{id}` writes
in_progress over a closed status for every writer, although `crud.py:75` restricts
reopening. A handler that dies after the commit inside `_block_running_artefacts` leaves
a completion nobody announces (`exec_concurrent` and its theorem assume that handlers
do not die), although `execution_events.py:12` says that the module never commits.
`execution.updated` is broadcast before the sweep, and swept, bulk-updated and imported
rows are not broadcast at all. `create_execution` accepts a case twice, and cases of
other projects. An entry list may name a result failed twice; overlapping Robot
imports add two rows for a step.

Pages and reports. The matrix shows archived versions and deleted cases. `executed_at` comes from
the client or stays as it was, so a cell may show an older row. A report whose rows are all
not_run or running has a green header. A report made during two moves of suites may climb for
ever. The export of cases has those of root suites only.

Realtime. A consumer that ends with an error leaves `enabled` true: broadcasts go to
Redis, and even the sockets of the process get none. Messages are lost while a
subscription is made again; a publish that is tried again may show a message twice;
concurrent publishes may change places. `send_json` has no timeout. A live page does not
fetch again when it reconnects, so what it missed stays missing; an event between the
snapshot of a fetch and its answer is undone by the answer; a log line that a fetched row
has already is shown twice. When the topics of a page change, the late close of the
old socket turns the indicator off although the new one is open.

Webhooks. A webhook deleted between load and insert, or before its reload, takes the
response's next deliveries with it. So does an exception that `_run_dispatch` does not name, a
`UnicodeError` of the resolver, or the commit of an excerpt with a NUL byte; either leaves its own
row open for ever, as nothing looks for open rows.

Listener. After a 5xx streaming stays on, so a step whose result could not be sent is
never sent again. 4xx and 5xx escape `start_suite`, and `end_suite` then pops the
parent, so that what follows lands in other suites. A case that was found by its name
alone, after a refused creation, is neither given the external id nor unarchived.

Bugs. The number of the newest bug is given again once it is deleted. A conflict on a
number rolls the catalogue row of the environment back with it. Under overlap,
resolved_at and status may disagree, and an edit may be lost. `fixed_in_version_id` is
not validated; a reopened bug keeps it. The mention search leaves out admins and
group members, who resolve; results of deleted cases resolve and are not found.
Overlapping deletions of a pair linked twice leave one side. A push normalises the
status without the mapping that a sync uses. The watcher of a bug who mutes mentions
is not told of a comment that mentions them; former members are still told;
two first preferences at once fail with the push already out.
`services/bug_events.py` says it never commits, and does.

Access. The members API removes or demotes the last owner of a project without a check; a deleted
user can be added; a former owner gets the role "editor", which is none of `VALID_ROLES`;
`project_members` has no unique constraint; group memberships survive the deletion of a user. A
user with two rows is shown a project whose pages are errors. An unarchival does not ask for an
owner. A login that verified the old password before a change issues a token that is accepted
after it. The PUT of an admin that sets a password leaves reset links live; overlapping
confirmations use a link twice. The last use of a token, recorded after a rotation, marks a secret
nobody has used. Overlapping views of a public link lose counts. A failure of the throttle store
is logged and counts no login.

Catalogue. Overlapping moves make a cycle, on which `_collect_subtree_suite_ids` does not
end; no suite can be moved to the root; a suite moved out of a subtree that is
being deleted goes with it. The revision of a copied case has no steps; an update
moves a case to a suite of any project; a plan accepts cases of any. Orders collide
after a deletion. A default of a custom field is not validated when it is sent
without options; a copy across projects brings foreign values. An archived
environment can be made the default; overlapping requests make two. A version is resolved with
`ilike`, for which `_` and `%` are wildcards. Files are orphaned if the commit fails, the
process ends, or an owner goes by cascade; a restore removes what was uploaded meanwhile.
Two attachments of one owner with one filename share a path in the archive of an export.

Schema. Nine columns stay `timestamp without time zone` after `80b02498ca2d`
(`version_attachments.uploaded_at`, and the stamps of `project_integrations`,
`integration_credentials` and `bug_external_links`), although `models/_types.py` says that
PostgreSQL stores them with one. `a8c41f9e3b27` copies addresses of up to 512 characters into
`external_id`, which has 128: an upgrade fails on a longer one. The revisions that make names
unique append `#id`, which may be taken, or too long. The index `(bug_id, changed_at)` of
`bug_activity` is not in the models. Relationships of `User` would set required columns to NULL if
a user were deleted; users never are. Some downgrades lose data: they restore columns, not what
was in them.

### 4.3 Where the manual says otherwise

The models follow the code. These sentences of `docs/manual` do not, and a property that
passes here says what the code does, not what they say.

| Line | The manual | The code | Where it shows |
|---|---|---|---|
| `webhooks.md:24` | an aborted execution fires `execution.aborted` | it fires nothing | finding `exec_abort_silent` |
| `versions-environments-coverage.md:62` | cells show completed runs | they show the latest row of any run | finding `coverage_in_flight` |
| `public-reports.md:31` | a token is scoped to one resource | a link of a deleted version shows the bugs of all versions | finding `link_of_deleted_version` |
| `webhooks.md:60` | a non-2xx answer is retried | only a 5xx or no answer is (`webhook_dispatch.py:111-126`) | `OnlyFailuresRetried` |
| `webhooks.md:70` | five retries, up to six hours apart | three, within about a minute (`webhook_dispatch.py:35`) | `MaxAttempts` |
| `versions-environments-coverage.md:23` | a version in use cannot be deleted | it can; references are cleared | `DeleteVersion`, `ReportsAgree`, `PagesAgree` |
| `mentions.md:25` | a deactivated user is plain text | it resolves | `SearchMatchesResolution` |
| `mentions.md:34` | the search offers members and admins | it offers direct members only | `SearchMatchesResolution` |
| `public-reports.md:64` | views are not counted | they are | `ViewsAreCounted` |
| `public-reports.md:32`, `:57` | a revoked link answers 410; testers create links | 404; owners do | `PublicLinks` |
| `members-and-tokens.md:8`, `:25` | a role is `editor` | the API has no such role; a transfer gives it to the former owner, and no check knows it | `ShownIsOpen` |
| `members-and-tokens.md:27` | removing the last owner forces a successor | the members API removes it | `OwnerRemains` |
| `custom-fields.md:32` | a required field always has a value, and a default | an update that does not send `required` may clear the default (`custom_fields.py:171`), and a null takes the value away (`services/custom_fields.py:28-30`) | `DefaultsHelp` |
| `suites-and-cases.md:67` | every meaningful change of a case is a revision | custom fields are in none | `CaseHistory` |
| `robot-listener.md:61`, `:65` | suites are mirrored; tag `id:` is the external id | not after a failed `start_suite`; the listener's id is the path and name | `TestsInTheirSuite` |
| `executions.md:9`, `:83` | one row per case; a summary per suite | not if upserts overlap; none is exported | `ImportsAgree` |
| `notifications.md:22` | an aborted run notifies | only a completed one does | not modelled |

On PostgreSQL no custom field can be deleted: `custom_fields.py:368` uses the operator `?`, which
columns of type JSON do not have. The tests run on SQLite.

## 5. Fairness

- `ExecutionLifecycle`: strong fairness of `Proceed(w)`. A thread runs on until it
  has answered, but its commit or flush can be disabled again and again while
  others take the row lock; PostgreSQL queues those that wait for a row, so one
  that waits is served. Handlers do not die under `FairSpec`. Clients owe nothing: no
  fairness of `Load` or `Delete`.
- `LogFlusher`, `StepLog`: weak fairness of the tasks of the loop, of timers, and of a
  handler past its load. Handlers that have not been called and `Configure` have
  none.
- `WebhookDispatch`: weak fairness of each delivery's task: attempts have a timeout of
  ten seconds and delays pass.
- All others: none; their properties are safety properties. `send_json` has no
  timeout, so the code does not promise that a broadcast ends while a client
  keeps its connection open without reading.

## 6. Proofs

The theorems hold for any number of workers, rows, lines, sockets, topics, processes, messages,
responses, webhooks, users, tokens, links and requests, for any run of Robot, and for any values
of the bounds: the bounds of section 4 are constants, of which the proofs know that they are
natural numbers, and of `MaxSuites` and `MaxSteps` that they leave room for the two suites and the
one step there are to begin with; that a bug may be created (`BugIds`), and that an insert is
tried at least once (`Retries`). What they assume of constants is in the `ASSUME`s of the modules,
which TLC evaluates on each run: `ConstantsAssumption` (among it,
that clients send statuses of the enumeration), `LinesAssumption`,
`HooksAssumption`, `MaxFailuresAssumption` (the breaker allows a failure), `BoundsAssumption`
(four times), `ThingsAssumption` (there are finitely many cases, versions and rows, and none is
what stands for none), `CatalogBounds`, `AccessAssumption`, `FailuresAssumption` (the lock has a
threshold above 0), `ScriptAssumption` and `NamesAssumption` (section 3.5), and in `MCBugs`
`NobodyAssumption` and `VersionsAssumption` (what stands for nobody, no bug, and no version or
another project's is none of those there are), `TitlesAssumption` (0 is the title a bug is created
with) and `WorkersAssumption` (there are finitely many threads). A theorem with hypotheses of its
own (`ASSUME`, `PROVE`) says so here.

`ExecutionLifecycleProofs`. `TypeOK` is not inductive alone: that a commit keeps types and
obligations depends on what a request in flight remembers of its checks. `RequestsOK` says it: a
result handler loaded an open execution, promotes it at most to in_progress, and has in `fresh`
every row it turns to failed (`WriteOK`); a status change differs from what it loaded and sweeps
only if it completes (`CloseOK`). From it follow `CompletionsAnnounced` and `FailuresReported`,
for handlers that do not die (`~CanFail`), and `ClosedExecutionFreezes`, an action property, with
deaths. `CompletionSweeps` and `ClosedIsReadOnly`, an action property, assume one worker
(`OneAtATime`) and add `Undisturbed`: the patch of an open completion covers all that runs, and
nobody changed the rows since. `UpsertsKeepOneRow`, with one worker, adds that a request about to
write adds a row only where the table has none of its case or step, and adds no other (`Adds`),
and that an open change of status holds the lock and touches rows that are there (`RowsInTurn`).

`MCExecutions` extends `ExecutionLifecycle`, so the properties that the run `executions` checks
with one worker are those of these theorems. The same module proves `ImportsMissNothing` about
`ResultImports`, for any number of workers whose requests overlap. Its invariant, `ImportsInd`,
says what a request in flight still owes: a file that leaves a row failed, though it changed it or
the row was not failed before, will report it (`ImportPending`; `EffectsReport` shows it of the
entries of a file), and a rerun that is not committed takes each case of its source that is still
there, unless it is archived or has passed and only the others are wanted (`RerunPending`).
Archiving, deleting and passing only weaken what is owed (`TablesKept`, `RerunsKept`), which is
why the rerun may choose and commit in two steps. A row that passed is in the history
(`PassesRemembered`), and served one at a time nobody gives a row a step between the read and the
commit of a file (`StepsInTurn`). `ImportsAndUpserts` joins the two into `ImportsAgree`.

About the pages that only read, the same module proves that what they show agrees. `ReportInd` is
about `ExecutionReport`, whose suites move between two reads. The suites are always a forest: no
set of them is a trap, out of which nobody climbs (`Forest`), as a move to what is below a suite
is refused. What a report has loaded is such a forest with one suite elsewhere, as long as at most
one was moved since (`LoadedFrom`), so that what it sees, half loaded and half read anew, is a
forest again (`SeenForest`). `Climb` is the least set that a climb passes; in a forest it ends in
exactly one root (`RootFound`, `OneRoot`), without induction over depth. The counts of the
sections add up to the header as cardinalities of pairs of a section and a row (`PartsAddUp`,
`PageAddsUp`). `ReportsAddUp` follows. `PagesInd` says of the tables of `ProjectPages` that
executions begin one after the other, and that a stamp was given after its execution began: so the
newest are well defined and the row that ran last is of one cell. That finitely many versions can
be listed in order (`SortedFound`) is shown by a least counterexample. `PagesAlwaysAgree` joins
both theorems into `PagesAgree`.

`LogFlusherProofs`. `TimersCover` is inductive with the types. `LinesInOrder` needs
that with a zero interval the buffer is empty, so that a line sent at once
overtakes none; it holds of an execution while the interval is
left alone and no line of it is lost (`Undisturbed`).
`FlusherIsStream` proves `Spec => Stream!Spec` without that proviso; its
invariant is that a line is in one place only (tasks, buffer or sent), once, and
only at its own execution. `LiveLogIsStored` is about the composition with the handlers, with the
proviso of `LinesInOrder`: handlers are served one at a time, and between the
commit of one and its hand-over the stored log has just that line more than was posted
(`StoredIsPosted`); what was sent is the beginning of what was posted by `LinesInOrder`.
Liveness of the stream is left to `outgoing`.

`ConnectionManagerProofs`. One invariant, `Safe`: the two indexes mirror each other, a
socket whose endpoint has ended is in none, sockets a broadcast holds dead have no
link (`DeadAreGone`), clients that are up are registered for what they were told
and are about to be told (`UpIsRegistered`), and whom a broadcast owes its message
has it, is on its list, or has gone (`OwedIsPending`). Four theorems are its
consequences. `LiveUpdatesReach` is about the three machines of `MCConnectionManager`.
For `Backplane` the invariant is `FanOut`: a message is in one place at a time,
scheduled by one process, in the log of Redis, or shown by one process by itself
(`MadeOnce`), and a process that serves has a consumer that was not cancelled
(`ServingListens`); without the first, two processes might show it at different places of
their order. The properties of `TopicSocket` are inductive as they stand.

`WebhookDispatchProofs`. Rows and answers alone do not make `RowTellsOutcome` and
`OnlyFailuresRetried` inductive: `LoopPlace` adds what each place of the task knows
(nothing sent before the loop; in `posting` one answer fewer than the counter, all
of them failures; in `waiting` and `recording` as many as the counter), and `RowIsFinal` that a
row is completed only by a task that is done, so that no attempt follows. One lemma
covers all deliveries a step leaves alone (`Untouched`). The type of `attempt` is
proved with them: that `Retry` stays in the budget is part of `LoopPlace`.

`RobotListenerProofs`. The script is any run of Robot, and `Place` is what carries the induction
along it. `WhereHolds` says that the listener is where Robot is: in the test and item of
`Place[at]`, if it follows the test, and in a call that belongs to the event. Over it,
`SuitesHold`: unless `start_suite` has raised, the stack has, level by level, the suite Robot is
in or none (`ResultsAreInTheirSuite`). `CasesHold`: the case of a test that is followed is its
own, put right, or one of its name (`CasesArePutRight`). `StepsHold`: for each item, the row on
the server, the buffer of the step and what waits for the batch have together the verdict and the
lines Robot gave it, as far as no call about it has failed (`ItemHolds`, `StepHolds`,
`PendingHolds`); `NothingIsForgotten` and `StepsStayFaithful` follow. `WaitHolds`: while the
breaker counts failures, the time waited is at most their number, and nothing was waited once the
cooldown is over. `RunWaitIsBounded` and `AdapterWaitIsBounded` follow, in a run and for adapters
that serve any calls.

`AccessProofs`. A step of `MCAccess` is a step of one of its machines, and all share
`serial` and `requests` (`OneMachine`, `Counted`). `TokensHold` needs that secrets and ids are
numbered within the bound (`CountsHold`, over the cardinality of the requests that will
make one), that a token that was shut has no row and a request can not bring it
back (`RowsHold`, `UsesHold`), and, for `LastUseIsOfSecret`, that served alone what a
request has read of a token is still so (`OneUse`). `LinksHold` likewise: what a request has
read of a link agrees with what it was issued for, except a version that has been
deleted (`RowHolds`, `PageHolds`), and the views of a row are at most the pages shown,
exactly as many when served alone. `AccessHolds`: a request that is served alone adds
rows for users who have none, and what it is about to write leaves an active project with
an owner, unless it is of the members API (`AloneHolds`). `CredentialsHold`: a request
carries the password and the counters it read, which are the present ones when it is served
alone (`TryHolds`, `Current`); what is still to be spent on readings of the clock, failures
and links is counted by the cardinality of the requests that will spend it
(`BudgetsHold`); links are numbered as they are made and a link that was confirmed is
used (`ResetsHold`). That a lock is a legal number of minutes needs 2^n to be a natural:
it is the number of subsets of `1 .. n` (`PowerOfTwo`), as no induction is at hand.
`OldPasswordsOpenNothing` follows.

`CatalogProofs`. `FilesInd`: a file is needed while a row, an upload before its commit or
a dump names it (`Needed`), and it is then on disk, or among those that a restore will
copy, unless it was torn (`FilesKept`); files that a handler is about to give a row, or
to remove, have none (`FilesApart`); and what a handler that is served alone has still to
do (`AloneHolds`). `RowsKeepTheirFiles` follows. The proof showed that what a dump has in
hand is torn when a restore dies, which the run, with its two workers, had not met: it
takes a third to delete in between. `FieldsInd`: a default is a value that a row may get, so its
options are of the field too, or were not checked; `RowsKeepTheirOptions` follows.
`EnvironmentsInd`: a slug or an id that a worker has taken is free until it commits
(`Reserved`); who chooses the default is alone and will clear the row that has it
(`DefaultsHold`); a slug that executions name has a row that no request is about to take
away (`NamesHold`); `NamesKeepTheirEnvironment` follows. `SuitesInd`: `Subtree` is the
least set with a suite and the children of its members, so that what is below a suite is
bounded by any such set and no induction over depth is needed; a move that was decided, and
that none has overtaken, still goes to a suite that is not below the one that moves
(`MovesHold`), and the name that a request served alone will write is still free
(`OneWrites`). `CasesInd` says what rows and revisions are made of: each case has a
revision, whatever handler made it, and fewer cases than numbers leave a copy a number
(`NumberFree`, by the pigeonhole). `TreesAndHistoriesHold` follows from both.

`BugsProofs`. `LinksInd`: served one at a time, a deletion holds a row and its mirror, or a row
whose target has gone (`TakesPair`), and rows and mirrors stay as many (`CountsAgree`);
overlapping requests keep rows and mirrors paired while no triple was inserted twice
(`EachMirrored`, `OneRowEach`), as a deletion then takes both (`TakesBoth`). `TicketsInd`: a
ticket that a worker is about to store is its own and has no link (`StoresInHand`,
`StoresApart`), and what a sync has read is not older than the link unless syncs overlap
(`SyncsApart`); `LinksAndTicketsAgree` and `HistoryIsKept` follow. `NotesInd` says what the hands of
each worker hold: whom it still owes, and that they are on its list, have been told, or are in
what it has pending (`HandOwes`); that nothing pending is known already (`HandTellsOnce`), which
two workers may break only by a race that is recorded (`Apart`, `OneOrRaced`).

`BugsInd` counts: no number is above that of the creations that have ended (`NumbersCounted`), so
that the next one exists within the bound whatever has been deleted, and a creation has lost a
number to another for each attempt it has made, and one more if its number has been taken
meanwhile (`ServiceHolds`); it gives up only when it is crowded out or a row it refers to is gone.
Two inserts that have not committed have different numbers (`ServicesApart`), by the wait of the
unique index. The log tells the status by its last row that changes it, even when the change
compared with a row that was stale (`StatusesLogged`). A title that is not logged yet is about to
be, by an edit that will find it, or that has read it back (`WillLog`); served one at a time every
edit that is still to be logged started where the log ends (`WillChain`). `BugsKeepTheirLog`
follows. `ReportsInd` says that a bug names versions that there are, of this project or another,
or none, and that one that was resolved without a version is excused (`UnassignedIsExplained`).
That a bug is once in a report is the cardinality of the sections it is in, which is one as a
section is of one severity or version (`OneSeverity`, `OneVersion`); `ReportsPlaceEachBug`
follows.

Only model-checked:

- all liveness properties (`RequestsAnswered`, `CompletionEventuallyAnnounced`,
  `StreamSpec`'s fairness, `AnsweredIsSent`, `StartedIsRecorded`, `QueuedIsRecorded`),
  as the prover does not handle fairness;
- `SchemaHolds`: a finite chain of revisions that TLC runs through entirely.

## 7. Not modelled

`PROJECT.json` lists every part with its reason. In short:

- the SDK and the CLI are thin wrappers of the HTTP API, which the listener drives with
  state of its own; the close of its run with log files is left out;
- the patches that live pages apply to their query cache: a fetch and a broadcast are
  not ordered, so the code promises nothing of them but what the next fetch brings;
- exports, mail, settings and the React components format what was read once;
- in the modelled parts: titles, descriptions, comments, assignees and mails of an
  execution, labels and custom fields of a bug, credentials of an integration,
  signatures and URLs of webhooks, cryptography, comments on cases, the reordering of
  environments, and the parsing of files, as no property depends on them. `PROJECT.json`
  says "partly" where an operation that changes state is left out.
