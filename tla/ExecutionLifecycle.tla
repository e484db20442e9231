------------------------ MODULE ExecutionLifecycle ------------------------
(***************************************************************************)
(* One test execution of the backend, its result rows and step-result      *)
(* rows, and the HTTP handlers that read and write them concurrently       *)
(* (routers/executions/crud.py, routers/executions/results.py and          *)
(* services/execution_events.py).                                          *)
(*                                                                         *)
(* Every handler runs in a thread of its own with a database session of    *)
(* its own.  It loads rows, checks them, changes them in memory, commits,  *)
(* and then publishes events.  Nothing is locked between the load and the  *)
(* commit (READ COMMITTED, no SELECT ... FOR UPDATE), so a handler is      *)
(* three steps here: a Load..., a commit, and a notification.  The session *)
(* emits UPDATEs only for the columns whose value differs from the one it  *)
(* loaded; the pending UPDATEs and INSERTs of a request are its "patch".   *)
(***************************************************************************)
EXTENDS Naturals, FiniteSets

CONSTANTS
  Workers,     \* the threads of the pool; each serves one request at a time
  MayReopen,   \* the workers whose request comes from an admin, an owner of
               \* the project or the creator of the execution
  Cases,       \* test cases of the project
  Steps,       \* steps of a test case
  Rows,        \* primary keys of test_results
  StepRows,    \* primary keys of test_step_results
  CaseOf,      \* CaseOf[r]: the case of result row r (a column never written)
  RowOf,       \* RowOf[x]: the result row step-result row x belongs to
  StepOf,      \* StepOf[x]: the step of step-result row x
  StatusArgs,  \* statuses clients send for results and steps
  CanFail      \* TRUE: a handler may die (error, lost connection, restart)

Statuses == {"not_run", "running", "passed", "failed", "blocked"}
ExecutionStatuses == {"pending", "in_progress", "completed", "aborted"}
Terminal == {"completed", "aborted"}

Absent == "absent"    \* no such row
Deleted == "deleted"  \* the execution row is gone
Keep == "keep"        \* a column the session does not write
NoOne == "no_one"     \* nobody holds the lock of the execution row

ASSUME ConstantsAssumption ==
  /\ MayReopen \subseteq Workers
  /\ NoOne \notin Workers
  /\ CaseOf \in [Rows -> Cases]
  /\ RowOf \in [StepRows -> Rows]
  /\ StepOf \in [StepRows -> Steps]
  /\ StatusArgs \subseteq Statuses
  /\ CanFail \in BOOLEAN

VARIABLES
  exec,        \* committed status of the execution, or Deleted
  result,      \* result[r]: committed status of result row r, or Absent
  stepResult,  \* stepResult[x]: committed status of step-result row x
  req,         \* req[w]: the request worker w serves
  lock,        \* the worker with an uncommitted UPDATE of the execution row
  announced,   \* lifecycle webhook fired since the status last changed
  reported     \* reported[r]: test_result.failed fired since r became failed

vars == <<exec, result, stepResult, req, lock, announced, reported>>

(***************************************************************************)
(* Requests.  pc is where the handler is:                                  *)
(*   "write"    result handler, loaded and checked, not committed          *)
(*   "notify"   result handler, committed, events not sent                 *)
(*   "flush"    status change loaded, UPDATE not sent                      *)
(*   "close"    UPDATE of the status sent, transaction open                *)
(*   "announce" completion committed, mails and webhooks not sent          *)
(***************************************************************************)
Request ==
  [pc: {"idle", "write", "notify", "flush", "close", "announce"},
   seen: ExecutionStatuses,                  \* the execution status it loaded
   to: ExecutionStatuses,                    \* the status it writes, if another
   result: [Rows -> Statuses \cup {Keep}],   \* its patch of the result rows
   step: [StepRows -> Statuses \cup {Keep}], \* its patch of the step-result rows
   fresh: SUBSET Rows]                       \* rows it may report as failed

NoResults == [r \in Rows |-> Keep]
NoSteps == [x \in StepRows |-> Keep]

Idle == [pc |-> "idle", seen |-> "pending", to |-> "pending",
         result |-> NoResults, step |-> NoSteps, fresh |-> {}]

TypeOK ==
  /\ exec \in ExecutionStatuses \cup {Deleted}
  /\ result \in [Rows -> Statuses \cup {Absent}]
  /\ stepResult \in [StepRows -> Statuses \cup {Absent}]
  /\ req \in [Workers -> Request]
  /\ lock \in Workers \cup {NoOne}
  /\ announced \in {"none", "completed", "aborted"}
  /\ reported \in [Rows -> BOOLEAN]

(***************************************************************************)
(* create_execution inserts one not_run row for each case of the plan.     *)
(***************************************************************************)
Init ==
  /\ exec = "pending"
  /\ \E R \in SUBSET Rows :
       /\ \A r, s \in R : CaseOf[r] = CaseOf[s] => r = s
       /\ result = [r \in Rows |-> IF r \in R THEN "not_run" ELSE Absent]
  /\ stepResult = [x \in StepRows |-> Absent]
  /\ req = [w \in Workers |-> Idle]
  /\ lock = NoOne
  /\ announced = "none"
  /\ reported = [r \in Rows |-> FALSE]

-----------------------------------------------------------------------------
(* What a session reads and writes.                                        *)

\* SQLAlchemy: an attribute set to the value it was loaded with is not dirty.
Dirty(loaded, value) == IF value = loaded THEN Keep ELSE value

Applied(table, patch) ==
  [k \in DOMAIN table |-> IF patch[k] = Keep THEN table[k] ELSE patch[k]]

\* Primary keys come from a sequence: two sessions never draw the same one.
FreeRows(c) ==
  {r \in Rows : /\ CaseOf[r] = c
                /\ result[r] = Absent
                /\ \A w \in Workers : req[w].result[r] = Keep}

FreeStepRows(r, s) ==
  {x \in StepRows : /\ RowOf[x] = r
                    /\ StepOf[x] = s
                    /\ stepResult[x] = Absent
                    /\ \A w \in Workers : req[w].step[x] = Keep}

\* filter_by(execution_id, test_case_id).first(): any row of the case, and a
\* new one when there is none.  No unique constraint backs this.
RowFor(c) ==
  LET found == {r \in Rows : CaseOf[r] = c /\ result[r] # Absent}
  IN  IF found # {} THEN found ELSE FreeRows(c)

StepRowFor(r, s) ==
  LET found == {x \in StepRows :
                  RowOf[x] = r /\ StepOf[x] = s /\ stepResult[x] # Absent}
  IN  IF found # {} THEN found ELSE FreeStepRows(r, s)

\* The step_results of a body, upserted one by one under the rows of R.
StepPatches(R) ==
  {p \in [StepRows -> StatusArgs \cup {Keep}] :
     \A x \in StepRows : p[x] # Keep =>
       /\ RowOf[x] \in R
       /\ x \in StepRowFor(RowOf[x], StepOf[x])
       /\ \A y \in StepRows \ {x} :
            p[y] # Keep => RowOf[y] # RowOf[x] \/ StepOf[y] # StepOf[x]}

DirtySteps(p) ==
  [x \in StepRows |-> IF p[x] = Keep THEN Keep ELSE Dirty(stepResult[x], p[x])]

Begin(w, request) ==
  /\ req[w].pc = "idle"
  /\ req' = [req EXCEPT ![w] = request]

Finish(w) == req' = [req EXCEPT ![w] = Idle]

\* Mutant: only completed executions are read-only.
WritableWhenAborted == exec \in ExecutionStatuses \ {"completed"}

\* _reject_if_terminal (409) and the 404 of a deleted execution.
Writable == exec \in ExecutionStatuses \ Terminal

BeginWrite(w, resultPatch, stepPatch, to, fresh) ==
  /\ Writable
  /\ Begin(w, [pc |-> "write", seen |-> exec, to |-> to, result |-> resultPatch,
               step |-> stepPatch, fresh |-> fresh])
  /\ UNCHANGED <<exec, result, stepResult, lock, announced, reported>>

-----------------------------------------------------------------------------
(* Result handlers: load, check, change in memory.                         *)

\* POST /executions/{id}/results.  The status may be left out of the body; a
\* new row is then not_run.  Whatever was written, the event is decided on the
\* status the row has after the commit.
LoadCreateResult(w) ==
  \E c \in Cases, status \in StatusArgs \cup {Keep} : \E r \in RowFor(c) :
    \E p \in StepPatches({r}) :
      LET value == IF status # Keep THEN status
                   ELSE IF result[r] = Absent THEN "not_run" ELSE result[r]
      IN  BeginWrite(w, [NoResults EXCEPT ![r] = Dirty(result[r], value)],
                     DirtySteps(p), exec,
                     IF result[r] # "failed" THEN {r} ELSE {})

\* What the last item of a case finds: what an earlier item of the body has written to
\* the row, else the row as it was.
Before(r, earlier) == IF earlier = Keep THEN result[r] ELSE earlier

BulkPatch(r, earlier, status) ==
  IF Before(r, earlier) = result[r] THEN Dirty(result[r], status) ELSE status

\* Each item compares with what it finds.
BulkFails(r, earlier, status) ==
  \/ earlier = "failed" /\ result[r] # "failed"
  \/ status = "failed" /\ Before(r, earlier) # "failed"

\* POST /executions/{id}/results/bulk.  Items rejected or rolled back to their
\* savepoint are the cases picked maps to Keep; a case can be named twice.  An earlier
\* item that writes what the row has, or what the last one writes, adds nothing.
LoadBulkResults(w) ==
  \E picked, earlier \in [Cases -> StatusArgs \cup {Keep}], row \in [Cases -> Rows] :
    LET items == {c \in Cases : picked[c] # Keep}
        R == {row[c] : c \in items}
    IN  /\ items # {}
        /\ \A c \in items : row[c] \in RowFor(c) /\ earlier[c] \notin {result[row[c]], picked[c]}
        /\ \E p \in StepPatches(R) :
             BeginWrite(w,
               [r \in Rows |-> IF r \in R
                               THEN BulkPatch(r, earlier[CaseOf[r]], picked[CaseOf[r]])
                               ELSE Keep],
               DirtySteps(p), exec,
               {r \in R : BulkFails(r, earlier[CaseOf[r]], picked[CaseOf[r]])})

\* Mutant: a failure is reported only when the result was running.
ReportsOnlyRunning(w) ==
  \E r \in Rows, status \in StatusArgs :
    /\ result[r] # Absent
    /\ BeginWrite(w, [NoResults EXCEPT ![r] = Dirty(result[r], status)],
                  NoSteps, exec, IF result[r] = "running" THEN {r} ELSE {})

\* PUT /results/{id}
LoadUpdateResult(w) ==
  \E r \in Rows, status \in StatusArgs :
    /\ result[r] # Absent
    /\ BeginWrite(w, [NoResults EXCEPT ![r] = Dirty(result[r], status)],
                  NoSteps, exec, IF result[r] # "failed" THEN {r} ELSE {})

\* POST /results/{id}/step-results: the step runs, and with it its result and
\* its execution if they had not started.
LoadStartStep(w) ==
  \E r \in Rows, s \in Steps :
    /\ result[r] # Absent
    /\ \E x \in StepRowFor(r, s) :
         BeginWrite(w,
           [NoResults EXCEPT ![r] = IF result[r] = "not_run" THEN "running" ELSE Keep],
           [NoSteps EXCEPT ![x] = Dirty(stepResult[x], "running")],
           IF exec = "pending" THEN "in_progress" ELSE exec, {})

\* PUT /results/{id}/step-results/{step_result_id}
LoadUpdateStep(w) ==
  \E x \in StepRows, status \in StatusArgs :
    /\ stepResult[x] # Absent
    /\ BeginWrite(w, NoResults,
                  [NoSteps EXCEPT ![x] = Dirty(stepResult[x], status)], exec, {})

-----------------------------------------------------------------------------
(* Result handlers: commit and notify.                                     *)

\* Changing the status of the execution starts a new episode: the webhook of
\* the previous status is no announcement of this one.
SetExec(status) ==
  /\ exec' = status
  /\ announced' = IF status = exec THEN announced ELSE "none"

WriteRows(w) ==
  /\ result' = Applied(result, req[w].result)
  /\ stepResult' = Applied(stepResult, req[w].step)
  /\ reported' = [r \in Rows |-> IF result[r] # "failed" /\ result'[r] = "failed"
                                 THEN FALSE ELSE reported[r]]

\* db.commit().  Only start_step_result writes the execution row; its UPDATE
\* waits for the transaction that holds the row.
CommitResults(w) ==
  /\ req[w].pc = "write"
  /\ exec # Deleted
  /\ req[w].to # req[w].seen => lock = NoOne
  /\ WriteRows(w)
  /\ SetExec(IF req[w].to # req[w].seen THEN req[w].to ELSE exec)
  /\ req' = [req EXCEPT ![w] = [Idle EXCEPT !.pc = "notify", !.fresh = req[w].fresh]]
  /\ UNCHANGED lock

\* The rows are gone: StaleDataError or a foreign-key violation, a 500.
CommitFails(w) ==
  /\ req[w].pc = "write"
  /\ exec = Deleted
  /\ Finish(w)
  /\ UNCHANGED <<exec, result, stepResult, lock, announced, reported>>

\* on_result_updated and on_results_bulk_updated read the rows again and fire
\* test_result.failed for those that are failed now and were not before.
NotifyResults(w) ==
  /\ req[w].pc = "notify"
  /\ reported' = [r \in Rows |-> \/ reported[r]
                                 \/ r \in req[w].fresh /\ result[r] = "failed"]
  /\ Finish(w)
  /\ UNCHANGED <<exec, result, stepResult, lock, announced>>

-----------------------------------------------------------------------------
(* Status changes of the execution.                                        *)

BeginStatusChange(w, status) ==
  /\ Begin(w, [Idle EXCEPT !.pc = "flush", !.seen = exec, !.to = status])
  /\ UNCHANGED <<exec, result, stepResult, lock, announced, reported>>

\* PUT /executions/{id}: any status to any other.  A body that repeats the
\* loaded status leaves the column alone and is not modelled.
LoadUpdateExecution(w) ==
  \E status \in ExecutionStatuses :
    /\ exec # Deleted
    /\ status # exec
    /\ BeginStatusChange(w, status)

\* POST /executions/{id}/reopen
LoadReopen(w) ==
  /\ w \in MayReopen
  /\ exec \in Terminal
  /\ BeginStatusChange(w, "in_progress")

\* Mutant: only an execution in progress can be completed.
CompletesFromProgress(w) == req[w].seen = "in_progress" /\ req[w].to = "completed"

Completes(w) == req[w].seen # "completed" /\ req[w].to = "completed"

\* _block_running_artefacts: running steps are blocked, and so are running
\* results and the not_run ones that have a blocked step.
SweepSteps == [x \in StepRows |-> IF stepResult[x] = "running" THEN "blocked" ELSE Keep]

SweepResults ==
  [r \in Rows |->
     IF \/ result[r] = "running"
        \/ /\ result[r] = "not_run"
           /\ \E x \in StepRows : RowOf[x] = r /\ stepResult[x] \in {"running", "blocked"}
     THEN "blocked" ELSE Keep]

\* db.flush() sends the UPDATE and takes the row; a completion then queries
\* what is still running.
Flush(w) ==
  /\ req[w].pc = "flush"
  /\ exec # Deleted
  /\ lock = NoOne
  /\ lock' = w
  /\ req' = [req EXCEPT ![w].pc = "close",
                        ![w].result = IF Completes(w) THEN SweepResults ELSE NoResults,
                        ![w].step = IF Completes(w) THEN SweepSteps ELSE NoSteps]
  /\ UNCHANGED <<exec, result, stepResult, announced, reported>>

FlushFails(w) ==
  /\ req[w].pc = "flush"
  /\ exec = Deleted
  /\ Finish(w)
  /\ UNCHANGED <<exec, result, stepResult, lock, announced, reported>>

\* Mutant: the transaction of a change that is no completion stays open.
CommitKeepsLock(w) ==
  /\ req[w].pc = "close"
  /\ WriteRows(w)
  /\ SetExec(req[w].to)
  /\ lock' = IF Completes(w) THEN NoOne ELSE lock
  /\ req' = [req EXCEPT ![w] = IF Completes(w) THEN [Idle EXCEPT !.pc = "announce"]
                                               ELSE Idle]

\* The commit inside _block_running_artefacts when the request completes the
\* execution, else the commit of the handler.
CommitStatus(w) ==
  /\ req[w].pc = "close"
  /\ WriteRows(w)
  /\ SetExec(req[w].to)
  /\ lock' = NoOne
  /\ req' = [req EXCEPT ![w] = IF Completes(w) THEN [Idle EXCEPT !.pc = "announce"]
                                               ELSE Idle]

\* The rest of on_execution_completed: attributes were expired by the commit,
\* so the status that picks the webhook is read again.
Announce(w) ==
  /\ req[w].pc = "announce"
  /\ announced' = CASE exec = Deleted -> announced
                    [] exec = "aborted" -> "aborted"
                    [] OTHER -> "completed"
  /\ Finish(w)
  /\ UNCHANGED <<exec, result, stepResult, lock, reported>>

\* DELETE /executions/{id}: results and step results cascade.
Delete ==
  /\ exec # Deleted
  /\ lock = NoOne
  /\ exec' = Deleted
  /\ result' = [r \in Rows |-> Absent]
  /\ stepResult' = [x \in StepRows |-> Absent]
  /\ announced' = "none"
  /\ UNCHANGED <<req, lock, reported>>

\* The handler dies where it is: an open transaction is rolled back, events
\* not sent yet are lost.
Die(w) ==
  /\ CanFail
  /\ req[w].pc # "idle"
  /\ lock' = IF lock = w THEN NoOne ELSE lock
  /\ Finish(w)
  /\ UNCHANGED <<exec, result, stepResult, announced, reported>>

-----------------------------------------------------------------------------
Load(w) ==
  \/ LoadCreateResult(w)
  \/ LoadBulkResults(w)
  \/ LoadUpdateResult(w)
  \/ LoadStartStep(w)
  \/ LoadUpdateStep(w)
  \/ LoadUpdateExecution(w)
  \/ LoadReopen(w)

Proceed(w) ==
  \/ CommitResults(w)
  \/ CommitFails(w)
  \/ NotifyResults(w)
  \/ Flush(w)
  \/ FlushFails(w)
  \/ CommitStatus(w)
  \/ Announce(w)

\* What happens while no handler dies.
Handle ==
  \/ \E w \in Workers : Load(w) \/ Proceed(w)
  \/ Delete

Next == Handle \/ \E w \in Workers : Die(w)

Spec == Init /\ [][Next]_vars

\* Nobody dies, and a thread runs on until its request is answered; the database
\* grants a row lock to everyone who waits for it.
FairSpec == Init /\ [][Handle]_vars /\ \A w \in Workers : SF_vars(Proceed(w))
-----------------------------------------------------------------------------
(* Properties.                                                             *)

\* docs/manual/executions.md, line 9: "results (one row per case)"; step
\* results are upserted the same way.  The upsert is a query and an insert
\* with no unique constraint behind them.
OneRowPerCase ==
  /\ \A r, s \in Rows :
       result[r] # Absent /\ result[s] # Absent /\ CaseOf[r] = CaseOf[s] => r = s
  /\ \A x, y \in StepRows :
       /\ stepResult[x] # Absent /\ stepResult[y] # Absent
       /\ RowOf[x] = RowOf[y] /\ StepOf[x] = StepOf[y]
       => x = y

\* The sweep of a completion and the status it goes with are one transaction:
\* a completed execution has no result and no step left running, whatever
\* dies on the way.
CompletedHasNothingRunning ==
  exec = "completed" =>
    /\ \A r \in Rows : result[r] # "running"
    /\ \A x \in StepRows : stepResult[x] # "running"

\* results.py, line 50: "Execution is {status}; results are read-only".  While
\* the execution stays closed no result and no step result changes.
ReadOnlyWhenClosed ==
  [][(exec \in Terminal /\ exec' = exec) => UNCHANGED <<result, stepResult>>]_vars

\* What is left of that under concurrency: requests that loaded another status
\* can still land, but once they are gone the closed execution is frozen.
Stale(w) == req[w].pc \in {"write", "flush", "close"} /\ req[w].seen # exec
FrozenOnceDrained ==
  [][(exec \in Terminal /\ exec' = exec /\ \A w \in Workers : ~Stale(w))
       => UNCHANGED <<result, stepResult>>]_vars

\* execution_events.on_execution_updated: however status changes overlap, a
\* completed execution has been announced by a webhook fired since it became
\* completed, or the handler that will fire it is still at work.
CompletionAnnounced ==
  exec = "completed" =>
    announced = "completed" \/ \E w \in Workers : req[w].pc = "announce"

\* docs/manual/webhooks.md, line 24: execution.aborted fires when an execution
\* transitions to aborted.
AbortAnnounced ==
  exec = "aborted" =>
    announced = "aborted" \/ \E w \in Workers : req[w].pc # "idle"

\* on_result_updated and on_results_bulk_updated decide on a status read after
\* the commit against one read before it: however writes overlap, a result
\* that is failed has been reported since it became failed, or a handler that
\* will report it is still at work.
FailureReported ==
  \A r \in Rows : result[r] = "failed" =>
    reported[r] \/ \E w \in Workers : req[w].pc = "notify" /\ r \in req[w].fresh

\* Waiting for the execution row never lasts: every request is answered.
RequestsAnswered == \A w \in Workers : req[w].pc # "idle" ~> req[w].pc = "idle"

\* A completion is announced, unless the execution leaves the status first.
CompletionEventuallyAnnounced ==
  exec = "completed" ~> announced = "completed" \/ exec # "completed"
=============================================================================
