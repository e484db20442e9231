---------------------- MODULE ExecutionLifecycleProofs ----------------------
(***************************************************************************)
(* Proofs about the executions of a project: the handlers of one execution *)
(* (ExecutionLifecycle), for any number of workers, cases, steps and rows, *)
(* the imports and reruns that fill executions in (ResultImports), and the *)
(* report and the pages that are made of them (ExecutionReport,            *)
(* ProjectPages).                                                          *)
(***************************************************************************)
EXTENDS MCExecutions, Sequences, FiniteSetTheorems, TLAPS

(***************************************************************************)
(* What a request in flight remembers of the checks it made: a result      *)
(* handler loaded an open execution, sends at most the promotion to        *)
(* in_progress, and will report every row it turns to failed; a status     *)
(* change differs from what it loaded, and sweeps only if it completes.    *)
(***************************************************************************)
WriteOK(w) ==
  req[w].pc = "write" =>
    /\ req[w].seen \notin Terminal
    /\ req[w].to \in {req[w].seen, "in_progress"}
    /\ \A r \in Rows : req[w].result[r] = "failed" => r \in req[w].fresh

CloseOK(w) ==
  /\ req[w].pc \in {"flush", "close"} => req[w].to # req[w].seen
  /\ req[w].pc = "close" =>
       /\ \A r \in Rows : req[w].result[r] \in {Keep, "blocked"}
       /\ \A x \in StepRows : req[w].step[x] \in {Keep, "blocked"}
       /\ ~Completes(w) => req[w].result = NoResults /\ req[w].step = NoSteps

RequestsOK == \A w \in Workers : WriteOK(w) /\ CloseOK(w)

LEMMA IdleType == Idle \in Request
BY DEF Idle, Request, NoResults, NoSteps, ExecutionStatuses

\* Applying a patch of statuses keeps a table of statuses one.
LEMMA AppliedType ==
  ASSUME NEW S, NEW table \in [S -> Statuses \cup {Absent}],
         NEW patch \in [S -> Statuses \cup {Keep}]
  PROVE  Applied(table, patch) \in [S -> Statuses \cup {Absent}]
<1>1. ASSUME NEW k \in S
      PROVE  (IF patch[k] = Keep THEN table[k] ELSE patch[k]) \in Statuses \cup {Absent}
  OBVIOUS
<1>2. DOMAIN table = S
  OBVIOUS
<1> QED
  BY <1>1, <1>2 DEF Applied

LEMMA DirtyType ==
  ASSUME NEW loaded, NEW value \in Statuses
  PROVE  Dirty(loaded, value) \in Statuses \cup {Keep}
BY DEF Dirty

\* The patch of a list of step results has statuses only.
LEMMA DirtyStepsType ==
  ASSUME NEW R, NEW p \in StepPatches(R)
  PROVE  DirtySteps(p) \in [StepRows -> Statuses \cup {Keep}]
<1>1. p \in [StepRows -> StatusArgs \cup {Keep}]
  BY DEF StepPatches
<1>2. \A x \in StepRows : p[x] # Keep => p[x] \in Statuses
  BY <1>1, ConstantsAssumption
<1> QED
  BY <1>2, DirtyType DEF DirtySteps

\* A result handler that passes its checks starts as a well-formed request.
LEMMA BeginWriteType ==
  ASSUME TypeOK, RequestsOK, NEW w \in Workers,
         NEW rp \in [Rows -> Statuses \cup {Keep}],
         NEW sp \in [StepRows -> Statuses \cup {Keep}],
         NEW to \in {exec, "in_progress"}, NEW fresh \in SUBSET Rows,
         \A r \in Rows : rp[r] = "failed" => r \in fresh,
         BeginWrite(w, rp, sp, to, fresh)
  PROVE  TypeOK' /\ RequestsOK'
<1> DEFINE q == [pc |-> "write", seen |-> exec, to |-> to, result |-> rp,
                 step |-> sp, fresh |-> fresh]
<1>1. exec \in ExecutionStatuses \ Terminal /\ req' = [req EXCEPT ![w] = q]
  BY DEF BeginWrite, Begin, Writable
<1>2. to \in ExecutionStatuses
  BY <1>1 DEF ExecutionStatuses
<1>3. q \in Request
  BY <1>1, <1>2 DEF Request
<1>4. TypeOK'
  BY <1>1, <1>3 DEF TypeOK, BeginWrite
<1>5. req'[w] = q /\ \A v \in Workers \ {w} : req'[v] = req[v]
  BY <1>1 DEF TypeOK
<1>6. ASSUME NEW v \in Workers PROVE (WriteOK(v) /\ CloseOK(v))'
  <2>1. CASE v = w
    BY <2>1, <1>1, <1>5 DEF WriteOK, CloseOK, Completes
  <2>2. CASE v # w
    BY <2>2, <1>5 DEF RequestsOK, WriteOK, CloseOK, Completes
  <2> QED
    BY <2>1, <2>2
<1> QED
  BY <1>4, <1>6 DEF RequestsOK

-----------------------------------------------------------------------------
\* A step that ends the request of w, or moves it on to its notification, and
\* touches no other request keeps RequestsOK.
LEMMA RequestLeaves ==
  ASSUME TypeOK, RequestsOK, NEW w \in Workers, NEW q \in Request,
         q.pc \in {"idle", "notify", "announce"}, req' = [req EXCEPT ![w] = q]
  PROVE  req' \in [Workers -> Request] /\ RequestsOK'
<1>1. req'[w] = q /\ \A v \in Workers \ {w} : req'[v] = req[v]
  BY DEF TypeOK
<1>2. ASSUME NEW v \in Workers PROVE (WriteOK(v) /\ CloseOK(v))'
  <2>1. CASE v = w
    BY <2>1, <1>1 DEF WriteOK, CloseOK
  <2>2. CASE v # w
    BY <2>2, <1>1 DEF RequestsOK, WriteOK, CloseOK, Completes
  <2> QED
    BY <2>1, <2>2
<1> QED
  BY <1>2 DEF RequestsOK, TypeOK

\* Every Load of a result handler.
LEMMA LoadResultsType ==
  ASSUME TypeOK, RequestsOK, NEW w \in Workers,
         \/ LoadCreateResult(w) \/ LoadBulkResults(w) \/ LoadUpdateResult(w)
         \/ LoadStartStep(w) \/ LoadUpdateStep(w)
  PROVE  TypeOK' /\ RequestsOK'
<1> USE ConstantsAssumption
<1>1. CASE LoadCreateResult(w)
  <2>1. PICK c \in Cases, st \in StatusArgs \cup {Keep} : \E r \in RowFor(c) :
          \E p \in StepPatches({r}) :
            LET value == IF st # Keep THEN st
                         ELSE IF result[r] = Absent THEN "not_run" ELSE result[r]
            IN  BeginWrite(w, [NoResults EXCEPT ![r] = Dirty(result[r], value)],
                           DirtySteps(p), exec,
                           IF result[r] # "failed" THEN {r} ELSE {})
    BY <1>1 DEF LoadCreateResult
  <2>2. PICK r \in RowFor(c) : \E p \in StepPatches({r}) :
          LET value == IF st # Keep THEN st
                       ELSE IF result[r] = Absent THEN "not_run" ELSE result[r]
          IN  BeginWrite(w, [NoResults EXCEPT ![r] = Dirty(result[r], value)],
                         DirtySteps(p), exec,
                         IF result[r] # "failed" THEN {r} ELSE {})
    BY <2>1
  <2>21. PICK p \in StepPatches({r}) :
          LET value == IF st # Keep THEN st
                       ELSE IF result[r] = Absent THEN "not_run" ELSE result[r]
          IN  BeginWrite(w, [NoResults EXCEPT ![r] = Dirty(result[r], value)],
                         DirtySteps(p), exec,
                         IF result[r] # "failed" THEN {r} ELSE {})
    BY <2>2
  <2> DEFINE value == IF st # Keep THEN st
                      ELSE IF result[r] = Absent THEN "not_run" ELSE result[r]
             rp == [NoResults EXCEPT ![r] = Dirty(result[r], value)]
             fresh == IF result[r] # "failed" THEN {r} ELSE {}
  <2>3. r \in Rows
    BY <2>2 DEF RowFor, FreeRows
  <2>4. value \in Statuses
    BY <2>3 DEF TypeOK, Statuses
  <2>5. Dirty(result[r], value) \in Statuses \cup {Keep}
    BY <2>4, DirtyType
  <2>6. rp \in [Rows -> Statuses \cup {Keep}]
    BY <2>5 DEF NoResults
  <2>7. \A k \in Rows : rp[k] = "failed" => k \in fresh
    BY <2>3 DEF NoResults, Dirty, Keep
  <2>8. DirtySteps(p) \in [StepRows -> Statuses \cup {Keep}]
    BY DirtyStepsType
  <2>9. BeginWrite(w, rp, DirtySteps(p), exec, fresh)
    BY <2>21
  <2>10. fresh \in SUBSET Rows
    BY <2>3
  <2> HIDE DEF rp, fresh
  <2> QED
    BY <2>6, <2>7, <2>8, <2>9, <2>10, BeginWriteType
<1>2. CASE LoadBulkResults(w)
  <2>1. PICK picked, earlier \in [Cases -> StatusArgs \cup {Keep}], row \in [Cases -> Rows] :
          LET items == {c \in Cases : picked[c] # Keep}
              R == {row[c] : c \in items}
          IN  /\ items # {}
              /\ \A c \in items :
                   row[c] \in RowFor(c) /\ earlier[c] \notin {result[row[c]], picked[c]}
              /\ \E p \in StepPatches(R) :
                   BeginWrite(w,
                     [r \in Rows |-> IF r \in R
                                     THEN BulkPatch(r, earlier[CaseOf[r]], picked[CaseOf[r]]) ELSE Keep],
                     DirtySteps(p), exec,
                     {r \in R : BulkFails(r, earlier[CaseOf[r]], picked[CaseOf[r]])})
    BY <1>2 DEF LoadBulkResults
  <2> DEFINE items == {c \in Cases : picked[c] # Keep}
             R == {row[c] : c \in items}
             rp == [r \in Rows |-> IF r \in R
                                   THEN BulkPatch(r, earlier[CaseOf[r]], picked[CaseOf[r]]) ELSE Keep]
             fresh == {r \in R : BulkFails(r, earlier[CaseOf[r]], picked[CaseOf[r]])}
  <2>2. PICK p \in StepPatches(R) : BeginWrite(w, rp, DirtySteps(p), exec, fresh)
    BY <2>1
  <2>3. \A r \in R : r \in Rows /\ picked[CaseOf[r]] \in Statuses
    <3>1. SUFFICES ASSUME NEW c \in items
                   PROVE  row[c] \in Rows /\ picked[CaseOf[row[c]]] \in Statuses
      OBVIOUS
    <3>2. row[c] \in RowFor(c)
      BY <2>1
    <3>3. CaseOf[row[c]] = c
      BY <3>2 DEF RowFor, FreeRows
    <3> QED
      BY <3>3
  <2> HIDE DEF R
  <2>4. rp \in [Rows -> Statuses \cup {Keep}]
    BY <2>3, DirtyType DEF BulkPatch
  <2>5. \A r \in Rows : rp[r] = "failed" => r \in fresh
    BY DEF BulkPatch, BulkFails, Before, Dirty, Keep
  <2>6. DirtySteps(p) \in [StepRows -> Statuses \cup {Keep}]
    BY DirtyStepsType
  <2>7. fresh \in SUBSET Rows
    BY <2>3
  <2> HIDE DEF rp, fresh
  <2> QED
    BY <2>2, <2>4, <2>5, <2>6, <2>7, BeginWriteType
<1>3. CASE LoadUpdateResult(w)
  <2>1. PICK r \in Rows, st \in StatusArgs :
          BeginWrite(w, [NoResults EXCEPT ![r] = Dirty(result[r], st)],
                     NoSteps, exec, IF result[r] # "failed" THEN {r} ELSE {})
    BY <1>3 DEF LoadUpdateResult
  <2> DEFINE rp == [NoResults EXCEPT ![r] = Dirty(result[r], st)]
             fresh == IF result[r] # "failed" THEN {r} ELSE {}
  <2>2. rp \in [Rows -> Statuses \cup {Keep}]
    BY DirtyType DEF NoResults
  <2>3. \A k \in Rows : rp[k] = "failed" => k \in fresh
    BY DEF NoResults, Dirty, Keep
  <2>4. BeginWrite(w, rp, NoSteps, exec, fresh)
    BY <2>1
  <2>5. fresh \in SUBSET Rows /\ NoSteps \in [StepRows -> Statuses \cup {Keep}]
    BY DEF NoSteps
  <2> HIDE DEF rp, fresh
  <2> QED
    BY <2>2, <2>3, <2>4, <2>5, BeginWriteType
<1>4. CASE LoadStartStep(w)
  <2>1. PICK r \in Rows, s \in Steps : \E x \in StepRowFor(r, s) :
          BeginWrite(w,
            [NoResults EXCEPT ![r] = IF result[r] = "not_run" THEN "running" ELSE Keep],
            [NoSteps EXCEPT ![x] = Dirty(stepResult[x], "running")],
            IF exec = "pending" THEN "in_progress" ELSE exec, {})
    BY <1>4 DEF LoadStartStep
  <2>2. PICK x \in StepRowFor(r, s) :
          BeginWrite(w,
            [NoResults EXCEPT ![r] = IF result[r] = "not_run" THEN "running" ELSE Keep],
            [NoSteps EXCEPT ![x] = Dirty(stepResult[x], "running")],
            IF exec = "pending" THEN "in_progress" ELSE exec, {})
    BY <2>1
  <2> DEFINE rp == [NoResults EXCEPT ![r] =
                      IF result[r] = "not_run" THEN "running" ELSE Keep]
             sp == [NoSteps EXCEPT ![x] = Dirty(stepResult[x], "running")]
             to == IF exec = "pending" THEN "in_progress" ELSE exec
  <2>3. rp \in [Rows -> Statuses \cup {Keep}] /\ \A k \in Rows : rp[k] # "failed"
    BY DEF NoResults, Statuses, Keep
  <2>4. Dirty(stepResult[x], "running") \in Statuses \cup {Keep}
    BY DirtyType DEF Statuses
  <2>5. sp \in [StepRows -> Statuses \cup {Keep}]
    BY <2>4 DEF NoSteps
  <2>6. to \in {exec, "in_progress"}
    OBVIOUS
  <2>7. BeginWrite(w, rp, sp, to, {})
    BY <2>2
  <2> HIDE DEF rp, sp, to
  <2> QED
    BY <2>3, <2>5, <2>6, <2>7, BeginWriteType
<1>5. CASE LoadUpdateStep(w)
  <2>1. PICK x \in StepRows, st \in StatusArgs :
          BeginWrite(w, NoResults, [NoSteps EXCEPT ![x] = Dirty(stepResult[x], st)],
                     exec, {})
    BY <1>5 DEF LoadUpdateStep
  <2> DEFINE sp == [NoSteps EXCEPT ![x] = Dirty(stepResult[x], st)]
  <2>2. sp \in [StepRows -> Statuses \cup {Keep}]
    BY DirtyType DEF NoSteps
  <2>3. NoResults \in [Rows -> Statuses \cup {Keep}] /\ \A k \in Rows : NoResults[k] # "failed"
    BY DEF NoResults, Keep
  <2>4. BeginWrite(w, NoResults, sp, exec, {})
    BY <2>1
  <2> HIDE DEF sp
  <2> QED
    BY <2>2, <2>3, <2>4, BeginWriteType
<1> QED
  BY <1>1, <1>2, <1>3, <1>4, <1>5

LEMMA StatusChangeType ==
  ASSUME TypeOK, RequestsOK, NEW w \in Workers,
         LoadUpdateExecution(w) \/ LoadReopen(w)
  PROVE  TypeOK' /\ RequestsOK'
<1>1. PICK st \in ExecutionStatuses :
        exec \in ExecutionStatuses /\ st # exec /\ BeginStatusChange(w, st)
  BY DEF LoadUpdateExecution, LoadReopen, TypeOK, ExecutionStatuses, Terminal, Deleted
<1> DEFINE q == [Idle EXCEPT !.pc = "flush", !.seen = exec, !.to = st]
<1>2. q \in Request /\ q.pc = "flush" /\ q.to # q.seen
  BY <1>1, IdleType DEF Idle, Request
<1>3. req' = [req EXCEPT ![w] = q]
  BY <1>1 DEF BeginStatusChange, Begin
<1>4. TypeOK'
  BY <1>1, <1>2, <1>3 DEF TypeOK, BeginStatusChange
<1>5. req'[w] = q /\ \A v \in Workers \ {w} : req'[v] = req[v]
  BY <1>3 DEF TypeOK
<1> HIDE DEF q
<1>6. ASSUME NEW v \in Workers PROVE (WriteOK(v) /\ CloseOK(v))'
  <2>1. CASE v = w
    BY <2>1, <1>2, <1>5 DEF WriteOK, CloseOK
  <2>2. CASE v # w
    BY <2>2, <1>5 DEF RequestsOK, WriteOK, CloseOK, Completes
  <2> QED
    BY <2>1, <2>2
<1> QED
  BY <1>4, <1>6 DEF RequestsOK

\* What a committed patch leaves in the tables.
LEMMA WriteRowsType ==
  ASSUME TypeOK, NEW w \in Workers, WriteRows(w)
  PROVE  /\ result' \in [Rows -> Statuses \cup {Absent}]
         /\ stepResult' \in [StepRows -> Statuses \cup {Absent}]
         /\ reported' \in [Rows -> BOOLEAN]
<1>1. /\ result \in [Rows -> Statuses \cup {Absent}]
      /\ stepResult \in [StepRows -> Statuses \cup {Absent}]
      /\ reported \in [Rows -> BOOLEAN]
      /\ req[w].result \in [Rows -> Statuses \cup {Keep}]
      /\ req[w].step \in [StepRows -> Statuses \cup {Keep}]
  BY DEF TypeOK, Request
<1>2. /\ result' = Applied(result, req[w].result)
      /\ stepResult' = Applied(stepResult, req[w].step)
      /\ reported' = [r \in Rows |-> IF result[r] # "failed" /\ result'[r] = "failed"
                                     THEN FALSE ELSE reported[r]]
  BY DEF WriteRows
<1>3. reported' \in [Rows -> BOOLEAN]
  BY <1>1, <1>2
<1> QED
  BY <1>1, <1>2, <1>3, AppliedType

\* The type invariant and the invariant of the requests are inductive together.
LEMMA TypeInductive ==
  ASSUME TypeOK, RequestsOK, [Next]_vars
  PROVE  TypeOK' /\ RequestsOK'
<1>1. ASSUME NEW w \in Workers, Load(w)
      PROVE  TypeOK' /\ RequestsOK'
  BY <1>1, LoadResultsType, StatusChangeType DEF Load
<1>2. ASSUME NEW w \in Workers, CommitResults(w)
      PROVE  TypeOK' /\ RequestsOK'
  <2> DEFINE q == [Idle EXCEPT !.pc = "notify", !.fresh = req[w].fresh]
  <2>1. req[w] \in Request /\ req' = [req EXCEPT ![w] = q]
    BY <1>2 DEF CommitResults, TypeOK
  <2>2. q \in Request /\ q.pc = "notify"
    BY <2>1, IdleType DEF Idle, Request
  <2> HIDE DEF q
  <2>3. req' \in [Workers -> Request] /\ RequestsOK'
    BY <2>1, <2>2, RequestLeaves
  <2>4. exec' \in ExecutionStatuses \cup {Deleted} /\ announced' \in {"none", "completed", "aborted"}
    BY <1>2, <2>1 DEF CommitResults, SetExec, TypeOK, Request
  <2> QED
    BY <1>2, <2>3, <2>4, WriteRowsType DEF CommitResults, TypeOK
<1>3. ASSUME NEW w \in Workers, CommitFails(w) \/ FlushFails(w)
      PROVE  TypeOK' /\ RequestsOK'
  BY <1>3, IdleType, RequestLeaves DEF CommitFails, FlushFails, Finish, Idle, TypeOK
<1>4. ASSUME NEW w \in Workers, NotifyResults(w)
      PROVE  TypeOK' /\ RequestsOK'
  <2>1. req' \in [Workers -> Request] /\ RequestsOK'
    BY <1>4, IdleType, RequestLeaves DEF NotifyResults, Finish, Idle
  <2>2. reported' \in [Rows -> BOOLEAN]
    BY <1>4 DEF NotifyResults, TypeOK
  <2> QED
    BY <1>4, <2>1, <2>2 DEF NotifyResults, TypeOK
<1>5. ASSUME NEW w \in Workers, Flush(w)
      PROVE  TypeOK' /\ RequestsOK'
  <2> DEFINE rp == IF Completes(w) THEN SweepResults ELSE NoResults
             sp == IF Completes(w) THEN SweepSteps ELSE NoSteps
             q == [req[w] EXCEPT !.pc = "close", !.result = rp, !.step = sp]
  <2>1. req[w] \in Request /\ req[w].pc = "flush" /\ req[w].to # req[w].seen
    BY <1>5 DEF Flush, TypeOK, RequestsOK, CloseOK
  <2>2. req' = [req EXCEPT ![w] = q]
    BY <1>5 DEF Flush, TypeOK
  <2>3. rp \in [Rows -> {Keep, "blocked"}]
    BY DEF SweepResults, NoResults
  <2>4. sp \in [StepRows -> {Keep, "blocked"}]
    BY DEF SweepSteps, NoSteps
  <2>5. q \in Request
    BY <2>1, <2>3, <2>4 DEF Request, Statuses
  <2>6. /\ q.pc = "close" /\ q.to = req[w].to /\ q.seen = req[w].seen
        /\ q.result = rp /\ q.step = sp
    BY <2>1 DEF Request
  <2>7. req'[w] = q /\ \A v \in Workers \ {w} : req'[v] = req[v]
    BY <2>2 DEF TypeOK
  <2>8. ~Completes(w)' => rp = NoResults /\ sp = NoSteps
    BY <2>6, <2>7 DEF Completes
  <2> HIDE DEF rp, sp, q
  <2>9. ASSUME NEW v \in Workers PROVE (WriteOK(v) /\ CloseOK(v))'
    <3>1. CASE v = w
      BY <3>1, <2>1, <2>3, <2>4, <2>6, <2>7, <2>8 DEF WriteOK, CloseOK, NoResults, NoSteps
    <3>2. CASE v # w
      BY <3>2, <2>7 DEF RequestsOK, WriteOK, CloseOK, Completes
    <3> QED
      BY <3>1, <3>2
  <2>10. lock' = w /\ UNCHANGED <<exec, result, stepResult, announced, reported>>
    BY <1>5 DEF Flush
  <2>11. req' \in [Workers -> Request]
    BY <2>2, <2>5 DEF TypeOK
  <2>12. TypeOK'
    BY <2>10, <2>11 DEF TypeOK
  <2> QED
    BY <2>9, <2>12 DEF RequestsOK
<1>6. ASSUME NEW w \in Workers, CommitStatus(w)
      PROVE  TypeOK' /\ RequestsOK'
  <2> DEFINE q == IF Completes(w) THEN [Idle EXCEPT !.pc = "announce"] ELSE Idle
  <2>1. req[w] \in Request /\ req' = [req EXCEPT ![w] = q]
    BY <1>6 DEF CommitStatus, TypeOK
  <2>2. q \in Request /\ q.pc \in {"idle", "announce"}
    BY IdleType DEF Idle, Request
  <2> HIDE DEF q
  <2>3. req' \in [Workers -> Request] /\ RequestsOK'
    BY <2>1, <2>2, RequestLeaves
  <2>4. exec' \in ExecutionStatuses \cup {Deleted} /\ announced' \in {"none", "completed", "aborted"}
    BY <1>6, <2>1 DEF CommitStatus, SetExec, TypeOK, Request
  <2> QED
    BY <1>6, <2>3, <2>4, WriteRowsType DEF CommitStatus, TypeOK
<1>7. ASSUME NEW w \in Workers, Announce(w)
      PROVE  TypeOK' /\ RequestsOK'
  BY <1>7, IdleType, RequestLeaves DEF Announce, Finish, Idle, TypeOK
<1>8. ASSUME NEW w \in Workers, Die(w)
      PROVE  TypeOK' /\ RequestsOK'
  BY <1>8, IdleType, RequestLeaves DEF Die, Finish, Idle, TypeOK
<1>9. CASE Delete
  BY <1>9 DEF Delete, TypeOK, RequestsOK, WriteOK, CloseOK, Completes
<1>10. CASE UNCHANGED vars
  BY <1>10 DEF vars, TypeOK, RequestsOK, WriteOK, CloseOK, Completes
<1> QED
  BY <1>1, <1>2, <1>3, <1>4, <1>5, <1>6, <1>7, <1>8, <1>9, <1>10 DEF Next, Handle, Proceed

LEMMA TypeInitially == Init => TypeOK /\ RequestsOK
<1> SUFFICES ASSUME Init PROVE TypeOK /\ RequestsOK
  OBVIOUS
<1>1. \A w \in Workers : req[w] = Idle
  BY DEF Init
<1>2. RequestsOK
  BY <1>1 DEF RequestsOK, WriteOK, CloseOK, Idle
<1>3. TypeOK
  BY IdleType DEF Init, TypeOK, ExecutionStatuses, Statuses
<1> QED
  BY <1>2, <1>3

\* Every table, request and flag keeps its type, and a request in flight keeps
\* what it was checked for.
THEOREM Typing == Spec => [](TypeOK /\ RequestsOK)
<1>1. TypeOK /\ RequestsOK /\ [Next]_vars => (TypeOK /\ RequestsOK)'
  BY TypeInductive
<1> QED
  BY <1>1, TypeInitially, PTL DEF Spec

\* The tables, requests and flags of the model keep their types.
THEOREM TypeCorrect == Spec => []TypeOK
BY Typing, PTL

-----------------------------------------------------------------------------
(***************************************************************************)
(* Completions are announced.  The step that makes the execution completed *)
(* is a CommitStatus whose request loaded another status, so it goes on to *)
(* announce; nothing else can take that request away when handlers do not  *)
(* die.                                                                    *)
(***************************************************************************)
LEMMA CompletionInductive ==
  ASSUME ~CanFail, TypeOK, RequestsOK, CompletionAnnounced, [Next]_vars
  PROVE  CompletionAnnounced'
<1> SUFFICES ASSUME exec' = "completed", announced' # "completed"
             PROVE  \E w \in Workers : req'[w].pc = "announce"
  BY DEF CompletionAnnounced
<1>1. ASSUME NEW w \in Workers, Load(w)
      PROVE  \E v \in Workers : req'[v].pc = "announce"
  <2>1. PICK q : /\ req[w].pc = "idle"
                 /\ req' = [req EXCEPT ![w] = q]
                 /\ UNCHANGED <<exec, announced>>
    BY <1>1 DEF Load, LoadCreateResult, LoadBulkResults, LoadUpdateResult, LoadStartStep,
         LoadUpdateStep, LoadUpdateExecution, LoadReopen, BeginWrite, BeginStatusChange, Begin
  <2>2. PICK v \in Workers : req[v].pc = "announce"
    BY <2>1 DEF CompletionAnnounced
  <2> QED
    BY <2>1, <2>2 DEF TypeOK
<1>2. ASSUME NEW w \in Workers, CommitResults(w)
      PROVE  \E v \in Workers : req'[v].pc = "announce"
  <2>1. /\ req[w].pc = "write"
        /\ req[w].to \in {req[w].seen, "in_progress"}
    BY <1>2 DEF CommitResults, RequestsOK, WriteOK
  <2>2. exec = "completed" /\ announced # "completed"
    BY <1>2, <2>1 DEF CommitResults, SetExec
  <2>3. PICK v \in Workers : req[v].pc = "announce"
    BY <2>2 DEF CompletionAnnounced
  <2>4. req'[v] = req[v]
    BY <1>2, <2>1, <2>3 DEF CommitResults, TypeOK
  <2> QED
    BY <2>3, <2>4
<1>3. ASSUME NEW w \in Workers, CommitFails(w) \/ FlushFails(w) \/ NotifyResults(w) \/ Flush(w)
      PROVE  \E v \in Workers : req'[v].pc = "announce"
  <2>1. /\ req[w].pc # "announce"
        /\ UNCHANGED <<exec, announced>>
        /\ \A v \in Workers \ {w} : req'[v] = req[v]
    BY <1>3 DEF CommitFails, FlushFails, NotifyResults, Flush, Finish, TypeOK
  <2>2. PICK v \in Workers : req[v].pc = "announce"
    BY <2>1 DEF CompletionAnnounced
  <2> QED
    BY <2>1, <2>2
<1>4. ASSUME NEW w \in Workers, CommitStatus(w)
      PROVE  \E v \in Workers : req'[v].pc = "announce"
  <2>1. req[w].pc = "close" /\ req[w].to = "completed" /\ req[w].to # req[w].seen
    BY <1>4 DEF CommitStatus, SetExec, RequestsOK, CloseOK
  <2>2. Completes(w)
    BY <2>1 DEF Completes
  <2>3. req' = [req EXCEPT ![w] = [Idle EXCEPT !.pc = "announce"]]
    BY <1>4, <2>2 DEF CommitStatus
  <2>4. req'[w] = [Idle EXCEPT !.pc = "announce"]
    BY <2>3 DEF TypeOK
  <2> QED
    BY <2>4 DEF Idle
<1>5. ASSUME NEW w \in Workers, Announce(w)
      PROVE  \E v \in Workers : req'[v].pc = "announce"
  <2>1. exec = "completed" /\ announced' = "completed"
    BY <1>5 DEF Announce, Deleted
  <2> QED
    BY <2>1
<1>6. ASSUME NEW w \in Workers, Die(w)
      PROVE  FALSE
  BY <1>6 DEF Die
<1>7. CASE Delete
  BY <1>7 DEF Delete, Deleted
<1>8. CASE UNCHANGED vars
  BY <1>8 DEF vars, CompletionAnnounced
<1> QED
  BY <1>1, <1>2, <1>3, <1>4, <1>5, <1>6, <1>7, <1>8 DEF Next, Handle, Proceed

\* However requests overlap, a completed execution has been announced since it
\* became completed, or a handler is about to, provided no handler dies.
THEOREM CompletionsAnnounced ==
  ASSUME ~CanFail
  PROVE  Spec => []CompletionAnnounced
<1>1. Init => CompletionAnnounced
  BY DEF Init, CompletionAnnounced
<1>2. TypeOK /\ RequestsOK /\ CompletionAnnounced /\ [Next]_vars => CompletionAnnounced'
  BY CompletionInductive
<1> QED
  BY <1>1, <1>2, Typing, PTL DEF Spec

-----------------------------------------------------------------------------
(***************************************************************************)
(* A closed execution freezes.                                             *)
(***************************************************************************)

\* Only commits change the rows of an execution that is not deleted, and each
\* of them comes from a request whose view of the status is out of date.
LEMMA FrozenStep ==
  ASSUME TypeOK, RequestsOK, [Next]_vars, exec \in Terminal, exec' = exec,
         \A w \in Workers : ~Stale(w)
  PROVE  UNCHANGED <<result, stepResult>>
<1>1. ASSUME NEW w \in Workers, CommitResults(w)
      PROVE  FALSE
  <2>1. req[w].pc = "write" /\ req[w].seen \notin Terminal
    BY <1>1 DEF CommitResults, RequestsOK, WriteOK
  <2> QED
    BY <2>1 DEF Stale
<1>2. ASSUME NEW w \in Workers, CommitStatus(w)
      PROVE  FALSE
  <2>1. req[w].pc = "close" /\ req[w].to # req[w].seen /\ exec' = req[w].to
    BY <1>2 DEF CommitStatus, SetExec, RequestsOK, CloseOK
  <2> QED
    BY <2>1 DEF Stale
<1>3. ASSUME NEW w \in Workers, Load(w)
      PROVE  UNCHANGED <<result, stepResult>>
  BY <1>3 DEF Load, LoadCreateResult, LoadBulkResults, LoadUpdateResult, LoadStartStep,
       LoadUpdateStep, LoadUpdateExecution, LoadReopen, BeginWrite, BeginStatusChange
<1>4. CASE Delete
  BY <1>4 DEF Delete
<1> QED
  BY <1>1, <1>2, <1>3, <1>4
     DEF Next, Handle, Proceed, CommitFails, NotifyResults, Flush, FlushFails, Announce, Die, vars

\* Once the requests that loaded another status are gone, the results of a
\* closed execution do not change any more.
THEOREM ClosedExecutionFreezes == Spec => FrozenOnceDrained
<1>1. TypeOK /\ RequestsOK /\ [Next]_vars =>
        [(exec \in Terminal /\ exec' = exec /\ \A w \in Workers : ~Stale(w))
           => UNCHANGED <<result, stepResult>>]_vars
  BY FrozenStep
<1> QED
  BY <1>1, Typing, PTL DEF Spec, FrozenOnceDrained

-----------------------------------------------------------------------------
(***************************************************************************)
(* Failures are reported.  A row becomes failed in the commit of a result  *)
(* handler, whose patch holds failed only for rows it is going to look at  *)
(* again (WriteOK); a sweep writes blocked only (CloseOK).                 *)
(***************************************************************************)
LEMMA FailureInductive ==
  ASSUME ~CanFail, TypeOK, RequestsOK, FailureReported, [Next]_vars
  PROVE  FailureReported'
<1> SUFFICES ASSUME NEW r \in Rows, result'[r] = "failed", ~reported'[r]
             PROVE  \E v \in Workers : req'[v].pc = "notify" /\ r \in req'[v].fresh
  BY DEF FailureReported
<1>1. ASSUME NEW w \in Workers, req[w].pc # "notify", result[r] = "failed", ~reported[r],
             \A v \in Workers \ {w} : req'[v] = req[v]
      PROVE  \E v \in Workers : req'[v].pc = "notify" /\ r \in req'[v].fresh
  <2>1. PICK v \in Workers : req[v].pc = "notify" /\ r \in req[v].fresh
    BY <1>1 DEF FailureReported
  <2> QED
    BY <1>1, <2>1
<1>2. ASSUME NEW w \in Workers, Load(w)
      PROVE  \E v \in Workers : req'[v].pc = "notify" /\ r \in req'[v].fresh
  <2>1. PICK q : /\ req[w].pc = "idle"
                 /\ req' = [req EXCEPT ![w] = q]
                 /\ UNCHANGED <<result, reported>>
    BY <1>2 DEF Load, LoadCreateResult, LoadBulkResults, LoadUpdateResult, LoadStartStep,
         LoadUpdateStep, LoadUpdateExecution, LoadReopen, BeginWrite, BeginStatusChange, Begin
  <2> QED
    BY <1>1, <2>1 DEF TypeOK
<1>3. ASSUME NEW w \in Workers, CommitResults(w)
      PROVE  \E v \in Workers : req'[v].pc = "notify" /\ r \in req'[v].fresh
  <2>1. /\ req[w].pc = "write" /\ WriteRows(w)
        /\ req' = [req EXCEPT ![w] = [Idle EXCEPT !.pc = "notify", !.fresh = req[w].fresh]]
    BY <1>3 DEF CommitResults
  <2>2. reported' = [k \in Rows |-> IF result[k] # "failed" /\ result'[k] = "failed"
                                    THEN FALSE ELSE reported[k]]
    BY <2>1 DEF WriteRows
  <2>3. CASE result[r] = "failed"
    <3>1. ~reported[r]
      BY <2>2, <2>3
    <3> QED
      BY <1>1, <2>1, <2>3, <3>1 DEF TypeOK
  <2>4. CASE result[r] # "failed"
    <3>1. result'[r] = IF req[w].result[r] = Keep THEN result[r] ELSE req[w].result[r]
      BY <2>1 DEF WriteRows, Applied, TypeOK
    <3>2. r \in req[w].fresh
      BY <2>1, <2>4, <3>1 DEF RequestsOK, WriteOK
    <3>3. req'[w] = [Idle EXCEPT !.pc = "notify", !.fresh = req[w].fresh]
      BY <2>1 DEF TypeOK
    <3> QED
      BY <3>2, <3>3 DEF Idle
  <2> QED
    BY <2>3, <2>4
<1>4. ASSUME NEW w \in Workers, CommitStatus(w)
      PROVE  \E v \in Workers : req'[v].pc = "notify" /\ r \in req'[v].fresh
  <2>1. req[w].pc = "close" /\ WriteRows(w) /\ \A v \in Workers \ {w} : req'[v] = req[v]
    BY <1>4 DEF CommitStatus, TypeOK
  <2>2. req[w].result[r] \in {Keep, "blocked"}
    BY <2>1 DEF RequestsOK, CloseOK
  <2>3. result'[r] = IF req[w].result[r] = Keep THEN result[r] ELSE req[w].result[r]
    BY <2>1 DEF WriteRows, Applied, TypeOK
  <2>4. result[r] = "failed"
    BY <2>2, <2>3
  <2>5. ~reported[r]
    BY <2>1, <2>4 DEF WriteRows
  <2> QED
    BY <1>1, <2>1, <2>4, <2>5
<1>5. ASSUME NEW w \in Workers, NotifyResults(w)
      PROVE  \E v \in Workers : req'[v].pc = "notify" /\ r \in req'[v].fresh
  <2>1. /\ UNCHANGED result
        /\ reported' = [k \in Rows |-> reported[k] \/ (k \in req[w].fresh /\ result[k] = "failed")]
        /\ \A v \in Workers \ {w} : req'[v] = req[v]
    BY <1>5 DEF NotifyResults, Finish, TypeOK
  <2>2. ~reported[r] /\ r \notin req[w].fresh
    BY <2>1
  <2>3. PICK v \in Workers : req[v].pc = "notify" /\ r \in req[v].fresh
    BY <2>1, <2>2 DEF FailureReported
  <2> QED
    BY <2>1, <2>2, <2>3
<1>6. ASSUME NEW w \in Workers,
             CommitFails(w) \/ FlushFails(w) \/ Flush(w) \/ Announce(w)
      PROVE  \E v \in Workers : req'[v].pc = "notify" /\ r \in req'[v].fresh
  <2>1. /\ req[w].pc # "notify" /\ UNCHANGED <<result, reported>>
        /\ \A v \in Workers \ {w} : req'[v] = req[v]
    BY <1>6 DEF CommitFails, FlushFails, Flush, Announce, Finish, TypeOK
  <2> QED
    BY <1>1, <2>1
<1>7. ASSUME NEW w \in Workers, Die(w)
      PROVE  FALSE
  BY <1>7 DEF Die
<1>8. CASE Delete
  BY <1>8 DEF Delete, Absent
<1>9. CASE UNCHANGED vars
  BY <1>9 DEF vars, FailureReported
<1> QED
  BY <1>2, <1>3, <1>4, <1>5, <1>6, <1>7, <1>8, <1>9 DEF Next, Handle, Proceed

\* However writes of results overlap, a failed result has been reported since
\* it became failed, or a handler is about to, provided no handler dies.
THEOREM FailuresReported ==
  ASSUME ~CanFail
  PROVE  Spec => []FailureReported
<1>1. Init => FailureReported
  BY DEF Init, FailureReported, Absent
<1>2. TypeOK /\ RequestsOK /\ FailureReported /\ [Next]_vars => FailureReported'
  BY FailureInductive
<1> QED
  BY <1>1, <1>2, Typing, PTL DEF Spec

-----------------------------------------------------------------------------
(***************************************************************************)
(* One request at a time.  Nothing moves between a load and its commit, so *)
(* the sweep of a completion still covers everything that runs.            *)
(***************************************************************************)
OneAtATime == \A v, w \in Workers : v = w

SweepCovers(w) ==
  /\ \A r \in Rows : result[r] = "running" => req[w].result[r] = "blocked"
  /\ \A x \in StepRows : stepResult[x] = "running" => req[w].step[x] = "blocked"

Undisturbed ==
  \A w \in Workers :
    /\ req[w].pc \in {"write", "flush", "close"} => exec \in {req[w].seen, Deleted}
    /\ req[w].pc = "close" /\ Completes(w) => SweepCovers(w)

\* A sweep that covers what runs leaves nothing running.
LEMMA CoveredSweep ==
  ASSUME TypeOK, RequestsOK, NEW w \in Workers,
         req[w].pc = "close", SweepCovers(w), WriteRows(w)
  PROVE  /\ \A r \in Rows : result'[r] # "running"
         /\ \A x \in StepRows : stepResult'[x] # "running"
<1>1. /\ \A r \in Rows : result'[r] = IF req[w].result[r] = Keep THEN result[r]
                                      ELSE req[w].result[r]
      /\ \A x \in StepRows : stepResult'[x] = IF req[w].step[x] = Keep THEN stepResult[x]
                                              ELSE req[w].step[x]
  BY DEF WriteRows, Applied, TypeOK
<1>2. /\ \A r \in Rows : req[w].result[r] \in {Keep, "blocked"}
      /\ \A x \in StepRows : req[w].step[x] \in {Keep, "blocked"}
  BY DEF RequestsOK, CloseOK
<1> QED
  BY <1>1, <1>2 DEF SweepCovers, Keep

LEMMA SequentialInductive ==
  ASSUME OneAtATime, TypeOK, RequestsOK, Undisturbed, CompletedHasNothingRunning,
         [Next]_vars
  PROVE  Undisturbed' /\ CompletedHasNothingRunning'
\* The one worker there is: after its step, its request is all there is to check.
<1>1. ASSUME NEW w \in Workers, req'[w].pc \in {"idle", "notify", "announce"}
      PROVE  Undisturbed'
  BY <1>1 DEF OneAtATime, Undisturbed
<1>2. ASSUME NEW w \in Workers, Load(w)
      PROVE  Undisturbed' /\ CompletedHasNothingRunning'
  <2>1. PICK q : /\ req' = [req EXCEPT ![w] = q]
                 /\ q.pc \in {"write", "flush"} /\ q.seen = exec
                 /\ UNCHANGED <<exec, result, stepResult>>
    <3>1. CASE LoadUpdateExecution(w) \/ LoadReopen(w)
      <4>1. PICK st \in ExecutionStatuses :
              BeginStatusChange(w, st)
        BY <3>1 DEF LoadUpdateExecution, LoadReopen, ExecutionStatuses
      <4> DEFINE q == [Idle EXCEPT !.pc = "flush", !.seen = exec, !.to = st]
      <4>2. q.pc = "flush" /\ q.seen = exec
        BY DEF Idle
      <4>3. req' = [req EXCEPT ![w] = q] /\ UNCHANGED <<exec, result, stepResult>>
        BY <4>1 DEF BeginStatusChange, Begin
      <4> HIDE DEF q
      <4> QED
        BY <4>2, <4>3
    <3>2. CASE ~(LoadUpdateExecution(w) \/ LoadReopen(w))
      <4>1. PICK rp, sp, to, fresh : BeginWrite(w, rp, sp, to, fresh)
        BY <1>2, <3>2 DEF Load, LoadCreateResult, LoadBulkResults, LoadUpdateResult,
             LoadStartStep, LoadUpdateStep
      <4> DEFINE q == [pc |-> "write", seen |-> exec, to |-> to, result |-> rp,
                       step |-> sp, fresh |-> fresh]
      <4>2. req' = [req EXCEPT ![w] = q] /\ UNCHANGED <<exec, result, stepResult>>
        BY <4>1 DEF BeginWrite, Begin
      <4>3. q.pc = "write" /\ q.seen = exec
        OBVIOUS
      <4> HIDE DEF q
      <4> QED
        BY <4>2, <4>3
    <3> QED
      BY <3>1, <3>2
  <2>2. req'[w] = q
    BY <2>1 DEF TypeOK
  <2>3. Undisturbed'
    BY <2>1, <2>2 DEF OneAtATime, Undisturbed
  <2> QED
    BY <2>1, <2>3 DEF CompletedHasNothingRunning
<1>3. ASSUME NEW w \in Workers, CommitResults(w)
      PROVE  Undisturbed' /\ CompletedHasNothingRunning'
  <2>1. /\ req[w].pc = "write" /\ exec # Deleted
        /\ req[w].seen \notin Terminal
        /\ req[w].to \in {req[w].seen, "in_progress"}
    BY <1>3 DEF CommitResults, RequestsOK, WriteOK
  <2>2. exec = req[w].seen
    BY <2>1 DEF Undisturbed
  <2>3. exec' # "completed"
    BY <1>3, <2>1, <2>2 DEF CommitResults, SetExec, Terminal
  <2>4. req'[w].pc = "notify"
    BY <1>3 DEF CommitResults, TypeOK, Idle
  <2> QED
    BY <1>1, <2>3, <2>4 DEF CompletedHasNothingRunning
<1>4. ASSUME NEW w \in Workers, Flush(w)
      PROVE  Undisturbed' /\ CompletedHasNothingRunning'
  <2> DEFINE q == [req[w] EXCEPT !.pc = "close",
                     !.result = IF Completes(w) THEN SweepResults ELSE NoResults,
                     !.step = IF Completes(w) THEN SweepSteps ELSE NoSteps]
  <2>1. req' = [req EXCEPT ![w] = q] /\ UNCHANGED <<exec, result, stepResult>>
    BY <1>4 DEF Flush, TypeOK
  <2>2. req[w] \in Request /\ req[w].pc = "flush"
    BY <1>4 DEF Flush, TypeOK
  <2>3. /\ q.seen = req[w].seen /\ q.to = req[w].to
        /\ Completes(w) => q.result = SweepResults /\ q.step = SweepSteps
    BY <2>2 DEF Request
  <2>4. req'[w] = q
    BY <2>1 DEF TypeOK
  <2> HIDE DEF q
  <2>5. Completes(w)' => SweepCovers(w)'
    <3>1. SUFFICES ASSUME Completes(w)' PROVE SweepCovers(w)'
      OBVIOUS
    <3>2. req'[w].result = SweepResults /\ req'[w].step = SweepSteps
      BY <3>1, <2>3, <2>4 DEF Completes
    <3> QED
      BY <3>2, <2>1 DEF SweepCovers, SweepResults, SweepSteps
  <2>6. exec' \in {req'[w].seen, Deleted}
    BY <2>1, <2>2, <2>3, <2>4 DEF Undisturbed
  <2>7. Undisturbed'
    BY <2>5, <2>6 DEF OneAtATime, Undisturbed
  <2> QED
    BY <2>1, <2>7 DEF CompletedHasNothingRunning
<1>5. ASSUME NEW w \in Workers, CommitStatus(w)
      PROVE  Undisturbed' /\ CompletedHasNothingRunning'
  <2>1. /\ req[w].pc = "close" /\ req[w].to # req[w].seen
        /\ WriteRows(w) /\ exec' = req[w].to
    BY <1>5 DEF CommitStatus, SetExec, RequestsOK, CloseOK
  <2>2. req'[w].pc \in {"idle", "announce"}
    BY <1>5 DEF CommitStatus, TypeOK, Idle
  <2>3. CASE exec' = "completed"
    <3>1. SweepCovers(w)
      BY <2>1, <2>3 DEF Undisturbed, Completes
    <3> QED
      BY <1>1, <2>1, <2>2, <3>1, CoveredSweep DEF CompletedHasNothingRunning
  <2>4. CASE exec' # "completed"
    BY <1>1, <2>2, <2>4 DEF CompletedHasNothingRunning
  <2> QED
    BY <2>3, <2>4
<1>6. ASSUME NEW w \in Workers,
             CommitFails(w) \/ FlushFails(w) \/ NotifyResults(w) \/ Announce(w) \/ Die(w)
      PROVE  Undisturbed' /\ CompletedHasNothingRunning'
  <2>1. req'[w].pc = "idle" /\ UNCHANGED <<exec, result, stepResult>>
    BY <1>6 DEF CommitFails, FlushFails, NotifyResults, Announce, Die, Finish, TypeOK, Idle
  <2> QED
    BY <1>1, <2>1 DEF CompletedHasNothingRunning
<1>7. CASE Delete
  <2>1. /\ exec' = Deleted /\ UNCHANGED req
        /\ \A r \in Rows : result'[r] # "running"
        /\ \A x \in StepRows : stepResult'[x] # "running"
    BY <1>7 DEF Delete, Absent
  <2> QED
    BY <2>1 DEF Undisturbed, SweepCovers, Completes, CompletedHasNothingRunning
<1>8. CASE UNCHANGED vars
  BY <1>8 DEF vars, Undisturbed, SweepCovers, Completes, CompletedHasNothingRunning
<1> QED
  BY <1>2, <1>3, <1>4, <1>5, <1>6, <1>7, <1>8 DEF Next, Handle, Proceed

\* With requests served one at a time, and whatever dies on the way, nothing is
\* left running in a completed execution.
THEOREM CompletionSweeps ==
  ASSUME OneAtATime
  PROVE  Spec => []CompletedHasNothingRunning
<1>1. Init => Undisturbed /\ CompletedHasNothingRunning
  BY DEF Init, Undisturbed, Idle, CompletedHasNothingRunning
<1>2. /\ TypeOK /\ RequestsOK /\ Undisturbed /\ CompletedHasNothingRunning
      /\ [Next]_vars
      => (Undisturbed /\ CompletedHasNothingRunning)'
  BY SequentialInductive
<1> QED
  BY <1>1, <1>2, Typing, PTL DEF Spec

\* With requests served one at a time, no result and no step result changes while the
\* execution stays closed: a request that found it open has committed before it closed.
THEOREM ClosedIsReadOnly ==
  ASSUME OneAtATime
  PROVE  Spec => ReadOnlyWhenClosed
<1>1. Init => Undisturbed /\ CompletedHasNothingRunning
  BY DEF Init, Undisturbed, Idle, CompletedHasNothingRunning
<1>2. /\ TypeOK /\ RequestsOK /\ Undisturbed /\ CompletedHasNothingRunning
      /\ [Next]_vars
      => (Undisturbed /\ CompletedHasNothingRunning)'
  BY SequentialInductive
<1>3. TypeOK /\ RequestsOK /\ Undisturbed /\ [Next]_vars =>
        [(exec \in Terminal /\ exec' = exec) => UNCHANGED <<result, stepResult>>]_vars
  <2> SUFFICES ASSUME TypeOK, RequestsOK, Undisturbed, [Next]_vars, exec \in Terminal, exec' = exec
               PROVE  UNCHANGED <<result, stepResult>>
    OBVIOUS
  <2>1. \A w \in Workers : ~Stale(w)
    BY DEF Undisturbed, Stale, Terminal, Deleted
  <2> QED
    BY <2>1, FrozenStep
<1> QED
  BY <1>1, <1>2, <1>3, Typing, PTL DEF Spec, ReadOnlyWhenClosed

-----------------------------------------------------------------------------
(* Imports and reruns. *)

ResultStatuses == {"not_run", "passed", "failed"}
CaseRows == [external : {"k.n", "none"}, name : {"n", "k.n"}, archived : BOOLEAN]
ExecutionRows ==
  [source : Nat, closed : BOOLEAN, scope : {"all", "failed"}, known : SUBSET Things]
ResultRows ==
  [execution : Nat, case : Things \cup {None}, status : ResultStatuses, steps : Nat]
EffectRows == [was : ResultStatuses, status : ResultStatuses, failed : BOOLEAN, changes : BOOLEAN]

\* The tables are tables, and none of their rows is reported that is not there.
ImportTablesTyped ==
  /\ serial \in BOOLEAN
  /\ DOMAIN case \subseteq Things /\ case \in [DOMAIN case -> CaseRows]
  /\ executions \in Seq(ExecutionRows)
  /\ results \in Seq(ResultRows)
  /\ importing = [w \in Importers |-> importing[w]]

Busy(w) == importing[w].op # "none"

\* A rerun about to be written takes each case of its source that is still there, unless it is
\* archived or has passed and only the others are wanted.
RerunPending(w) ==
  I!Does(w, "rerun") =>
    LET r == importing[w] IN
    /\ r.source \in Nat /\ r.scope \in {"all", "failed"}
    /\ r.known \subseteq Things /\ r.cases \subseteq Things
    /\ IsFiniteSet(r.cases) /\ None \notin r.cases
    /\ \A c \in r.known \cap DOMAIN case :
         \/ case[c].archived \/ c \in r.cases
         \/ r.scope = "failed" /\ <<r.source, c>> \in passed

\* What a file is about to write is failed only if it will be reported, unless it was failed
\* all along and is not written.
ImportPending(w) ==
  I!Does(w, "import") =>
    LET effect == importing[w].effect IN
    /\ importing[w].robot \in BOOLEAN
    /\ effect \in [DOMAIN effect -> EffectRows]
    /\ DOMAIN effect \subseteq DOMAIN results /\ importing[w].bare \subseteq DOMAIN results
    /\ \A r \in DOMAIN effect :
         /\ effect[r].status \in {"passed", "failed"}
         /\ effect[r].status = "failed" /\ (effect[r].changes \/ effect[r].was # "failed")
              => effect[r].failed

UpdatePending(w) ==
  I!Does(w, "update") =>
    importing[w].row \in DOMAIN results /\ importing[w].status \in {"passed", "failed"}

ReportPending(w) == I!Does(w, "report") => importing[w].rows \subseteq DOMAIN results

RequestsPending ==
  \A w \in Importers :
    RerunPending(w) /\ ImportPending(w) /\ UpdatePending(w) /\ ReportPending(w)

\* A row that passed is remembered, as long as its case is there.
PassesRemembered ==
  \A r \in DOMAIN results :
    results[r].status = "passed" /\ results[r].case # None =>
      <<results[r].execution, results[r].case>> \in passed

\* One request at a time: the rows an import will give a step have none.
StepsInTurn ==
  serial =>
    /\ \A v, w \in Importers : Busy(v) /\ Busy(w) => v = w
    /\ \A r \in DOMAIN results : results[r].steps <= 1
    /\ \A w \in Importers : I!Does(w, "import") =>
         \A r \in importing[w].bare : results[r].steps = 0

ImportsInd ==
  /\ ImportTablesTyped /\ I!TypeOK /\ RequestsPending
  /\ I!FailuresReported /\ I!RerunsMissNothing /\ PassesRemembered /\ StepsInTurn

\* Rows appended to rows.
LEMMA RowsAppended ==
  ASSUME NEW S, NEW s \in Seq(S), NEW t \in Seq(S)
  PROVE  /\ s \o t \in Seq(S)
         /\ DOMAIN s \subseteq DOMAIN (s \o t)
         /\ \A i \in DOMAIN s : (s \o t)[i] = s[i]
         /\ \A i \in DOMAIN (s \o t) \ DOMAIN s :
              i - Len(s) \in DOMAIN t /\ (s \o t)[i] = t[i - Len(s)]
         /\ \A j \in DOMAIN t :
              Len(s) + j \in DOMAIN (s \o t) \ DOMAIN s /\ (s \o t)[Len(s) + j] = t[j]
<1>1. /\ Len(s) \in Nat /\ DOMAIN s = 1 .. Len(s) /\ Len(t) \in Nat /\ DOMAIN t = 1 .. Len(t)
      /\ s \o t \in Seq(S) /\ DOMAIN (s \o t) = 1 .. Len(s) + Len(t)
  OBVIOUS
<1>2. \A i \in 1 .. Len(s) + Len(t) : (s \o t)[i] = IF i <= Len(s) THEN s[i] ELSE t[i - Len(s)]
  OBVIOUS
<1> QED
  BY <1>1, <1>2

\* Changing each row of a table leaves a table.
LEMMA RowsChanged ==
  ASSUME NEW S, NEW s \in Seq(S), NEW t, DOMAIN t = DOMAIN s, t = [i \in DOMAIN s |-> t[i]],
         \A i \in DOMAIN s : t[i] \in S
  PROVE  t \in Seq(S) /\ Len(t) = Len(s)
<1>1. Len(s) \in Nat /\ DOMAIN s = 1 .. Len(s)
  OBVIOUS
<1>2. t \in [1 .. Len(s) -> S]
  BY <1>1
<1> QED
  BY <1>1, <1>2

\* The model's way of counting is the library's.
LEMMA SameSizeOfImports == \A set : I!Cardinality(set) = Cardinality(set)
  BY DEF Cardinality, I!Cardinality

\* A finite set listed has each of its members once.
LEMMA ListedOnce ==
  ASSUME NEW set, IsFiniteSet(set)
  PROVE  LET list == I!SetToSeq(set) IN
         /\ list \in Seq(set) /\ Cardinality(set) \in Nat
         /\ DOMAIN list = 1 .. Cardinality(set)
         /\ \A i, j \in DOMAIN list : list[i] = list[j] => i = j
         /\ \A x \in set : \E i \in DOMAIN list : list[i] = x
<1> DEFINE n == Cardinality(set)
           list == I!SetToSeq(set)
<1>1. n \in Nat
  BY FS_CardinalityType
<1>2. ExistsBijection(1 .. n, set)
  BY FS_NatBijection, FS_CardinalityType, FS_CountingElements, <1>1
<1>3. PICK f \in [1 .. n -> set] : \A i, j \in 1 .. n : f[i] = f[j] => i = j
  BY <1>2 DEF ExistsBijection, Bijection, Injection, Surjection, IsInjective
<1>4. I!IsInjective(f)
  BY <1>3 DEF I!IsInjective
<1>5. list \in [1 .. n -> set] /\ I!IsInjective(list)
  BY <1>3, <1>4, SameSizeOfImports DEF I!SetToSeq
<1>6. DOMAIN list = 1 .. n /\ \A i, j \in 1 .. n : list[i] = list[j] => i = j
  BY <1>5 DEF I!IsInjective
<1>7. list \in Injection(1 .. n, set)
  BY <1>5, <1>6 DEF Injection, IsInjective
<1>8. IsFiniteSet(1 .. n) /\ Cardinality(1 .. n) = n
  BY <1>1, FS_Interval
<1>9. \A x \in set : \E i \in 1 .. n : list[i] = x
  <2> SUFFICES ASSUME NEW x \in set, \A i \in 1 .. n : list[i] # x PROVE FALSE
    OBVIOUS
  <2>1. IsFiniteSet(set \ {x}) /\ Cardinality(set \ {x}) = n - 1
    BY FS_RemoveElement
  <2>2. list \in [1 .. n -> set \ {x}]
    BY <1>5
  <2>3. list \in Injection(1 .. n, set \ {x})
    BY <2>2, <1>6 DEF Injection, IsInjective
  <2>4. n <= n - 1
    BY <2>1, <2>3, <1>8, FS_Injection DEF ExistsInjection
  <2> QED
    BY <2>4, <1>1
<1>10. list \in Seq(set)
  BY <1>1, <1>5
<1> QED
  BY <1>1, <1>6, <1>9, <1>10

\* The new rows of an execution, one for each entry of a list of cases.
LEMMA NewRowsOf ==
  ASSUME NEW cs \in Seq(Things \cup {None}), NEW e \in Nat
  PROVE  /\ I!NewRows(e, cs) \in Seq(ResultRows) /\ DOMAIN I!NewRows(e, cs) = DOMAIN cs
         /\ \A i \in DOMAIN cs :
              /\ I!NewRows(e, cs)[i].execution = e /\ I!NewRows(e, cs)[i].case = cs[i]
              /\ I!NewRows(e, cs)[i].status = "not_run" /\ I!NewRows(e, cs)[i].steps = 0
<1> DEFINE rows_ == I!NewRows(e, cs)
<1>1. Len(cs) \in Nat /\ DOMAIN cs = 1 .. Len(cs) /\ \A i \in DOMAIN cs : cs[i] \in Things \cup {None}
  OBVIOUS
<1>2. rows_ = [i \in DOMAIN cs |-> [execution |-> e, case |-> cs[i], status |-> "not_run", steps |-> 0]]
  BY DEF I!NewRows
<1>3. \A i \in DOMAIN cs : rows_[i] \in ResultRows
  BY <1>1, <1>2 DEF ResultRows, ResultStatuses
<1>4. rows_ \in [1 .. Len(cs) -> ResultRows]
  BY <1>1, <1>2, <1>3
<1>5. rows_ \in Seq(ResultRows)
  BY <1>1, <1>4
<1> QED
  BY <1>2, <1>5

\* What a step leaves of the tables: old rows keep their execution, and their case as long as
\* it is there; new rows are of a new execution; an archived case stays so; a pass is not forgotten.
TablesKept ==
  /\ DOMAIN results \subseteq DOMAIN results'
  /\ \A r \in DOMAIN results :
       /\ results'[r].execution = results[r].execution
       /\ results'[r].case \in {results[r].case, None}
       /\ results'[r].case # results[r].case => results[r].case \notin DOMAIN case'
  /\ \A r \in DOMAIN results' \ DOMAIN results : results'[r].execution \notin DOMAIN executions
  /\ DOMAIN case' \subseteq DOMAIN case
  /\ \A c \in DOMAIN case' : case[c].archived => case'[c].archived
  /\ passed \subseteq passed'
  /\ DOMAIN executions \subseteq DOMAIN executions'
  /\ \A e \in DOMAIN executions :
       /\ executions'[e].source = executions[e].source
       /\ executions'[e].scope = executions[e].scope
       /\ executions'[e].known = executions[e].known

\* The reruns there are still miss nothing, and only new executions are to be looked at.
LEMMA RerunsKept ==
  ASSUME I!RerunsMissNothing, TablesKept,
         \A e \in DOMAIN executions' \ DOMAIN executions :
           executions'[e].source # 0 =>
             /\ \A r, s \in I!RowsOf(e)' :
                  results'[r].case = results'[s].case /\ results'[r].case # None => r = s
             /\ \A c \in executions'[e].known \cap DOMAIN case' :
                  \/ case'[c].archived \/ c \in I!CasesOf(e)'
                  \/ executions'[e].scope = "failed" /\ <<executions'[e].source, c>> \in passed'
  PROVE  I!RerunsMissNothing'
<1> SUFFICES ASSUME NEW e \in DOMAIN executions', executions'[e].source # 0
             PROVE  /\ \A r, s \in I!RowsOf(e)' :
                         results'[r].case = results'[s].case /\ results'[r].case # None => r = s
                    /\ \A c \in executions'[e].known \cap DOMAIN case' :
                         \/ case'[c].archived \/ c \in I!CasesOf(e)'
                         \/ executions'[e].scope = "failed" /\ <<executions'[e].source, c>> \in passed'
  BY DEF I!RerunsMissNothing
<1>1. CASE e \notin DOMAIN executions
  BY <1>1
<1>2. CASE e \in DOMAIN executions
  <2>1. /\ executions[e].source # 0 /\ executions'[e].source = executions[e].source
        /\ executions'[e].scope = executions[e].scope /\ executions'[e].known = executions[e].known
    BY <1>2 DEF TablesKept
  <2>2. \A r \in I!RowsOf(e)' : r \in I!RowsOf(e)
    BY <1>2 DEF I!RowsOf, TablesKept
  <2>3. \A r \in I!RowsOf(e) : r \in I!RowsOf(e)'
    BY DEF I!RowsOf, TablesKept
  <2>4. \A r, s \in I!RowsOf(e) : results[r].case = results[s].case /\ results[r].case # None => r = s
    BY <1>2, <2>1 DEF I!RerunsMissNothing
  <2>5. \A r, s \in I!RowsOf(e)' :
          results'[r].case = results'[s].case /\ results'[r].case # None => r = s
    BY <2>2, <2>4 DEF TablesKept, I!RowsOf
  <2>6. ASSUME NEW c \in executions[e].known \cap DOMAIN case', c \in I!CasesOf(e)
        PROVE  c \in I!CasesOf(e)'
    <3>1. PICK r \in I!RowsOf(e) : results[r].case = c /\ c # None
      BY <2>6 DEF I!CasesOf
    <3>2. r \in DOMAIN results /\ results'[r].case = c
      BY <3>1 DEF TablesKept, I!RowsOf
    <3> QED
      BY <2>3, <3>1, <3>2 DEF I!CasesOf
  <2>7. \A c \in executions[e].known \cap DOMAIN case :
          \/ case[c].archived \/ c \in I!CasesOf(e)
          \/ executions[e].scope = "failed" /\ <<executions[e].source, c>> \in passed
    BY <1>2, <2>1 DEF I!RerunsMissNothing
  <2>8. ASSUME NEW c \in executions'[e].known \cap DOMAIN case'
        PROVE  \/ case'[c].archived \/ c \in I!CasesOf(e)'
               \/ executions'[e].scope = "failed" /\ <<executions'[e].source, c>> \in passed'
    <3>1. c \in executions[e].known \cap DOMAIN case
      BY <2>1 DEF TablesKept
    <3> QED
      BY <2>1, <2>6, <2>7, <3>1 DEF TablesKept
  <2> QED
    BY <2>5, <2>8
<1> QED
  BY <1>1, <1>2

\* The greatest of one or two entries.
LEMMA LastOfTwo ==
  ASSUME NEW set \in SUBSET {1, 2}, set # {}
  PROVE  I!Max(set) = IF 2 \in set THEN 2 ELSE 1
<1> DEFINE m == IF 2 \in set THEN 2 ELSE 1
<1>1. m \in set /\ \A x \in set : m >= x
  <2>1. 2 >= 1 /\ 2 >= 2 /\ 1 >= 1 /\ \A x \in set : x = 1 \/ x = 2
    OBVIOUS
  <2>2. CASE 2 \in set
    BY <2>1, <2>2
  <2>3. CASE 2 \notin set
    BY <2>1, <2>3
  <2> QED
    BY <2>2, <2>3
<1>2. \A x \in set : (\A y \in set : x >= y) => x = m
  BY <1>1
<1> HIDE DEF m
<1>3. I!Max(set) \in set /\ \A y \in set : I!Max(set) >= y
  BY <1>1 DEF I!Max
<1>4. I!Max(set) = m
  BY <1>2, <1>3
<1> QED
  BY <1>4 DEF m

\* The entries of a file.
LEMMA FileShape ==
  ASSUME NEW file \in I!Files
  PROVE  /\ DOMAIN file = {1, 2} /\ Len(file) = 2
         /\ file[1].status \in {"passed", "failed"} /\ file[2].status \in {"passed", "failed"}
<1>1. PICK s \in I!Outcomes, keys \in {<<"k.n", "n">>, <<"n">>} :
        file = <<I!Entry(<<"k.n", "n">>, s), I!Entry(keys, IF s = "failed" THEN "passed" ELSE "failed")>>
  BY DEF I!Files
<1>2. /\ file[1].status = s /\ file[2].status \in {"passed", "failed"}
      /\ DOMAIN file = {1, 2} /\ Len(file) = 2
  BY <1>1 DEF I!Entry
<1> QED
  BY <1>1, <1>2 DEF I!Outcomes

\* What a row is at each entry of a file.
LEMMA StatusOfEntries ==
  ASSUME NEW e, NEW file \in I!Files, NEW r
  PROVE  LET names(i) == r \in I!Find(e, file[i].keys) IN
         /\ I!StatusAt(e, file, 1, r) = results[r].status
         /\ I!StatusAt(e, file, 2, r) = IF names(1) THEN file[1].status ELSE results[r].status
         /\ I!StatusAt(e, file, 3, r) = IF names(2) THEN file[2].status
                                        ELSE IF names(1) THEN file[1].status ELSE results[r].status
<1> DEFINE names(i) == r \in I!Find(e, file[i].keys)
           before(i) == {j \in 1 .. i - 1 : names(j)}
<1>1. \A i : I!StatusAt(e, file, i, r) =
        IF before(i) = {} THEN results[r].status ELSE file[I!Max(before(i))].status
  BY DEF I!StatusAt
<1>2. 1 .. 0 = {} /\ 1 .. 1 = {1} /\ 1 .. 2 = {1, 2} /\ 1 - 1 = 0 /\ 2 - 1 = 1 /\ 3 - 1 = 2
  OBVIOUS
<1>3. before(1) = {} /\ before(2) = {j \in {1} : names(j)} /\ before(3) = {j \in {1, 2} : names(j)}
  BY <1>2
<1>4. before(2) # {} => names(1) /\ I!Max(before(2)) = 1
  BY <1>3, LastOfTwo
<1>5. before(3) # {} => I!Max(before(3)) = IF names(2) THEN 2 ELSE 1
  BY <1>3, LastOfTwo
<1>6. (before(2) = {} <=> ~names(1)) /\ (before(3) = {} <=> ~names(1) /\ ~names(2))
  BY <1>3
<1> HIDE DEF before
<1>7. before(1) = {}
  BY <1>3
<1>8. I!StatusAt(e, file, 1, r) = results[r].status
  BY <1>1, <1>7
<1>9. I!StatusAt(e, file, 2, r) = IF names(1) THEN file[1].status ELSE results[r].status
  BY <1>1, <1>4, <1>6
<1>10. I!StatusAt(e, file, 3, r) = IF names(2) THEN file[2].status
                                   ELSE IF names(1) THEN file[1].status ELSE results[r].status
  BY <1>1, <1>5, <1>6
<1> QED
  BY <1>8, <1>9, <1>10

\* A row that a file leaves failed though it changed it, or that was not failed before, is
\* newly failed.
LEMMA EffectsReport ==
  ASSUME ImportTablesTyped, NEW e, NEW file \in I!Files
  PROVE  LET effect == I!Effects(e, file) IN
         /\ effect \in [DOMAIN effect -> EffectRows] /\ DOMAIN effect \subseteq DOMAIN results
         /\ \A r \in DOMAIN effect :
              /\ effect[r].status \in {"passed", "failed"}
              /\ effect[r].status = "failed" /\ (effect[r].changes \/ effect[r].was # "failed")
                   => effect[r].failed
<1> DEFINE effect == I!Effects(e, file)
           names(i, r) == r \in I!Find(e, file[i].keys)
           before(i, r) == I!StatusAt(e, file, i, r)
           naming(r) == {i \in DOMAIN file : names(i, r)}
<1>1. /\ DOMAIN file = {1, 2} /\ Len(file) = 2
      /\ file[1].status \in {"passed", "failed"} /\ file[2].status \in {"passed", "failed"}
  BY FileShape
<1>2. effect = [r \in {x \in I!RowsOf(e) : naming(x) # {}} |->
         [was |-> results[r].status, status |-> before(Len(file) + 1, r),
          failed |-> \E i \in naming(r) : I!NewlyFails(e, file, i, r),
          changes |-> \E i \in naming(r) : file[i].status # before(i, r)]]
  BY DEF I!Effects
<1>3. /\ \A r : before(1, r) = results[r].status
      /\ \A r : before(2, r) = IF names(1, r) THEN file[1].status ELSE results[r].status
      /\ \A r : before(3, r) = IF names(2, r) THEN file[2].status
                               ELSE IF names(1, r) THEN file[1].status ELSE results[r].status
  BY StatusOfEntries
<1>4. \A i, r : I!NewlyFails(e, file, i, r) <=> file[i].status = "failed" /\ before(i, r) # "failed"
  BY DEF I!NewlyFails
<1>5. \A r \in DOMAIN results : results[r].status \in ResultStatuses
  <2>1. results \in Seq(ResultRows) /\ \A r \in DOMAIN results : results[r] \in ResultRows
    BY DEF ImportTablesTyped
  <2> QED
    BY <2>1 DEF ResultRows
<1>6. \A r : naming(r) = {i \in {1, 2} : names(i, r)}
  BY <1>1
<1>7. 2 + 1 = 3
  OBVIOUS
<1> HIDE DEF effect, before, names
<1>8. /\ DOMAIN effect = {x \in I!RowsOf(e) : names(1, x) \/ names(2, x)}
      /\ DOMAIN effect \subseteq DOMAIN results
  BY <1>2, <1>6 DEF I!RowsOf
<1>9. ASSUME NEW r \in DOMAIN effect
      PROVE  /\ effect[r] \in EffectRows
             /\ effect[r].status \in {"passed", "failed"}
             /\ effect[r].status = "failed" /\ (effect[r].changes \/ effect[r].was # "failed")
                  => effect[r].failed
  <2>1. /\ effect[r] = [was |-> results[r].status, status |-> before(3, r),
                        failed |-> \E i \in naming(r) : I!NewlyFails(e, file, i, r),
                        changes |-> \E i \in naming(r) : file[i].status # before(i, r)]
        /\ names(1, r) \/ names(2, r)
        /\ r \in DOMAIN results
    BY <1>1, <1>2, <1>7, <1>8
  <2>2. before(3, r) \in {"passed", "failed"} /\ results[r].status \in ResultStatuses
    BY <1>1, <1>3, <1>5, <1>8, <2>1
  <2>3. effect[r].status = before(3, r) /\ effect[r].was = results[r].status
    BY <2>1
  <2>4. effect[r].failed <=> \E i \in {1, 2} : names(i, r) /\ file[i].status = "failed" /\ before(i, r) # "failed"
    BY <2>1, <1>4, <1>6
  <2>5. effect[r].changes <=> \E i \in {1, 2} : names(i, r) /\ file[i].status # before(i, r)
    BY <2>1, <1>6
  <2>6. effect[r] \in EffectRows
    BY <2>1, <2>2 DEF EffectRows, ResultStatuses
  <2>7. ASSUME before(3, r) = "failed", effect[r].changes \/ results[r].status # "failed"
        PROVE  effect[r].failed
    BY <2>1, <2>4, <2>5, <2>7, <1>1, <1>3
  <2> QED
    BY <2>2, <2>3, <2>6, <2>7
<1>10. effect = [r \in DOMAIN effect |-> effect[r]]
  BY <1>2
<1>11. effect \in [DOMAIN effect -> EffectRows]
  BY <1>9, <1>10
<1> QED
  BY <1>8, <1>9, <1>11 DEF effect

\* What an invariant says of the tables' rows.
LEMMA RowsTyped ==
  ASSUME ImportTablesTyped
  PROVE  /\ DOMAIN results = 1 .. Len(results) /\ Len(results) \in Nat
         /\ DOMAIN executions = 1 .. Len(executions) /\ Len(executions) \in Nat
         /\ \A r \in DOMAIN results :
              /\ results[r] \in ResultRows
              /\ results[r].execution \in Nat /\ results[r].case \in Things \cup {None}
              /\ results[r].status \in ResultStatuses /\ results[r].steps \in Nat
         /\ \A e \in DOMAIN executions :
              /\ executions[e] \in ExecutionRows
              /\ executions[e].source \in Nat /\ executions[e].closed \in BOOLEAN
              /\ executions[e].scope \in {"all", "failed"} /\ executions[e].known \subseteq Things
         /\ \A c \in DOMAIN case :
              /\ case[c] \in CaseRows /\ case[c].archived \in BOOLEAN
              /\ case[c].external \in {"k.n", "none"} /\ case[c].name \in {"n", "k.n"}
<1>1. /\ results \in Seq(ResultRows) /\ executions \in Seq(ExecutionRows)
      /\ case \in [DOMAIN case -> CaseRows]
  BY DEF ImportTablesTyped
<1>2. \A r \in DOMAIN results : results[r] \in ResultRows
  BY <1>1
<1>3. \A e \in DOMAIN executions : executions[e] \in ExecutionRows
  BY <1>1
<1>4. \A c \in DOMAIN case : case[c] \in CaseRows
  BY <1>1
<1>5. \A r \in ResultRows : /\ r.execution \in Nat /\ r.case \in Things \cup {None}
                            /\ r.status \in ResultStatuses /\ r.steps \in Nat
  BY DEF ResultRows
<1>6. \A e \in ExecutionRows : /\ e.source \in Nat /\ e.closed \in BOOLEAN
                               /\ e.scope \in {"all", "failed"} /\ e.known \subseteq Things
  BY DEF ExecutionRows
<1>7. \A c \in CaseRows : /\ c.archived \in BOOLEAN
                          /\ c.external \in {"k.n", "none"} /\ c.name \in {"n", "k.n"}
  BY DEF CaseRows
<1> QED
  BY <1>1, <1>2, <1>3, <1>4, <1>5, <1>6, <1>7

\* Finitely many rows, finitely many cases of them.
LEMMA FewCases ==
  ASSUME ImportTablesTyped, NEW set \in SUBSET (DOMAIN results)
  PROVE  IsFiniteSet({results[r].case : r \in set})
<1>1. IsFiniteSet(DOMAIN results)
  BY RowsTyped, FS_Interval
<1>2. IsFiniteSet(set)
  BY <1>1, FS_Subset
<1> DEFINE f == [r \in set |-> results[r].case]
           image == {results[r].case : r \in set}
<1>3. f \in Surjection(set, image)
  BY DEF Surjection
<1> HIDE DEF f, image
<1>4. IsFiniteSet(image)
  BY <1>2, <1>3, FS_Surjection
<1> QED
  BY <1>4 DEF image

\* The requests of the others are as pending as they were if the tables are kept.
LEMMA OthersPending ==
  ASSUME RequestsPending, TablesKept, NEW w \in Importers, importing'[w] = importing[w]
  PROVE  RerunPending(w)' /\ ImportPending(w)' /\ UpdatePending(w)' /\ ReportPending(w)'
<1>1. RerunPending(w) /\ ImportPending(w) /\ UpdatePending(w) /\ ReportPending(w)
  BY DEF RequestsPending
<1>2. RerunPending(w)'
  BY <1>1 DEF RerunPending, I!Does, TablesKept
<1>3. ImportPending(w)'
  BY <1>1 DEF ImportPending, I!Does, TablesKept
<1>4. UpdatePending(w)' /\ ReportPending(w)'
  BY <1>1 DEF UpdatePending, ReportPending, I!Does, TablesKept
<1> QED
  BY <1>2, <1>3, <1>4

\* The state does not change.
LEMMA TablesUnchanged ==
  ASSUME UNCHANGED <<case, executions, results, passed>>
  PROVE  TablesKept
BY DEF TablesKept

-----------------------------------------------------------------------------
(* A request begins: only what it holds is new. *)
LEMMA BeginKeeps ==
  ASSUME ImportsInd, NEW w \in Importers, NEW r, I!Serve(w), I!Begins(w, r),
         r.op # "none", r.op # "report",
         RerunPending(w)', ImportPending(w)', UpdatePending(w)',
         r.op = "import" => \A x \in r.bare : results[x].steps = 0
  PROVE  ImportsInd'
<1>1. /\ importing' = [importing EXCEPT ![w] = r] /\ importing[w] = I!Idle
      /\ UNCHANGED <<serial, case, executions, results, toldFailed, passed>>
      /\ requests < ImportRequests /\ requests' = requests + 1
      /\ serial => \A v \in Importers : importing[v] = I!Idle
  BY DEF I!Begins, I!Serve
<1>2. importing = [v \in Importers |-> importing[v]]
  BY DEF ImportsInd, ImportTablesTyped
<1>3. importing'[w] = r /\ \A v \in Importers \ {w} : importing'[v] = importing[v]
  BY <1>1, <1>2
<1>4. I!Idle.op = "none"
  BY DEF I!Idle
<1>5. TablesKept
  BY <1>1, TablesUnchanged
<1>6. RequestsPending'
  <2>1. ReportPending(w)'
    BY <1>3 DEF ReportPending, I!Does
  <2>2. \A v \in Importers \ {w} :
          RerunPending(v)' /\ ImportPending(v)' /\ UpdatePending(v)' /\ ReportPending(v)'
    BY <1>3, <1>5, OthersPending DEF ImportsInd
  <2> QED
    BY <2>1, <2>2 DEF RequestsPending
<1>7. ImportTablesTyped'
  <2>1. importing' = [v \in Importers |-> importing'[v]]
    BY <1>1, <1>2
  <2> QED
    BY <1>1, <2>1 DEF ImportsInd, ImportTablesTyped
<1>8. I!TypeOK'
  BY <1>1, BoundsAssumption DEF ImportsInd, I!TypeOK
<1>9. I!FailuresReported'
  <2> SUFFICES ASSUME NEW x \in DOMAIN results, results[x].status = "failed", x \notin toldFailed
               PROVE  \E v \in Importers : I!Does(v, "report")' /\ x \in importing'[v].rows
    BY <1>1 DEF I!FailuresReported
  <2>1. PICK v \in Importers : I!Does(v, "report") /\ x \in importing[v].rows
    BY DEF ImportsInd, I!FailuresReported
  <2>2. v # w
    BY <2>1, <1>1, <1>4 DEF I!Does
  <2> QED
    BY <2>1, <2>2, <1>3 DEF I!Does
<1>10. I!RerunsMissNothing' /\ PassesRemembered'
  BY <1>1 DEF ImportsInd, I!RerunsMissNothing, PassesRemembered, I!RowsOf, I!CasesOf
<1>11. StepsInTurn'
  <2> SUFFICES ASSUME serial PROVE
         /\ \A u, v \in Importers : Busy(u)' /\ Busy(v)' => u = v
         /\ \A x \in DOMAIN results : results[x].steps <= 1
         /\ \A v \in Importers : I!Does(v, "import")' => \A x \in importing'[v].bare : results[x].steps = 0
    BY <1>1 DEF StepsInTurn
  <2>1. \A v \in Importers \ {w} : importing'[v].op = "none"
    BY <1>1, <1>3, <1>4
  <2>2. \A x \in DOMAIN results : results[x].steps <= 1
    BY DEF ImportsInd, StepsInTurn
  <2> QED
    BY <2>1, <2>2, <1>3 DEF Busy, I!Does
<1> QED
  BY <1>6, <1>7, <1>8, <1>9, <1>10, <1>11 DEF ImportsInd

\* The rerun that begins knows the cases of its source, and takes those it may take.
LEMMA RerunBegins ==
  ASSUME ImportsInd, NEW w \in Importers, NEW e \in DOMAIN executions,
         NEW scope \in {"all", "failed"}, I!BeginRerun(w, e, scope)
  PROVE  ImportsInd'
<1> DEFINE taken == {results[x].case : x \in {y \in I!RowsOf(e) : I!Rerunnable(y, scope)}}
           r == [op |-> "rerun", source |-> e, scope |-> scope, cases |-> taken, known |-> I!CasesOf(e)]
<1>1. I!Serve(w) /\ I!Begins(w, r)
  BY DEF I!BeginRerun
<1>2. importing' = [importing EXCEPT ![w] = r] /\ UNCHANGED <<case, executions, results, passed>>
  BY <1>1 DEF I!Begins
<1>3. importing'[w] = r
  BY <1>2 DEF ImportsInd, ImportTablesTyped
<1>4. ImportTablesTyped /\ I!TypeOK /\ PassesRemembered
  BY DEF ImportsInd
<1>5. e \in Nat
  BY <1>4, RowsTyped
<1>6. \A y \in I!RowsOf(e) : /\ y \in DOMAIN results /\ results[y].execution = e
                             /\ results[y].case \in Things \cup {None}
  BY <1>4, RowsTyped DEF I!RowsOf
<1>7. I!CasesOf(e) \subseteq Things
  BY <1>6 DEF I!CasesOf
<1>8. IsFiniteSet(taken)
  <2>1. {y \in I!RowsOf(e) : I!Rerunnable(y, scope)} \in SUBSET (DOMAIN results)
    BY <1>6
  <2> QED
    BY <1>4, <2>1, FewCases
<1>9. None \notin taken /\ taken \subseteq Things
  BY <1>6 DEF I!Rerunnable
<1>10. ASSUME NEW c \in I!CasesOf(e) \cap DOMAIN case
       PROVE  case[c].archived \/ c \in taken \/ (scope = "failed" /\ <<e, c>> \in passed)
  <2>1. PICK y \in I!RowsOf(e) : results[y].case = c /\ c # None
    BY DEF I!CasesOf
  <2>2. CASE I!Rerunnable(y, scope)
    BY <2>1, <2>2
  <2>3. CASE ~I!Rerunnable(y, scope)
    <3>1. case[c].archived \/ (scope # "all" /\ results[y].status = "passed")
      BY <2>1, <2>3 DEF I!Rerunnable
    <3>2. results[y].status = "passed" => <<e, c>> \in passed
      BY <2>1, <1>4, <1>6 DEF PassesRemembered
    <3> QED
      BY <3>1, <3>2
  <2> QED
    BY <2>2, <2>3
<1> HIDE DEF taken
<1>11. /\ r.op = "rerun" /\ r.source = e /\ r.scope = scope /\ r.cases = taken
       /\ r.known = I!CasesOf(e)
  OBVIOUS
<1> HIDE DEF r
<1>12. RerunPending(w)'
  BY <1>2, <1>3, <1>5, <1>7, <1>8, <1>9, <1>10, <1>11 DEF RerunPending
<1>13. ImportPending(w)' /\ UpdatePending(w)'
  BY <1>3, <1>11 DEF ImportPending, UpdatePending, I!Does
<1> QED
  BY <1>1, <1>11, <1>12, <1>13, BeginKeeps

\* The import that begins holds the effects of its file.
LEMMA ImportBegins ==
  ASSUME ImportsInd, NEW w \in Importers, NEW e \in DOMAIN executions,
         NEW file \in I!Files, NEW robot \in BOOLEAN, I!BeginImport(w, e, file, robot)
  PROVE  ImportsInd'
<1> DEFINE effect == I!Effects(e, file)
           bare == {x \in DOMAIN effect : robot /\ results[x].steps = 0}
           r == [op |-> "import", effect |-> effect, robot |-> robot, bare |-> bare]
<1>1. I!Serve(w) /\ I!Begins(w, r)
  BY DEF I!BeginImport
<1>2. importing' = [importing EXCEPT ![w] = r] /\ UNCHANGED <<case, executions, results, passed>>
  BY <1>1 DEF I!Begins
<1>3. importing'[w] = r
  BY <1>2 DEF ImportsInd, ImportTablesTyped
<1>4. /\ effect \in [DOMAIN effect -> EffectRows] /\ DOMAIN effect \subseteq DOMAIN results
      /\ \A x \in DOMAIN effect :
           /\ effect[x].status \in {"passed", "failed"}
           /\ effect[x].status = "failed" /\ (effect[x].changes \/ effect[x].was # "failed")
                => effect[x].failed
  BY EffectsReport DEF ImportsInd
<1> HIDE DEF effect
<1>5. /\ bare \subseteq DOMAIN results /\ \A x \in bare : results[x].steps = 0
  BY <1>4
<1> HIDE DEF bare
<1>6. r.op = "import" /\ r.effect = effect /\ r.robot = robot /\ r.bare = bare
  OBVIOUS
<1> HIDE DEF r
<1>7. ImportPending(w)'
  BY <1>2, <1>3, <1>4, <1>5, <1>6 DEF ImportPending
<1>8. RerunPending(w)' /\ UpdatePending(w)'
  BY <1>3, <1>6 DEF RerunPending, UpdatePending, I!Does
<1> QED
  BY <1>1, <1>5, <1>6, <1>7, <1>8, BeginKeeps

\* The update that begins is of a row that is there.
LEMMA UpdateBegins ==
  ASSUME ImportsInd, NEW w \in Importers, NEW x \in DOMAIN results,
         NEW st \in I!Outcomes, I!BeginUpdate(w, x, st)
  PROVE  ImportsInd'
<1> DEFINE r == [op |-> "update", row |-> x, was |-> results[x].status, status |-> st]
<1>1. I!Serve(w) /\ I!Begins(w, r)
  BY DEF I!BeginUpdate
<1>2. importing' = [importing EXCEPT ![w] = r] /\ UNCHANGED results
  BY <1>1 DEF I!Begins
<1>3. importing'[w] = r
  BY <1>2 DEF ImportsInd, ImportTablesTyped
<1>4. r.op = "update" /\ r.row = x /\ r.status = st
  OBVIOUS
<1> HIDE DEF r
<1>5. RerunPending(w)' /\ ImportPending(w)' /\ UpdatePending(w)'
  BY <1>2, <1>3, <1>4 DEF RerunPending, ImportPending, UpdatePending, I!Does, I!Outcomes
<1> QED
  BY <1>1, <1>4, <1>5, BeginKeeps

-----------------------------------------------------------------------------
(* Executions are made. *)

\* Rows of a new execution, none of them run.
LEMMA ExecutionMade ==
  ASSUME ImportsInd, NEW x \in ExecutionRows, NEW cs \in Seq(Things \cup {None}),
         Len(executions) < MaxExecutions,
         \A i \in DOMAIN cs : cs[i] \in DOMAIN case \cup {None},
         executions' = Append(executions, x),
         results' = results \o I!NewRows(Len(executions) + 1, cs),
         UNCHANGED <<serial, case, toldFailed, passed>>,
         importing' = [v \in Importers |-> importing'[v]],
         requests' \in 0 .. ImportRequests,
         \A v \in Importers :
           \/ importing'[v] = importing[v]
           \/ importing'[v] = I!Idle /\ importing[v].op # "report",
         x.source # 0 =>
           /\ \A i, j \in DOMAIN cs : cs[i] = cs[j] /\ cs[i] # None => i = j
           /\ \A c \in x.known \cap DOMAIN case :
                \/ case[c].archived \/ (c # None /\ \E i \in DOMAIN cs : cs[i] = c)
                \/ x.scope = "failed" /\ <<x.source, c>> \in passed
  PROVE  ImportsInd'
<1> DEFINE n == Len(executions) + 1
           fresh == I!NewRows(n, cs)
<1>1. ImportTablesTyped /\ I!TypeOK
  BY DEF ImportsInd
<1>2. /\ DOMAIN results = 1 .. Len(results) /\ Len(results) \in Nat
      /\ DOMAIN executions = 1 .. Len(executions) /\ Len(executions) \in Nat
      /\ results \in Seq(ResultRows) /\ executions \in Seq(ExecutionRows)
  BY <1>1, RowsTyped DEF ImportTablesTyped
<1>3. n \in Nat /\ n \notin DOMAIN executions
  BY <1>2
<1>4. /\ executions' \in Seq(ExecutionRows) /\ Len(executions') = n
      /\ DOMAIN executions' = DOMAIN executions \cup {n} /\ executions'[n] = x
      /\ \A e \in DOMAIN executions : executions'[e] = executions[e]
  BY <1>2
<1>5. /\ fresh \in Seq(ResultRows) /\ DOMAIN fresh = DOMAIN cs
      /\ \A i \in DOMAIN cs :
           /\ fresh[i].execution = n /\ fresh[i].case = cs[i]
           /\ fresh[i].status = "not_run" /\ fresh[i].steps = 0
  BY <1>3, NewRowsOf
<1> HIDE DEF n, fresh
<1>6. results' = results \o fresh
  BY DEF n, fresh
<1>7. /\ results' \in Seq(ResultRows)
      /\ DOMAIN results \subseteq DOMAIN results'
      /\ \A r \in DOMAIN results : results'[r] = results[r]
      /\ \A r \in DOMAIN results' \ DOMAIN results :
           r - Len(results) \in DOMAIN fresh /\ results'[r] = fresh[r - Len(results)]
      /\ \A j \in DOMAIN fresh : /\ Len(results) + j \in DOMAIN results' \ DOMAIN results
                                 /\ results'[Len(results) + j] = fresh[j]
  <2> DEFINE all == results \o fresh
  <2>1. /\ all \in Seq(ResultRows) /\ DOMAIN results \subseteq DOMAIN all
        /\ \A r \in DOMAIN results : all[r] = results[r]
        /\ \A r \in DOMAIN all \ DOMAIN results :
             r - Len(results) \in DOMAIN fresh /\ all[r] = fresh[r - Len(results)]
        /\ \A j \in DOMAIN fresh :
             Len(results) + j \in DOMAIN all \ DOMAIN results /\ all[Len(results) + j] = fresh[j]
    BY <1>2, <1>5, RowsAppended, Zenon
  <2>2. results' = all
    BY <1>6
  <2> HIDE DEF all
  <2> QED
    BY <2>1, <2>2
<1>8. \A r \in DOMAIN results' \ DOMAIN results :
        /\ r - Len(results) \in DOMAIN cs /\ results'[r].case = cs[r - Len(results)]
        /\ results'[r].execution = n /\ results'[r].status = "not_run" /\ results'[r].steps = 0
  BY <1>5, <1>7
<1>9. TablesKept
  BY <1>3, <1>4, <1>7, <1>8 DEF TablesKept
<1>10. I!Idle.op = "none"
  BY DEF I!Idle
<1>11. RequestsPending'
  <2>1. ASSUME NEW v \in Importers, importing'[v] = I!Idle
        PROVE  RerunPending(v)' /\ ImportPending(v)' /\ UpdatePending(v)' /\ ReportPending(v)'
    BY <2>1, <1>10 DEF RerunPending, ImportPending, UpdatePending, ReportPending, I!Does
  <2> QED
    BY <2>1, <1>9, OthersPending DEF RequestsPending, ImportsInd
<1>12. ImportTablesTyped'
  BY <1>1, <1>4, <1>7 DEF ImportTablesTyped
<1>13. I!TypeOK'
  <2>1. ASSUME NEW r \in DOMAIN results'
        PROVE  /\ results'[r].execution \in DOMAIN executions'
               /\ results'[r].case \in DOMAIN case' \cup {None}
               /\ results'[r].status \in {"not_run"} \cup I!Outcomes
    <3>1. CASE r \in DOMAIN results
      BY <3>1, <1>1, <1>4, <1>7 DEF I!TypeOK
    <3>2. CASE r \notin DOMAIN results
      BY <3>2, <1>4, <1>8
    <3> QED
      BY <3>1, <3>2
  <2>2. Len(executions') <= MaxExecutions
    BY <1>2, <1>4, BoundsAssumption DEF n
  <2> QED
    BY <2>1, <2>2, <1>1 DEF I!TypeOK
<1>14. I!FailuresReported'
  <2> SUFFICES ASSUME NEW r \in DOMAIN results', results'[r].status = "failed", r \notin toldFailed
               PROVE  \E v \in Importers : I!Does(v, "report")' /\ r \in importing'[v].rows
    BY DEF I!FailuresReported
  <2>1. r \in DOMAIN results /\ results[r].status = "failed"
    BY <1>7, <1>8
  <2>2. PICK v \in Importers : I!Does(v, "report") /\ r \in importing[v].rows
    BY <2>1 DEF ImportsInd, I!FailuresReported
  <2> QED
    BY <2>2 DEF I!Does
<1>15. PassesRemembered'
  <2> SUFFICES ASSUME NEW r \in DOMAIN results', results'[r].status = "passed", results'[r].case # None
               PROVE  <<results'[r].execution, results'[r].case>> \in passed
    BY DEF PassesRemembered
  <2>1. r \in DOMAIN results
    BY <1>8
  <2>2. results'[r] = results[r]
    BY <2>1, <1>7
  <2> QED
    BY <2>1, <2>2 DEF ImportsInd, PassesRemembered
<1>16. StepsInTurn'
  <2> SUFFICES ASSUME serial PROVE
         /\ \A u, v \in Importers : Busy(u)' /\ Busy(v)' => u = v
         /\ \A r \in DOMAIN results' : results'[r].steps <= 1
         /\ \A v \in Importers : I!Does(v, "import")' => \A r \in importing'[v].bare : results'[r].steps = 0
    BY DEF StepsInTurn
  <2>1. \A v \in Importers : Busy(v)' => importing'[v] = importing[v] /\ Busy(v)
    BY <1>10 DEF Busy
  <2>2. \A r \in DOMAIN results' : results'[r].steps <= 1
    <3>1. \A r \in DOMAIN results : results[r].steps <= 1
      BY DEF ImportsInd, StepsInTurn
    <3>2. \A r \in DOMAIN results : results'[r].steps <= 1
      BY <3>1, <1>7
    <3>3. \A r \in DOMAIN results' \ DOMAIN results : results'[r].steps <= 1
      <4>1. \A r \in DOMAIN results' \ DOMAIN results : results'[r].steps = 0
        BY <1>8
      <4> QED
        BY <4>1
    <3> QED
      BY <3>2, <3>3
  <2>3. ASSUME NEW v \in Importers, I!Does(v, "import")', NEW r \in importing'[v].bare
        PROVE  results'[r].steps = 0
    <3>1. importing'[v] = importing[v] /\ I!Does(v, "import")
      BY <2>3, <1>10 DEF I!Does
    <3>2. r \in DOMAIN results /\ results[r].steps = 0
      BY <2>3, <3>1 DEF ImportsInd, RequestsPending, ImportPending, StepsInTurn
    <3> QED
      BY <3>2, <1>7
  <2> QED
    BY <2>1, <2>2, <2>3 DEF ImportsInd, StepsInTurn
<1>17. I!RerunsMissNothing'
  <2>1. ASSUME NEW e \in DOMAIN executions' \ DOMAIN executions, executions'[e].source # 0
        PROVE  /\ \A r, s \in I!RowsOf(e)' :
                    results'[r].case = results'[s].case /\ results'[r].case # None => r = s
               /\ \A c \in executions'[e].known \cap DOMAIN case' :
                    \/ case'[c].archived \/ c \in I!CasesOf(e)'
                    \/ executions'[e].scope = "failed" /\ <<executions'[e].source, c>> \in passed'
    <3>1. e = n /\ executions'[e] = x /\ x.source # 0
      BY <2>1, <1>4
    <3>2. ASSUME NEW r \in I!RowsOf(e)' PROVE r \in DOMAIN results' \ DOMAIN results
      <4>1. r \in DOMAIN results' /\ results'[r].execution = n
        BY <3>1, <3>2 DEF I!RowsOf
      <4>2. r \in DOMAIN results => results[r].execution \in DOMAIN executions
        BY <1>1 DEF I!TypeOK
      <4> QED
        BY <4>1, <4>2, <1>3, <1>7
    <3>3. ASSUME NEW r \in I!RowsOf(e)', NEW s \in I!RowsOf(e)',
                 results'[r].case = results'[s].case, results'[r].case # None
          PROVE  r = s
      <4>1. r \in DOMAIN results' \ DOMAIN results /\ s \in DOMAIN results' \ DOMAIN results
        BY <3>2
      <4>2. /\ r - Len(results) \in DOMAIN cs /\ s - Len(results) \in DOMAIN cs
            /\ cs[r - Len(results)] = cs[s - Len(results)] /\ cs[r - Len(results)] # None
        BY <3>3, <4>1, <1>8
      <4>3. r - Len(results) = s - Len(results)
        BY <3>1, <4>2
      <4>4. r \in Nat /\ s \in Nat
        BY <4>1, <1>7
      <4> QED
        BY <4>3, <4>4, <1>2
    <3>4. ASSUME NEW c, c # None, NEW i \in DOMAIN cs, cs[i] = c
          PROVE  c \in I!CasesOf(e)'
      <4>1. Len(results) + i \in DOMAIN results' /\ results'[Len(results) + i] = fresh[i]
        BY <1>5, <1>7
      <4>2. Len(results) + i \in I!RowsOf(e)' /\ results'[Len(results) + i].case = c
        BY <3>1, <3>4, <4>1, <1>5 DEF I!RowsOf
      <4> QED
        BY <3>4, <4>2 DEF I!CasesOf
    <3> QED
      BY <3>1, <3>3, <3>4
  <2> QED
    BY <2>1, <1>9, RerunsKept DEF ImportsInd
<1> QED
  BY <1>11, <1>12, <1>13, <1>14, <1>15, <1>16, <1>17 DEF ImportsInd

\* create_execution
LEMMA CreateKeeps ==
  ASSUME ImportsInd, NEW cs \in I!CaseLists(DOMAIN case), I!Create(cs)
  PROVE  ImportsInd'
<1> DEFINE x == [source |-> 0, closed |-> FALSE, scope |-> "all", known |-> {}]
<1>1. ImportTablesTyped /\ I!TypeOK
  BY DEF ImportsInd
<1>2. PICK n \in {1, 2} : cs \in [1 .. n -> DOMAIN case]
  BY DEF I!CaseLists
<1>3. cs \in Seq(Things \cup {None}) /\ \A i \in DOMAIN cs : cs[i] \in DOMAIN case \cup {None}
  <2>1. DOMAIN case \subseteq Things \cup {None}
    BY <1>1 DEF ImportTablesTyped
  <2>2. cs \in [1 .. n -> Things \cup {None}] /\ n \in Nat
    BY <1>2, <2>1
  <2>3. cs \in Seq(Things \cup {None})
    BY <2>2
  <2> QED
    BY <1>2, <2>3
<1>4. x \in ExecutionRows /\ x.source = 0
  BY DEF ExecutionRows
<1>5. /\ Len(executions) < MaxExecutions /\ executions' = Append(executions, x)
      /\ results' = results \o I!NewRows(Len(executions) + 1, cs)
      /\ UNCHANGED <<serial, case, toldFailed, passed, importing>>
      /\ requests < ImportRequests /\ requests' = requests + 1
  BY DEF I!Create, I!Serves
<1>6. requests' \in 0 .. ImportRequests
  BY <1>1, <1>5, BoundsAssumption DEF I!TypeOK
<1>7. importing' = [v \in Importers |-> importing'[v]]
  BY <1>1, <1>5 DEF ImportTablesTyped
<1> HIDE DEF x
<1> QED
  BY <1>3, <1>4, <1>5, <1>6, <1>7, ExecutionMade

\* What becomes of a request that wrote nothing.
LEMMA GivenUp ==
  ASSUME ImportsInd, NEW w \in Importers, importing[w].op # "report",
         importing' = [importing EXCEPT ![w] = I!Idle],
         UNCHANGED <<serial, case, executions, results, requests, toldFailed, passed>>
  PROVE  ImportsInd'
<1>1. I!Idle.op = "none"
  BY DEF I!Idle
<1>2. importing = [v \in Importers |-> importing[v]]
  BY DEF ImportsInd, ImportTablesTyped
<1>3. importing'[w] = I!Idle /\ \A v \in Importers \ {w} : importing'[v] = importing[v]
  BY <1>2
<1>4. TablesKept
  BY TablesUnchanged
<1>5. RequestsPending'
  <2>1. RerunPending(w)' /\ ImportPending(w)' /\ UpdatePending(w)' /\ ReportPending(w)'
    BY <1>1, <1>3 DEF RerunPending, ImportPending, UpdatePending, ReportPending, I!Does
  <2>2. \A v \in Importers \ {w} :
          RerunPending(v)' /\ ImportPending(v)' /\ UpdatePending(v)' /\ ReportPending(v)'
    BY <1>3, <1>4, OthersPending DEF ImportsInd
  <2> QED
    BY <2>1, <2>2 DEF RequestsPending
<1>6. ImportTablesTyped'
  BY <1>2 DEF ImportsInd, ImportTablesTyped
<1>7. I!TypeOK' /\ I!RerunsMissNothing' /\ PassesRemembered'
  BY DEF ImportsInd, I!TypeOK, I!RerunsMissNothing, PassesRemembered, I!RowsOf, I!CasesOf
<1>8. I!FailuresReported'
  BY <1>3 DEF ImportsInd, I!FailuresReported, I!Does
<1>9. StepsInTurn'
  <2>1. \A v \in Importers : Busy(v)' => importing'[v] = importing[v] /\ Busy(v)
    BY <1>1, <1>3 DEF Busy
  <2>2. \A v \in Importers : I!Does(v, "import")' => importing'[v] = importing[v] /\ I!Does(v, "import")
    BY <1>1, <1>3 DEF I!Does
  <2> QED
    BY <2>1, <2>2 DEF ImportsInd, StepsInTurn
<1> QED
  BY <1>5, <1>6, <1>7, <1>8, <1>9 DEF ImportsInd

\* rerun_execution commits: a row for each of the cases it chose.
LEMMA RerunCommits ==
  ASSUME ImportsInd, NEW w \in Importers, I!CommitRerun(w)
  PROVE  ImportsInd'
<1> DEFINE r == importing[w]
           cs == I!SetToSeq(r.cases)
           x == [source |-> r.source, closed |-> FALSE, scope |-> r.scope, known |-> r.known]
<1>1. ImportTablesTyped /\ I!TypeOK /\ RerunPending(w)
  BY DEF ImportsInd, RequestsPending
<1>2. /\ r.op = "rerun" /\ importing' = [importing EXCEPT ![w] = I!Idle]
      /\ UNCHANGED <<serial, case, requests, toldFailed, passed>>
  BY DEF I!CommitRerun, I!Does, I!Becomes
<1>3. CASE ~(r.cases \subseteq DOMAIN case /\ Len(executions) < MaxExecutions)
  <2>1. UNCHANGED <<executions, results>>
    BY <1>3 DEF I!CommitRerun
  <2> QED
    BY <1>2, <2>1, GivenUp
<1>4. CASE r.cases \subseteq DOMAIN case /\ Len(executions) < MaxExecutions
  <2>1. /\ executions' = Append(executions, x)
        /\ results' = results \o I!NewRows(Len(executions) + 1, cs)
    BY <1>4 DEF I!CommitRerun
  <2>2. /\ r.source \in Nat /\ r.scope \in {"all", "failed"}
        /\ r.known \subseteq Things /\ r.cases \subseteq Things
        /\ IsFiniteSet(r.cases) /\ None \notin r.cases
        /\ \A c \in r.known \cap DOMAIN case :
             \/ case[c].archived \/ c \in r.cases
             \/ r.scope = "failed" /\ <<r.source, c>> \in passed
    BY <1>1, <1>2 DEF RerunPending, I!Does
  <2>3. /\ cs \in Seq(r.cases) /\ \A i, j \in DOMAIN cs : cs[i] = cs[j] => i = j
        /\ \A c \in r.cases : \E i \in DOMAIN cs : cs[i] = c
    BY <2>2, ListedOnce
  <2> HIDE DEF cs
  <2>4. cs \in Seq(Things \cup {None}) /\ \A i \in DOMAIN cs : cs[i] \in DOMAIN case \cup {None}
    <3>1. DOMAIN cs = 1 .. Len(cs) /\ Len(cs) \in Nat /\ \A i \in DOMAIN cs : cs[i] \in r.cases
      BY <2>3
    <3>2. cs = [i \in 1 .. Len(cs) |-> cs[i]]
      BY <2>3
    <3>3. cs \in [1 .. Len(cs) -> Things \cup {None}]
      BY <2>2, <3>1, <3>2
    <3> QED
      BY <3>1, <3>3, <1>4
  <2>5. x \in ExecutionRows
    BY <2>2 DEF ExecutionRows
  <2>6. x.source = r.source /\ x.scope = r.scope /\ x.known = r.known
    OBVIOUS
  <2> HIDE DEF x
  <2>7. requests' \in 0 .. ImportRequests
    BY <1>1, <1>2 DEF I!TypeOK
  <2>8. importing = [v \in Importers |-> importing[v]]
    BY <1>1 DEF ImportTablesTyped
  <2>9. /\ importing' = [v \in Importers |-> importing'[v]]
        /\ importing'[w] = I!Idle /\ \A v \in Importers \ {w} : importing'[v] = importing[v]
    BY <1>2, <2>8
  <2>10. \A v \in Importers : importing'[v] = importing[v] \/
           (importing'[v] = I!Idle /\ importing[v].op # "report")
    BY <1>2, <2>9
  <2>11. /\ \A i, j \in DOMAIN cs : cs[i] = cs[j] /\ cs[i] # None => i = j
         /\ \A c \in x.known \cap DOMAIN case :
              \/ case[c].archived \/ (c # None /\ \E i \in DOMAIN cs : cs[i] = c)
              \/ x.scope = "failed" /\ <<x.source, c>> \in passed
    BY <2>2, <2>3, <2>6
  <2> QED
    BY <1>2, <1>4, <2>1, <2>4, <2>5, <2>7, <2>9, <2>10, <2>11, ExecutionMade
<1> QED
  BY <1>3, <1>4

-----------------------------------------------------------------------------
(* Rows are written. *)

\* What is written as failed will be reported.
LEMMA RowsWritten ==
  ASSUME ImportsInd, NEW w \in Importers, NEW st, NEW stepped, NEW told \in SUBSET (DOMAIN results),
         I!Writes(st, stepped), I!Becomes(w, [op |-> "report", rows |-> told]),
         UNCHANGED <<case, executions>>,
         importing[w].op \in {"import", "update"},
         st \in [DOMAIN st -> {"passed", "failed"}], DOMAIN st \subseteq DOMAIN results,
         \A r \in DOMAIN st : st[r] = "failed" => r \in told,
         serial => \A r \in stepped : results[r].steps = 0
  PROVE  ImportsInd'
<1>1. ImportTablesTyped /\ I!TypeOK
  BY DEF ImportsInd
<1>2. /\ results' = [r \in DOMAIN results |->
                       [results[r] EXCEPT !.status = IF r \in DOMAIN st THEN st[r] ELSE @,
                                          !.steps = IF r \in stepped THEN @ + 1 ELSE @]]
      /\ toldFailed' = {r \in toldFailed : results'[r].status = "failed"}
      /\ passed' = passed \cup
           {<<results[r].execution, results[r].case>> : r \in {y \in DOMAIN st : st[y] = "passed"}}
  BY DEF I!Writes
<1>3. /\ importing' = [importing EXCEPT ![w] = [op |-> "report", rows |-> told]]
      /\ UNCHANGED <<serial, requests>>
  BY DEF I!Becomes
<1>4. importing = [v \in Importers |-> importing[v]]
  BY <1>1 DEF ImportTablesTyped
<1>5. importing'[w] = [op |-> "report", rows |-> told] /\ \A v \in Importers \ {w} : importing'[v] = importing[v]
  BY <1>3, <1>4
<1>6. importing'[w].op = "report" /\ importing'[w].rows = told
  BY <1>5
<1>7. DOMAIN results' = DOMAIN results
  BY <1>2
<1>8. ASSUME NEW r \in DOMAIN results
      PROVE  /\ results'[r] \in ResultRows
             /\ results'[r].execution = results[r].execution /\ results'[r].case = results[r].case
             /\ results'[r].status = IF r \in DOMAIN st THEN st[r] ELSE results[r].status
             /\ results'[r].steps = IF r \in stepped THEN results[r].steps + 1 ELSE results[r].steps
  <2>1. results'[r] = [results[r] EXCEPT !.status = IF r \in DOMAIN st THEN st[r] ELSE @,
                                         !.steps = IF r \in stepped THEN @ + 1 ELSE @]
    BY <1>2
  <2>2. results[r] \in ResultRows
    BY <1>1, RowsTyped
  <2>3. /\ results'[r].execution = results[r].execution /\ results'[r].case = results[r].case
        /\ results'[r].status = IF r \in DOMAIN st THEN st[r] ELSE results[r].status
        /\ results'[r].steps = IF r \in stepped THEN results[r].steps + 1 ELSE results[r].steps
    BY <2>1, <2>2 DEF ResultRows
  <2>4. r \in DOMAIN st => st[r] \in ResultStatuses
    BY DEF ResultStatuses
  <2>5. results'[r] \in ResultRows
    <3> DEFINE newStatus == IF r \in DOMAIN st THEN st[r] ELSE results[r].status
               newSteps == IF r \in stepped THEN results[r].steps + 1 ELSE results[r].steps
    <3>1. results[r].status \in ResultStatuses /\ results[r].steps \in Nat
      BY <2>2 DEF ResultRows
    <3>2. newStatus \in ResultStatuses /\ newSteps \in Nat
      BY <2>4, <3>1
    <3>3. results'[r] = [[results[r] EXCEPT !.status = newStatus] EXCEPT !.steps = newSteps]
      BY <2>1
    <3> HIDE DEF newStatus, newSteps
    <3> QED
      BY <2>2, <3>2, <3>3 DEF ResultRows
  <2> QED
    BY <2>3, <2>5
<1>9. TablesKept
  BY <1>2, <1>7, <1>8 DEF TablesKept
<1>10. RequestsPending'
  <2>1. RerunPending(w)' /\ ImportPending(w)' /\ UpdatePending(w)' /\ ReportPending(w)'
    BY <1>6, <1>7 DEF RerunPending, ImportPending, UpdatePending, ReportPending, I!Does
  <2>2. \A v \in Importers \ {w} :
          RerunPending(v)' /\ ImportPending(v)' /\ UpdatePending(v)' /\ ReportPending(v)'
    BY <1>5, <1>9, OthersPending DEF ImportsInd
  <2> QED
    BY <2>1, <2>2 DEF RequestsPending
<1>11. ImportTablesTyped'
  <2>1. results' = [r \in DOMAIN results |-> results'[r]]
    BY <1>2
  <2>2. results' \in Seq(ResultRows)
    BY <1>1, <1>7, <1>8, <2>1, RowsChanged DEF ImportTablesTyped
  <2>3. importing' = [v \in Importers |-> importing'[v]]
    BY <1>3, <1>4
  <2> QED
    BY <1>1, <1>3, <2>2, <2>3 DEF ImportTablesTyped
<1>12. I!TypeOK'
  <2>1. \A r \in DOMAIN results' : results'[r].status \in {"not_run"} \cup I!Outcomes
    BY <1>1, <1>7, <1>8 DEF I!TypeOK, I!Outcomes
  <2> QED
    BY <1>1, <1>3, <1>7, <1>8, <2>1 DEF I!TypeOK
<1>13. I!FailuresReported'
  <2> SUFFICES ASSUME NEW r \in DOMAIN results, results'[r].status = "failed", r \notin toldFailed'
               PROVE  \E v \in Importers : I!Does(v, "report")' /\ r \in importing'[v].rows
    BY <1>7 DEF I!FailuresReported
  <2>1. r \notin toldFailed
    BY <1>2
  <2>2. CASE r \in DOMAIN st
    BY <2>2, <1>6, <1>8 DEF I!Does
  <2>3. CASE r \notin DOMAIN st
    <3>1. results[r].status = "failed"
      BY <2>3, <1>8
    <3>2. PICK v \in Importers : I!Does(v, "report") /\ r \in importing[v].rows
      BY <2>1, <3>1 DEF ImportsInd, I!FailuresReported
    <3>3. v # w
      BY <3>2 DEF I!Does
    <3> QED
      BY <3>2, <3>3, <1>5 DEF I!Does
  <2> QED
    BY <2>2, <2>3
<1>14. I!RerunsMissNothing'
  BY <1>9, RerunsKept DEF ImportsInd
<1>15. PassesRemembered'
  <2> SUFFICES ASSUME NEW r \in DOMAIN results, results'[r].status = "passed", results'[r].case # None
               PROVE  <<results[r].execution, results[r].case>> \in passed'
    BY <1>7, <1>8 DEF PassesRemembered
  <2>1. CASE r \in DOMAIN st
    <3>1. st[r] = "passed"
      BY <2>1, <1>8
    <3>2. <<results[r].execution, results[r].case>> \in
            {<<results[x].execution, results[x].case>> : x \in {y \in DOMAIN st : st[y] = "passed"}}
      BY <2>1, <3>1
    <3> QED
      BY <3>2, <1>2, Zenon
  <2>2. CASE r \notin DOMAIN st
    <3>1. results[r].status = "passed" /\ results[r].case # None
      BY <2>2, <1>8
    <3>2. <<results[r].execution, results[r].case>> \in passed
      BY <3>1 DEF ImportsInd, PassesRemembered
    <3>3. passed \subseteq passed'
      BY <1>2
    <3> QED
      BY <3>2, <3>3
  <2> QED
    BY <2>1, <2>2
<1>16. StepsInTurn'
  <2> SUFFICES ASSUME serial PROVE
         /\ \A u, v \in Importers : Busy(u)' /\ Busy(v)' => u = v
         /\ \A r \in DOMAIN results : results'[r].steps <= 1
         /\ \A v \in Importers : I!Does(v, "import")' => \A r \in importing'[v].bare : results'[r].steps = 0
    BY <1>3, <1>7 DEF StepsInTurn
  <2>1. /\ \A u, v \in Importers : Busy(u) /\ Busy(v) => u = v
        /\ \A r \in DOMAIN results : results[r].steps <= 1
    BY DEF ImportsInd, StepsInTurn
  <2>2. Busy(w) /\ \A v \in Importers \ {w} : Busy(v)' => Busy(v)
    BY <1>5 DEF Busy
  <2>3. \A v \in Importers \ {w} : importing'[v].op = "none"
    BY <1>5, <2>1, <2>2 DEF Busy
  <2>4. \A r \in DOMAIN results : results'[r].steps <= 1
    BY <1>8, <2>1
  <2> QED
    BY <2>3, <2>4, <1>6 DEF Busy, I!Does
<1> QED
  BY <1>10, <1>11, <1>12, <1>13, <1>14, <1>15, <1>16 DEF ImportsInd

\* A file commits.
LEMMA ImportCommits ==
  ASSUME ImportsInd, NEW w \in Importers, I!CommitImport(w)
  PROVE  ImportsInd'
<1> DEFINE effect == importing[w].effect
           told == {r \in DOMAIN effect : effect[r].failed}
           differs == {r \in DOMAIN effect : effect[r].status # effect[r].was}
           dirty == IF importing[w].robot THEN {r \in DOMAIN effect : effect[r].changes}
                    ELSE differs \cup {r \in told : effect[r].was # "failed"}
           st == [r \in dirty |-> effect[r].status]
<1>1. /\ I!Does(w, "import") /\ I!Writes(st, importing[w].bare)
      /\ I!Becomes(w, [op |-> "report", rows |-> told]) /\ UNCHANGED <<case, executions>>
  BY DEF I!CommitImport
<1>2. /\ DOMAIN effect \subseteq DOMAIN results
      /\ \A r \in DOMAIN effect :
           /\ effect[r].status \in {"passed", "failed"}
           /\ effect[r].status = "failed" /\ (effect[r].changes \/ effect[r].was # "failed")
                => effect[r].failed
  BY <1>1 DEF ImportsInd, RequestsPending, ImportPending
<1> HIDE DEF effect
<1>3. dirty \subseteq DOMAIN effect /\ told \subseteq DOMAIN results
  BY <1>2
<1>4. \A r \in dirty : effect[r].status = "failed" => r \in told
  BY <1>2
<1> HIDE DEF dirty, told
<1>5. /\ DOMAIN st = dirty /\ \A r \in dirty : st[r] = effect[r].status
      /\ st \in [DOMAIN st -> {"passed", "failed"}]
  BY <1>2, <1>3
<1> HIDE DEF st
<1>6. importing[w].op \in {"import", "update"}
  BY <1>1 DEF I!Does
<1>7. serial => \A r \in importing[w].bare : results[r].steps = 0
  BY <1>1 DEF ImportsInd, StepsInTurn
<1>8. DOMAIN st \subseteq DOMAIN results /\ told \in SUBSET (DOMAIN results)
  BY <1>2, <1>3, <1>5
<1>9. \A r \in DOMAIN st : st[r] = "failed" => r \in told
  BY <1>4, <1>5
<1> QED
  BY <1>1, <1>5, <1>6, <1>7, <1>8, <1>9, RowsWritten

\* A row's update commits.
LEMMA UpdateCommits ==
  ASSUME ImportsInd, NEW w \in Importers, I!CommitUpdate(w)
  PROVE  ImportsInd'
<1> DEFINE r == importing[w]
           st == IF r.status # r.was THEN [x \in {r.row} |-> r.status] ELSE <<>>
           told == IF r.status = "failed" /\ r.was # "failed" THEN {r.row} ELSE {}
<1>1. /\ I!Does(w, "update") /\ I!Writes(st, {})
      /\ I!Becomes(w, [op |-> "report", rows |-> told]) /\ UNCHANGED <<case, executions>>
  BY DEF I!CommitUpdate
<1>2. r.row \in DOMAIN results /\ r.status \in {"passed", "failed"} /\ r.op = "update"
  BY <1>1 DEF ImportsInd, RequestsPending, UpdatePending, I!Does
<1> HIDE DEF r
<1>3. /\ st \in [DOMAIN st -> {"passed", "failed"}] /\ DOMAIN st \subseteq DOMAIN results
      /\ \A x \in DOMAIN st : st[x] = "failed" => x \in told
  <2>1. CASE r.status # r.was
    <3>1. st = [x \in {r.row} |-> r.status]
      BY <2>1
    <3> QED
      BY <1>2, <2>1, <3>1
  <2>2. CASE r.status = r.was
    <3>1. st = <<>>
      BY <2>2
    <3>2. DOMAIN st = {} /\ st = [x \in {} |-> st[x]]
      BY <3>1
    <3> QED
      BY <3>2
  <2> QED
    BY <2>1, <2>2
<1>4. told \in SUBSET (DOMAIN results)
  BY <1>2
<1> HIDE DEF st, told
<1>5. importing[w].op \in {"import", "update"}
  BY <1>2 DEF r
<1> QED
  BY <1>1, <1>3, <1>4, <1>5, RowsWritten

\* on_results_bulk_updated reports.
LEMMA ReportEnds ==
  ASSUME ImportsInd, NEW w \in Importers, I!Report(w)
  PROVE  ImportsInd'
<1>1. /\ importing[w].op = "report" /\ importing' = [importing EXCEPT ![w] = I!Idle]
      /\ toldFailed' = toldFailed \cup {r \in importing[w].rows : results[r].status = "failed"}
      /\ UNCHANGED <<serial, case, executions, results, requests, passed>>
  BY DEF I!Report, I!Does, I!Becomes
<1>2. I!Idle.op = "none"
  BY DEF I!Idle
<1>3. importing = [v \in Importers |-> importing[v]]
  BY DEF ImportsInd, ImportTablesTyped
<1>4. importing'[w] = I!Idle /\ \A v \in Importers \ {w} : importing'[v] = importing[v]
  BY <1>1, <1>3
<1>5. TablesKept
  BY <1>1, TablesUnchanged
<1>6. RequestsPending'
  <2>1. RerunPending(w)' /\ ImportPending(w)' /\ UpdatePending(w)' /\ ReportPending(w)'
    BY <1>2, <1>4 DEF RerunPending, ImportPending, UpdatePending, ReportPending, I!Does
  <2>2. \A v \in Importers \ {w} :
          RerunPending(v)' /\ ImportPending(v)' /\ UpdatePending(v)' /\ ReportPending(v)'
    BY <1>4, <1>5, OthersPending DEF ImportsInd
  <2> QED
    BY <2>1, <2>2 DEF RequestsPending
<1>7. ImportTablesTyped'
  BY <1>1, <1>3 DEF ImportsInd, ImportTablesTyped
<1>8. I!TypeOK' /\ I!RerunsMissNothing' /\ PassesRemembered'
  BY <1>1 DEF ImportsInd, I!TypeOK, I!RerunsMissNothing, PassesRemembered, I!RowsOf, I!CasesOf
<1>9. I!FailuresReported'
  BY <1>1, <1>4 DEF ImportsInd, I!FailuresReported, I!Does
<1>10. StepsInTurn'
  <2>1. \A v \in Importers : Busy(v)' => importing'[v] = importing[v] /\ Busy(v)
    BY <1>2, <1>4 DEF Busy
  <2>2. \A v \in Importers : I!Does(v, "import")' => importing'[v] = importing[v] /\ I!Does(v, "import")
    BY <1>2, <1>4 DEF I!Does
  <2> QED
    BY <1>1, <2>1, <2>2 DEF ImportsInd, StepsInTurn
<1> QED
  BY <1>6, <1>7, <1>8, <1>9, <1>10 DEF ImportsInd

-----------------------------------------------------------------------------
(* A case is archived or deleted, an execution closed. *)

\* What requests of one step leave alone: the requests in flight and what was reported.
LEMMA AsideKeeps ==
  ASSUME ImportsInd, TablesKept, UNCHANGED <<serial, importing, toldFailed, passed>>,
         requests' \in 0 .. ImportRequests,
         DOMAIN executions' = DOMAIN executions, executions' \in Seq(ExecutionRows),
         Len(executions') <= MaxExecutions,
         case' \in [DOMAIN case' -> CaseRows],
         \A c \in DOMAIN case' : [external |-> case'[c].external, name |-> case'[c].name] \in I!Columns,
         DOMAIN results' = DOMAIN results, results' \in Seq(ResultRows),
         \A r \in DOMAIN results :
           /\ results'[r].status = results[r].status /\ results'[r].steps = results[r].steps
           /\ results'[r].case \in DOMAIN case' \cup {None}
  PROVE  ImportsInd'
<1>1. ImportTablesTyped /\ I!TypeOK
  BY DEF ImportsInd
<1>2. RequestsPending'
  BY OthersPending DEF RequestsPending, ImportsInd
<1>3. ImportTablesTyped'
  BY <1>1 DEF ImportTablesTyped, TablesKept
<1>4. I!TypeOK'
  <2>1. \A c \in DOMAIN case' : case'[c].archived \in BOOLEAN
    BY DEF CaseRows
  <2>2. \A r \in DOMAIN results' :
          /\ results'[r].execution \in DOMAIN executions'
          /\ results'[r].status \in {"not_run"} \cup I!Outcomes
    BY <1>1 DEF I!TypeOK, TablesKept
  <2> QED
    BY <2>1, <2>2 DEF I!TypeOK
<1>5. I!FailuresReported'
  BY DEF ImportsInd, I!FailuresReported, I!Does
<1>6. I!RerunsMissNothing'
  BY RerunsKept DEF ImportsInd
<1>7. PassesRemembered'
  BY DEF ImportsInd, PassesRemembered, TablesKept
<1>8. StepsInTurn'
  <2> SUFFICES ASSUME serial PROVE
         /\ \A u, v \in Importers : Busy(u) /\ Busy(v) => u = v
         /\ \A r \in DOMAIN results : results'[r].steps <= 1
         /\ \A v \in Importers : I!Does(v, "import") => \A r \in importing[v].bare : results'[r].steps = 0
    BY DEF StepsInTurn, Busy, I!Does
  <2>1. ASSUME NEW v \in Importers, I!Does(v, "import"), NEW r \in importing[v].bare
        PROVE  results'[r].steps = 0
    <3>1. r \in DOMAIN results
      BY <2>1 DEF ImportsInd, RequestsPending, ImportPending
    <3> QED
      BY <2>1, <3>1 DEF ImportsInd, StepsInTurn
  <2> QED
    BY <2>1 DEF ImportsInd, StepsInTurn
<1> QED
  BY <1>2, <1>3, <1>4, <1>5, <1>6, <1>7, <1>8 DEF ImportsInd

LEMMA ArchiveKeeps ==
  ASSUME ImportsInd, NEW c \in DOMAIN case, I!ArchiveCase(c)
  PROVE  ImportsInd'
<1>1. ImportTablesTyped /\ I!TypeOK
  BY DEF ImportsInd
<1>2. /\ case' = [case EXCEPT ![c].archived = TRUE]
      /\ UNCHANGED <<serial, importing, executions, results, toldFailed, passed>>
      /\ requests < ImportRequests /\ requests' = requests + 1
  BY DEF I!ArchiveCase, I!Serves
<1>3. requests' \in 0 .. ImportRequests
  BY <1>1, <1>2, BoundsAssumption DEF I!TypeOK
<1>4. DOMAIN case' = DOMAIN case
  BY <1>2
<1>5. ASSUME NEW d \in DOMAIN case
      PROVE  /\ case'[d] \in CaseRows
             /\ case'[d].external = case[d].external /\ case'[d].name = case[d].name
             /\ case[d].archived => case'[d].archived
  <2>1. case[d] \in CaseRows
    BY <1>1, RowsTyped
  <2>2. case'[d] = IF d = c THEN [case[d] EXCEPT !.archived = TRUE] ELSE case[d]
    BY <1>2
  <2> QED
    BY <2>1, <2>2 DEF CaseRows
<1>6. case' = [d \in DOMAIN case' |-> case'[d]]
  BY <1>2
<1>7. case' \in [DOMAIN case' -> CaseRows]
  BY <1>4, <1>5, <1>6
<1>8. TablesKept
  BY <1>2, <1>4, <1>5 DEF TablesKept
<1>9. \A d \in DOMAIN case' : [external |-> case'[d].external, name |-> case'[d].name] \in I!Columns
  BY <1>1, <1>4, <1>5 DEF I!TypeOK
<1>10. /\ executions' \in Seq(ExecutionRows) /\ results' \in Seq(ResultRows)
       /\ Len(executions') <= MaxExecutions
       /\ DOMAIN executions' = DOMAIN executions /\ DOMAIN results' = DOMAIN results
  BY <1>1, <1>2 DEF ImportTablesTyped, I!TypeOK
<1>11. \A r \in DOMAIN results :
         /\ results'[r].status = results[r].status /\ results'[r].steps = results[r].steps
         /\ results'[r].case \in DOMAIN case' \cup {None}
  BY <1>1, <1>2, <1>4 DEF I!TypeOK
<1>12. UNCHANGED <<serial, importing, toldFailed, passed>>
  BY <1>2
<1> QED
  BY <1>3, <1>7, <1>8, <1>9, <1>10, <1>11, <1>12, AsideKeeps

LEMMA DeleteKeeps ==
  ASSUME ImportsInd, NEW c \in DOMAIN case, I!DeleteCase(c)
  PROVE  ImportsInd'
<1>1. ImportTablesTyped /\ I!TypeOK
  BY DEF ImportsInd
<1>2. /\ case' = [d \in DOMAIN case \ {c} |-> case[d]]
      /\ results' = [r \in DOMAIN results |->
                       IF results[r].case = c THEN [results[r] EXCEPT !.case = None] ELSE results[r]]
      /\ UNCHANGED <<serial, importing, executions, toldFailed, passed>>
      /\ requests < ImportRequests /\ requests' = requests + 1
  BY DEF I!DeleteCase, I!Serves
<1>3. requests' \in 0 .. ImportRequests
  BY <1>1, <1>2, BoundsAssumption DEF I!TypeOK
<1>4. DOMAIN case' = DOMAIN case \ {c} /\ \A d \in DOMAIN case' : case'[d] = case[d]
  BY <1>2
<1>5. \A d \in DOMAIN case : case[d] \in CaseRows
  BY <1>1, RowsTyped
<1>6. case' \in [DOMAIN case' -> CaseRows]
  BY <1>2, <1>4, <1>5
<1>7. DOMAIN results' = DOMAIN results
  BY <1>2
<1>8. ASSUME NEW r \in DOMAIN results
      PROVE  /\ results'[r] \in ResultRows /\ results'[r].execution = results[r].execution
             /\ results'[r].status = results[r].status /\ results'[r].steps = results[r].steps
             /\ results'[r].case = IF results[r].case = c THEN None ELSE results[r].case
  <2>1. results[r] \in ResultRows
    BY <1>1, RowsTyped
  <2>2. results'[r] = IF results[r].case = c THEN [results[r] EXCEPT !.case = None] ELSE results[r]
    BY <1>2
  <2> QED
    BY <2>1, <2>2 DEF ResultRows
<1>9. results' \in Seq(ResultRows)
  <2>1. results' = [r \in DOMAIN results |-> results'[r]]
    BY <1>2
  <2> QED
    BY <1>1, <1>7, <1>8, <2>1, RowsChanged DEF ImportTablesTyped
<1>10. TablesKept
  BY <1>2, <1>4, <1>7, <1>8 DEF TablesKept
<1>11. \A d \in DOMAIN case' : [external |-> case'[d].external, name |-> case'[d].name] \in I!Columns
  BY <1>1, <1>4 DEF I!TypeOK
<1>12. \A r \in DOMAIN results :
         /\ results'[r].status = results[r].status /\ results'[r].steps = results[r].steps
         /\ results'[r].case \in DOMAIN case' \cup {None}
  BY <1>1, <1>4, <1>8 DEF I!TypeOK
<1>13. /\ executions' \in Seq(ExecutionRows) /\ Len(executions') <= MaxExecutions
       /\ DOMAIN executions' = DOMAIN executions
       /\ UNCHANGED <<serial, importing, toldFailed, passed>>
  BY <1>1, <1>2 DEF ImportTablesTyped, I!TypeOK
<1> QED
  BY <1>3, <1>6, <1>7, <1>9, <1>10, <1>11, <1>12, <1>13, AsideKeeps

LEMMA CloseKeeps ==
  ASSUME ImportsInd, NEW e \in DOMAIN executions, I!Close(e)
  PROVE  ImportsInd'
<1>1. ImportTablesTyped /\ I!TypeOK
  BY DEF ImportsInd
<1>2. /\ executions' = [executions EXCEPT ![e].closed = TRUE]
      /\ UNCHANGED <<serial, importing, case, results, toldFailed, passed>>
      /\ requests < ImportRequests /\ requests' = requests + 1
  BY DEF I!Close, I!Serves
<1>3. requests' \in 0 .. ImportRequests
  BY <1>1, <1>2, BoundsAssumption DEF I!TypeOK
<1>4. DOMAIN executions' = DOMAIN executions
  BY <1>2
<1>5. ASSUME NEW d \in DOMAIN executions
      PROVE  /\ executions'[d] \in ExecutionRows /\ executions'[d].source = executions[d].source
             /\ executions'[d].scope = executions[d].scope /\ executions'[d].known = executions[d].known
  <2>1. executions[d] \in ExecutionRows
    BY <1>1, RowsTyped
  <2>2. executions'[d] = IF d = e THEN [executions[d] EXCEPT !.closed = TRUE] ELSE executions[d]
    BY <1>2
  <2> QED
    BY <2>1, <2>2 DEF ExecutionRows
<1>6. executions' = [d \in DOMAIN executions |-> executions'[d]]
  BY <1>2
<1>7. executions' \in Seq(ExecutionRows) /\ Len(executions') = Len(executions)
  BY <1>1, <1>4, <1>5, <1>6, RowsChanged DEF ImportTablesTyped
<1>8. TablesKept
  BY <1>2, <1>4, <1>5 DEF TablesKept
<1>9. /\ case' \in [DOMAIN case' -> CaseRows] /\ results' \in Seq(ResultRows)
      /\ \A c \in DOMAIN case' : [external |-> case'[c].external, name |-> case'[c].name] \in I!Columns
      /\ Len(executions') <= MaxExecutions /\ DOMAIN results' = DOMAIN results
  BY <1>1, <1>2, <1>7 DEF ImportTablesTyped, I!TypeOK
<1>10. \A r \in DOMAIN results :
         /\ results'[r].status = results[r].status /\ results'[r].steps = results[r].steps
         /\ results'[r].case \in DOMAIN case' \cup {None}
  BY <1>1, <1>2 DEF I!TypeOK
<1>11. UNCHANGED <<serial, importing, toldFailed, passed>>
  BY <1>2
<1> QED
  BY <1>3, <1>4, <1>7, <1>8, <1>9, <1>10, <1>11, AsideKeeps

-----------------------------------------------------------------------------
(* The machine of imports and reruns. *)

LEMMA ImportsInitially ==
  ASSUME I!Init PROVE ImportsInd
<1>1. PICK columns \in [Things -> I!Columns] :
        case = [c \in Things |-> [external |-> columns[c].external, name |-> columns[c].name,
                                  archived |-> FALSE]]
  BY DEF I!Init
<1>2. \A k \in I!Columns : /\ k.external \in {"k.n", "none"} /\ k.name \in {"n", "k.n"}
                           /\ [external |-> k.external, name |-> k.name] = k
  BY DEF I!Columns
<1>3. PICK cs \in I!CaseLists(Things) :
        /\ executions = <<[source |-> 0, closed |-> FALSE, scope |-> "all", known |-> {}]>>
        /\ results = I!NewRows(1, cs)
  BY DEF I!Init
<1>4. /\ serial \in BOOLEAN /\ importing = [w \in Importers |-> I!Idle] /\ requests = 0
      /\ toldFailed = {} /\ passed = {}
  BY DEF I!Init
<1>5. PICK n \in {1, 2} : cs \in [1 .. n -> Things]
  BY DEF I!CaseLists
<1>6. cs \in Seq(Things \cup {None}) /\ \A i \in DOMAIN cs : cs[i] \in Things
  BY <1>5
<1>7. /\ results \in Seq(ResultRows) /\ DOMAIN results = DOMAIN cs
      /\ \A i \in DOMAIN cs : /\ results[i].execution = 1 /\ results[i].case = cs[i]
                              /\ results[i].status = "not_run" /\ results[i].steps = 0
  BY <1>3, <1>6, NewRowsOf
<1>8. ASSUME NEW c \in Things
      PROVE  /\ case[c] \in CaseRows /\ case[c].archived \in BOOLEAN
             /\ [external |-> case[c].external, name |-> case[c].name] \in I!Columns
  <2>1. /\ case[c] = [external |-> columns[c].external, name |-> columns[c].name, archived |-> FALSE]
        /\ columns[c] \in I!Columns
    BY <1>1
  <2> QED
    BY <2>1, <1>2 DEF CaseRows
<1>9. DOMAIN case = Things
  BY <1>1
<1>10. case \in [DOMAIN case -> CaseRows]
  BY <1>1, <1>8, <1>9
<1> DEFINE x == [source |-> 0, closed |-> FALSE, scope |-> "all", known |-> {}]
<1>11. x \in ExecutionRows /\ x.source = 0
  BY DEF ExecutionRows
<1> HIDE DEF x
<1>12. /\ executions = <<x>> /\ executions \in Seq(ExecutionRows) /\ Len(executions) = 1
       /\ DOMAIN executions = {1} /\ executions[1].source = 0
  BY <1>3, <1>11 DEF x
<1>13. I!Idle.op = "none" /\ \A w \in Importers : importing[w].op = "none"
  BY <1>4 DEF I!Idle
<1>14. ImportTablesTyped
  BY <1>4, <1>7, <1>9, <1>10, <1>12 DEF ImportTablesTyped
<1>15. I!TypeOK
  BY <1>4, <1>6, <1>7, <1>8, <1>9, <1>12, BoundsAssumption DEF I!TypeOK
<1>16. RequestsPending
  BY <1>13 DEF RequestsPending, RerunPending, ImportPending, UpdatePending, ReportPending, I!Does
<1>17. I!FailuresReported /\ PassesRemembered /\ StepsInTurn
  BY <1>7, <1>13 DEF I!FailuresReported, PassesRemembered, StepsInTurn, Busy, I!Does
<1>18. I!RerunsMissNothing
  BY <1>12 DEF I!RerunsMissNothing
<1> QED
  BY <1>14, <1>15, <1>16, <1>17, <1>18 DEF ImportsInd

LEMMA ImportsInductive ==
  ASSUME ImportsInd, I!Next PROVE ImportsInd'
<1>1. ASSUME NEW cs \in I!CaseLists(DOMAIN case), I!Create(cs) PROVE ImportsInd'
  BY <1>1, CreateKeeps
<1>2. ASSUME NEW w \in Importers, NEW e \in DOMAIN executions, NEW scope \in {"all", "failed"},
             I!BeginRerun(w, e, scope)
      PROVE  ImportsInd'
  BY <1>2, RerunBegins
<1>3. ASSUME NEW w \in Importers, NEW e \in DOMAIN executions, NEW file \in I!Files,
             NEW robot \in BOOLEAN, I!BeginImport(w, e, file, robot)
      PROVE  ImportsInd'
  BY <1>3, ImportBegins
<1>4. ASSUME NEW w \in Importers, NEW r \in DOMAIN results, NEW s \in I!Outcomes, I!BeginUpdate(w, r, s)
      PROVE  ImportsInd'
  BY <1>4, UpdateBegins
<1>5. ASSUME NEW w \in Importers,
             I!CommitRerun(w) \/ I!CommitImport(w) \/ I!CommitUpdate(w) \/ I!Report(w)
      PROVE  ImportsInd'
  BY <1>5, RerunCommits, ImportCommits, UpdateCommits, ReportEnds
<1>6. ASSUME NEW c \in DOMAIN case, I!ArchiveCase(c) \/ I!DeleteCase(c) PROVE ImportsInd'
  BY <1>6, ArchiveKeeps, DeleteKeeps
<1>7. ASSUME NEW e \in DOMAIN executions, I!Close(e) PROVE ImportsInd'
  BY <1>7, CloseKeeps
<1> QED
  BY <1>1, <1>2, <1>3, <1>4, <1>5, <1>6, <1>7 DEF I!Next

-----------------------------------------------------------------------------
(* One row per case, when requests are served one at a time. *)

\* A table has one row of a key.
OneOf(S, key, table) ==
  \A r, s \in S : table[r] # Absent /\ table[s] # Absent /\ key[r] = key[s] => r = s

\* A patch adds a row only where the table has none of its key, and the patch no other.
Adds(S, key, table, patch) ==
  \A r \in S : patch[r] # Keep /\ table[r] = Absent =>
    \A s \in S : key[s] = key[r] /\ s # r => table[s] = Absent /\ patch[s] = Keep

StepKey == [x \in StepRows |-> <<RowOf[x], StepOf[x]>>]

\* What is about to be written adds no second row, and a change of status adds none.
WritesOneRow(w) ==
  req[w].pc = "write" /\ exec # Deleted =>
    /\ Adds(Rows, CaseOf, result, req[w].result)
    /\ Adds(StepRows, StepKey, stepResult, req[w].step)

ClosesRowsThere(w) ==
  req[w].pc = "close" =>
    /\ lock = w
    /\ \A r \in Rows : req[w].result[r] # Keep => result[r] # Absent
    /\ \A x \in StepRows : req[w].step[x] # Keep => stepResult[x] # Absent

RowsInTurn == \A w \in Workers : WritesOneRow(w) /\ ClosesRowsThere(w)

LEMMA OneRowMeans ==
  OneRowPerCase <=> OneOf(Rows, CaseOf, result) /\ OneOf(StepRows, StepKey, stepResult)
BY DEF OneRowPerCase, OneOf, StepKey

\* A patch that adds in that way leaves one row of a key.
LEMMA OneRowStays ==
  ASSUME NEW S, NEW key, NEW table, NEW patch, DOMAIN table = S,
         OneOf(S, key, table), Adds(S, key, table, patch)
  PROVE  OneOf(S, key, Applied(table, patch))
<1> SUFFICES ASSUME NEW r \in S, NEW s \in S,
                    Applied(table, patch)[r] # Absent, Applied(table, patch)[s] # Absent,
                    key[r] = key[s], r # s
             PROVE  FALSE
  BY DEF OneOf
<1>1. /\ Applied(table, patch)[r] = IF patch[r] = Keep THEN table[r] ELSE patch[r]
      /\ Applied(table, patch)[s] = IF patch[s] = Keep THEN table[s] ELSE patch[s]
  BY DEF Applied
<1>2. CASE table[r] = Absent
  BY <1>1, <1>2 DEF Adds
<1>3. CASE table[s] = Absent
  BY <1>1, <1>3 DEF Adds
<1>4. CASE table[r] # Absent /\ table[s] # Absent
  BY <1>4 DEF OneOf
<1> QED
  BY <1>2, <1>3, <1>4

\* A row upserted for each of some cases.
LEMMA UpsertsAdd ==
  ASSUME NEW rp, NEW R \in SUBSET Rows,
         \A r \in Rows \ R : rp[r] = Keep,
         \A r, s \in R : CaseOf[r] = CaseOf[s] => r = s,
         \A r \in R : result[r] # Absent \/ r \in RowFor(CaseOf[r])
  PROVE  Adds(Rows, CaseOf, result, rp)
<1> SUFFICES ASSUME NEW r \in R, result[r] = Absent, NEW s \in Rows, CaseOf[s] = CaseOf[r], s # r
             PROVE  result[s] = Absent /\ rp[s] = Keep
  BY DEF Adds
<1>1. r \in RowFor(CaseOf[r])
  OBVIOUS
<1>2. {q \in Rows : CaseOf[q] = CaseOf[r] /\ result[q] # Absent} = {}
  BY <1>1 DEF RowFor
<1> QED
  BY <1>2

\* The steps of a body.
LEMMA StepsAdd ==
  ASSUME NEW R, NEW p \in StepPatches(R)
  PROVE  Adds(StepRows, StepKey, stepResult, DirtySteps(p))
<1> SUFFICES ASSUME NEW x \in StepRows, DirtySteps(p)[x] # Keep, stepResult[x] = Absent,
                    NEW y \in StepRows, StepKey[y] = StepKey[x], y # x
             PROVE  stepResult[y] = Absent /\ DirtySteps(p)[y] = Keep
  BY DEF Adds
<1>1. RowOf[y] = RowOf[x] /\ StepOf[y] = StepOf[x]
  BY DEF StepKey
<1>2. p[x] # Keep
  BY DEF DirtySteps
<1>3. /\ x \in StepRowFor(RowOf[x], StepOf[x])
      /\ p[y] # Keep => RowOf[y] # RowOf[x] \/ StepOf[y] # StepOf[x]
  BY <1>2 DEF StepPatches
<1>4. {z \in StepRows : RowOf[z] = RowOf[x] /\ StepOf[z] = StepOf[x] /\ stepResult[z] # Absent} = {}
  BY <1>3 DEF StepRowFor
<1> QED
  BY <1>1, <1>3, <1>4 DEF DirtySteps

\* What a result handler is about to write.
LEMMA LoadsAdd ==
  ASSUME TypeOK, NEW w \in Workers,
         \/ LoadCreateResult(w) \/ LoadBulkResults(w) \/ LoadUpdateResult(w)
         \/ LoadStartStep(w) \/ LoadUpdateStep(w)
  PROVE  \E rp, sp, to, fresh :
           /\ BeginWrite(w, rp, sp, to, fresh)
           /\ Adds(Rows, CaseOf, result, rp) /\ Adds(StepRows, StepKey, stepResult, sp)
<1>1. Adds(Rows, CaseOf, result, NoResults) /\ Adds(StepRows, StepKey, stepResult, NoSteps)
  BY DEF Adds, NoResults, NoSteps
<1>2. CASE LoadCreateResult(w)
  <2>1. PICK c \in Cases, st \in StatusArgs \cup {Keep} : \E r \in RowFor(c) :
          \E p \in StepPatches({r}) :
            LET value == IF st # Keep THEN st
                         ELSE IF result[r] = Absent THEN "not_run" ELSE result[r]
            IN  BeginWrite(w, [NoResults EXCEPT ![r] = Dirty(result[r], value)],
                           DirtySteps(p), exec, IF result[r] # "failed" THEN {r} ELSE {})
    BY <1>2 DEF LoadCreateResult
  <2>2. PICK r \in RowFor(c) : \E p \in StepPatches({r}) :
            LET value == IF st # Keep THEN st
                         ELSE IF result[r] = Absent THEN "not_run" ELSE result[r]
            IN  BeginWrite(w, [NoResults EXCEPT ![r] = Dirty(result[r], value)],
                           DirtySteps(p), exec, IF result[r] # "failed" THEN {r} ELSE {})
    BY <2>1
  <2> DEFINE value == IF st # Keep THEN st
                      ELSE IF result[r] = Absent THEN "not_run" ELSE result[r]
             rp == [NoResults EXCEPT ![r] = Dirty(result[r], value)]
  <2>3. PICK p \in StepPatches({r}) :
          BeginWrite(w, rp, DirtySteps(p), exec, IF result[r] # "failed" THEN {r} ELSE {})
    BY <2>2
  <2>4. r \in Rows /\ CaseOf[r] = c
    BY DEF RowFor, FreeRows
  <2>5. \A s \in Rows \ {r} : rp[s] = Keep
    BY DEF NoResults
  <2> HIDE DEF rp
  <2>6. Adds(Rows, CaseOf, result, rp)
    BY <2>4, <2>5, UpsertsAdd
  <2> QED
    BY <2>3, <2>6, StepsAdd
<1>3. CASE LoadBulkResults(w)
  <2>1. PICK picked, earlier \in [Cases -> StatusArgs \cup {Keep}], row \in [Cases -> Rows] :
          LET items == {c \in Cases : picked[c] # Keep}
              R == {row[c] : c \in items}
          IN  /\ items # {}
              /\ \A c \in items :
                   row[c] \in RowFor(c) /\ earlier[c] \notin {result[row[c]], picked[c]}
              /\ \E p \in StepPatches(R) :
                   BeginWrite(w,
                     [r \in Rows |-> IF r \in R THEN BulkPatch(r, earlier[CaseOf[r]], picked[CaseOf[r]]) ELSE Keep],
                     DirtySteps(p), exec,
                     {r \in R : BulkFails(r, earlier[CaseOf[r]], picked[CaseOf[r]])})
    BY <1>3 DEF LoadBulkResults
  <2> DEFINE items == {c \in Cases : picked[c] # Keep}
             R == {row[c] : c \in items}
             rp == [r \in Rows |-> IF r \in R THEN BulkPatch(r, earlier[CaseOf[r]], picked[CaseOf[r]]) ELSE Keep]
  <2>2. PICK p \in StepPatches(R) :
          BeginWrite(w, rp, DirtySteps(p), exec,
                     {r \in R : BulkFails(r, earlier[CaseOf[r]], picked[CaseOf[r]])})
    BY <2>1
  <2>3. \A c \in items : row[c] \in RowFor(c) /\ row[c] \in Rows /\ CaseOf[row[c]] = c
    BY <2>1 DEF RowFor, FreeRows
  <2>4. /\ R \in SUBSET Rows /\ \A r, s \in R : CaseOf[r] = CaseOf[s] => r = s
        /\ \A r \in R : r \in RowFor(CaseOf[r])
    BY <2>3
  <2>5. \A r \in Rows \ R : rp[r] = Keep
    OBVIOUS
  <2> HIDE DEF R, rp
  <2>6. Adds(Rows, CaseOf, result, rp)
    BY <2>4, <2>5, UpsertsAdd
  <2> QED
    BY <2>2, <2>6, StepsAdd
<1>4. CASE LoadUpdateResult(w)
  <2>1. PICK r \in Rows, st \in StatusArgs :
          /\ result[r] # Absent
          /\ BeginWrite(w, [NoResults EXCEPT ![r] = Dirty(result[r], st)], NoSteps, exec,
                        IF result[r] # "failed" THEN {r} ELSE {})
    BY <1>4 DEF LoadUpdateResult
  <2> DEFINE rp == [NoResults EXCEPT ![r] = Dirty(result[r], st)]
  <2>2. Adds(Rows, CaseOf, result, rp)
    BY <2>1 DEF Adds, NoResults
  <2> HIDE DEF rp
  <2>3. BeginWrite(w, rp, NoSteps, exec, IF result[r] # "failed" THEN {r} ELSE {})
    BY <2>1 DEF rp
  <2> QED
    BY <2>2, <2>3, <1>1
<1>5. CASE LoadStartStep(w)
  <2>1. PICK r \in Rows, s \in Steps : result[r] # Absent /\
          \E x \in StepRowFor(r, s) :
            BeginWrite(w, [NoResults EXCEPT ![r] = IF result[r] = "not_run" THEN "running" ELSE Keep],
              [NoSteps EXCEPT ![x] = Dirty(stepResult[x], "running")],
              IF exec = "pending" THEN "in_progress" ELSE exec, {})
    BY <1>5 DEF LoadStartStep
  <2>2. PICK x \in StepRowFor(r, s) :
          BeginWrite(w, [NoResults EXCEPT ![r] = IF result[r] = "not_run" THEN "running" ELSE Keep],
              [NoSteps EXCEPT ![x] = Dirty(stepResult[x], "running")],
              IF exec = "pending" THEN "in_progress" ELSE exec, {})
    BY <2>1
  <2> DEFINE rp == [NoResults EXCEPT ![r] = IF result[r] = "not_run" THEN "running" ELSE Keep]
             sp == [NoSteps EXCEPT ![x] = Dirty(stepResult[x], "running")]
  <2>3. Adds(Rows, CaseOf, result, rp)
    BY <2>1 DEF Adds, NoResults
  <2>4. x \in StepRows /\ RowOf[x] = r /\ StepOf[x] = s
    BY DEF StepRowFor, FreeStepRows
  <2>5. \A y \in StepRows \ {x} : sp[y] = Keep
    BY DEF NoSteps
  <2>6. Adds(StepRows, StepKey, stepResult, sp)
    <3> SUFFICES ASSUME stepResult[x] = Absent, NEW y \in StepRows, StepKey[y] = StepKey[x], y # x
                 PROVE  stepResult[y] = Absent
      BY <2>4, <2>5 DEF Adds
    <3>1. RowOf[y] = r /\ StepOf[y] = s
      BY <2>4 DEF StepKey
    <3>2. {z \in StepRows : RowOf[z] = r /\ StepOf[z] = s /\ stepResult[z] # Absent} = {}
      BY <2>4 DEF StepRowFor
    <3> QED
      BY <3>1, <3>2
  <2>7. BeginWrite(w, rp, sp, IF exec = "pending" THEN "in_progress" ELSE exec, {})
    BY <2>2
  <2> HIDE DEF rp, sp
  <2> QED
    BY <2>3, <2>6, <2>7
<1>6. CASE LoadUpdateStep(w)
  <2>1. PICK x \in StepRows, st \in StatusArgs :
          /\ stepResult[x] # Absent
          /\ BeginWrite(w, NoResults, [NoSteps EXCEPT ![x] = Dirty(stepResult[x], st)], exec, {})
    BY <1>6 DEF LoadUpdateStep
  <2> DEFINE sp == [NoSteps EXCEPT ![x] = Dirty(stepResult[x], st)]
  <2>2. Adds(StepRows, StepKey, stepResult, sp)
    BY <2>1 DEF Adds, NoSteps
  <2>3. BeginWrite(w, NoResults, sp, exec, {})
    BY <2>1
  <2> HIDE DEF sp
  <2> QED
    BY <2>2, <2>3, <1>1
<1> QED
  BY <1>2, <1>3, <1>4, <1>5, <1>6

LEMMA RowsInductive ==
  ASSUME OneAtATime, TypeOK, RowsInTurn, OneRowPerCase, [Next]_vars
  PROVE  RowsInTurn' /\ OneRowPerCase'
<1>1. ASSUME NEW w \in Workers, req'[w].pc \notin {"write", "close"}
      PROVE  RowsInTurn'
  BY <1>1 DEF OneAtATime, RowsInTurn, WritesOneRow, ClosesRowsThere
<1>2. OneOf(Rows, CaseOf, result) /\ OneOf(StepRows, StepKey, stepResult)
  BY OneRowMeans
<1>3. DOMAIN result = Rows /\ DOMAIN stepResult = StepRows
  BY DEF TypeOK
<1>4. UNCHANGED <<result, stepResult>> => OneRowPerCase'
  BY DEF OneRowPerCase
<1>5. ASSUME NEW w \in Workers, WriteRows(w),
             Adds(Rows, CaseOf, result, req[w].result), Adds(StepRows, StepKey, stepResult, req[w].step)
      PROVE  OneRowPerCase'
  <2>1. result' = Applied(result, req[w].result) /\ stepResult' = Applied(stepResult, req[w].step)
    BY <1>5 DEF WriteRows
  <2>2. /\ OneOf(Rows, CaseOf, Applied(result, req[w].result))
        /\ OneOf(StepRows, StepKey, Applied(stepResult, req[w].step))
    BY <1>2, <1>3, <1>5, OneRowStays
  <2>3. OneOf(Rows, CaseOf, result') /\ OneOf(StepRows, StepKey, stepResult')
    BY <2>1, <2>2
  <2> QED
    BY <2>3 DEF OneRowPerCase, OneOf, StepKey
<1>6. ASSUME NEW w \in Workers,
             \/ LoadCreateResult(w) \/ LoadBulkResults(w) \/ LoadUpdateResult(w)
             \/ LoadStartStep(w) \/ LoadUpdateStep(w)
      PROVE  RowsInTurn' /\ OneRowPerCase'
  <2>1. PICK rp, sp, to, fresh :
           /\ BeginWrite(w, rp, sp, to, fresh)
           /\ Adds(Rows, CaseOf, result, rp) /\ Adds(StepRows, StepKey, stepResult, sp)
    BY <1>6, LoadsAdd
  <2> DEFINE q == [pc |-> "write", seen |-> exec, to |-> to, result |-> rp, step |-> sp, fresh |-> fresh]
  <2>2. req' = [req EXCEPT ![w] = q] /\ UNCHANGED <<exec, result, stepResult, lock>>
    BY <2>1 DEF BeginWrite, Begin
  <2>3. q.pc = "write" /\ q.result = rp /\ q.step = sp
    OBVIOUS
  <2> HIDE DEF q
  <2>4. req'[w] = q
    BY <2>2 DEF TypeOK
  <2>5. WritesOneRow(w)' /\ ClosesRowsThere(w)'
    BY <2>1, <2>2, <2>3, <2>4 DEF WritesOneRow, ClosesRowsThere, Adds, StepKey
  <2>6. RowsInTurn'
    BY <2>5 DEF OneAtATime, RowsInTurn
  <2> QED
    BY <1>4, <2>2, <2>6
<1>7. ASSUME NEW w \in Workers, LoadUpdateExecution(w) \/ LoadReopen(w)
      PROVE  RowsInTurn' /\ OneRowPerCase'
  <2>1. PICK st \in ExecutionStatuses : BeginStatusChange(w, st)
    BY <1>7 DEF LoadUpdateExecution, LoadReopen, ExecutionStatuses
  <2> DEFINE q == [Idle EXCEPT !.pc = "flush", !.seen = exec, !.to = st]
  <2>2. req' = [req EXCEPT ![w] = q] /\ UNCHANGED <<result, stepResult>>
    BY <2>1 DEF BeginStatusChange, Begin
  <2>3. q.pc = "flush"
    BY DEF Idle
  <2> HIDE DEF q
  <2>4. req'[w] = q
    BY <2>2 DEF TypeOK
  <2> QED
    BY <1>1, <1>4, <2>2, <2>3, <2>4
<1>8. ASSUME NEW w \in Workers, CommitResults(w)
      PROVE  RowsInTurn' /\ OneRowPerCase'
  <2>1. req[w].pc = "write" /\ exec # Deleted /\ WriteRows(w) /\ req'[w].pc = "notify"
    BY <1>8 DEF CommitResults, TypeOK, Idle
  <2>2. Adds(Rows, CaseOf, result, req[w].result) /\ Adds(StepRows, StepKey, stepResult, req[w].step)
    BY <2>1 DEF RowsInTurn, WritesOneRow
  <2> QED
    BY <1>1, <1>5, <2>1, <2>2
<1>9. ASSUME NEW w \in Workers, Flush(w)
      PROVE  RowsInTurn' /\ OneRowPerCase'
  <2> DEFINE q == [req[w] EXCEPT !.pc = "close",
                     !.result = IF Completes(w) THEN SweepResults ELSE NoResults,
                     !.step = IF Completes(w) THEN SweepSteps ELSE NoSteps]
  <2>1. req' = [req EXCEPT ![w] = q] /\ lock' = w /\ UNCHANGED <<result, stepResult>>
    BY <1>9 DEF Flush, TypeOK
  <2>2. req[w] \in Request
    BY DEF TypeOK
  <2>3. /\ q.pc = "close" /\ q.result \in {SweepResults, NoResults} /\ q.step \in {SweepSteps, NoSteps}
    BY <2>2 DEF Request
  <2>4. req'[w] = q
    BY <2>1 DEF TypeOK
  <2> HIDE DEF q
  <2>5. /\ \A r \in Rows : SweepResults[r] # Keep => result[r] # Absent
        /\ \A x \in StepRows : SweepSteps[x] # Keep => stepResult[x] # Absent
    BY DEF SweepResults, SweepSteps, Absent
  <2>6. (\A r \in Rows : NoResults[r] = Keep) /\ (\A x \in StepRows : NoSteps[x] = Keep)
    BY DEF NoResults, NoSteps
  <2>7. ClosesRowsThere(w)' /\ WritesOneRow(w)'
    BY <2>1, <2>3, <2>4, <2>5, <2>6 DEF ClosesRowsThere, WritesOneRow
  <2>8. RowsInTurn'
    BY <2>7 DEF OneAtATime, RowsInTurn
  <2> QED
    BY <1>4, <2>1, <2>8
<1>10. ASSUME NEW w \in Workers, CommitStatus(w)
       PROVE  RowsInTurn' /\ OneRowPerCase'
  <2>1. req[w].pc = "close" /\ WriteRows(w) /\ req'[w].pc \in {"idle", "announce"}
    BY <1>10 DEF CommitStatus, TypeOK, Idle
  <2>2. Adds(Rows, CaseOf, result, req[w].result) /\ Adds(StepRows, StepKey, stepResult, req[w].step)
    BY <2>1 DEF RowsInTurn, ClosesRowsThere, Adds
  <2> QED
    BY <1>1, <1>5, <2>1, <2>2
<1>11. ASSUME NEW w \in Workers,
              CommitFails(w) \/ FlushFails(w) \/ NotifyResults(w) \/ Announce(w) \/ Die(w)
       PROVE  RowsInTurn' /\ OneRowPerCase'
  <2>1. req'[w].pc = "idle" /\ UNCHANGED <<result, stepResult>>
    BY <1>11 DEF CommitFails, FlushFails, NotifyResults, Announce, Die, Finish, TypeOK, Idle
  <2> QED
    BY <1>1, <1>4, <2>1
<1>12. CASE Delete
  <2>1. /\ exec' = Deleted /\ lock = NoOne /\ UNCHANGED req
        /\ \A r \in Rows : result'[r] = Absent
        /\ \A x \in StepRows : stepResult'[x] = Absent
    BY <1>12 DEF Delete
  <2>2. \A w \in Workers : req[w].pc # "close"
    BY <2>1, ConstantsAssumption DEF RowsInTurn, ClosesRowsThere
  <2> QED
    BY <2>1, <2>2 DEF RowsInTurn, WritesOneRow, ClosesRowsThere, OneRowPerCase
<1>13. CASE UNCHANGED vars
  BY <1>13 DEF vars, RowsInTurn, WritesOneRow, ClosesRowsThere, Adds, StepKey, OneRowPerCase
<1> QED
  BY <1>6, <1>7, <1>8, <1>9, <1>10, <1>11, <1>12, <1>13 DEF Next, Handle, Load, Proceed

\* With requests served one at a time, and whatever dies on the way, an execution has one row
\* of each case and each of its rows one row of each step: the upserts find the row there is.
THEOREM UpsertsKeepOneRow ==
  ASSUME OneAtATime
  PROVE  Spec => []OneRowPerCase
<1>1. Init => RowsInTurn /\ OneRowPerCase
  BY DEF Init, RowsInTurn, WritesOneRow, ClosesRowsThere, Idle, OneRowPerCase, Absent
<1>2. TypeOK /\ RowsInTurn /\ OneRowPerCase /\ [Next]_vars => (RowsInTurn /\ OneRowPerCase)'
  BY RowsInductive
<1> QED
  BY <1>1, <1>2, TypeCorrect, PTL DEF Spec

-----------------------------------------------------------------------------
(* The machines together. *)

\* A step of another machine leaves imports alone.
LEMMA ImportsAside ==
  ASSUME ImportsInd,
         UNCHANGED <<serial, requests, case, executions, results, importing, toldFailed, passed>>
  PROVE  ImportsInd'
<1>1. TablesKept
  BY TablesUnchanged
<1>2. RequestsPending'
  BY <1>1, OthersPending DEF ImportsInd, RequestsPending
<1>3. ImportTablesTyped' /\ I!TypeOK' /\ I!RerunsMissNothing' /\ PassesRemembered'
  BY DEF ImportsInd, ImportTablesTyped, I!TypeOK, I!RerunsMissNothing,
       PassesRemembered, I!RowsOf, I!CasesOf
<1>4. I!FailuresReported' /\ StepsInTurn'
  BY DEF ImportsInd, I!FailuresReported, StepsInTurn, I!Does, Busy
<1> QED
  BY <1>2, <1>3, <1>4 DEF ImportsInd

\* However files, edits, reruns and deletions overlap: each row that failed has been reported
\* since it failed or is about to be, a rerun misses no case of its source that it should take
\* and has it once, and served in turn imports give a row one row of its step.
THEOREM ImportsMissNothing == MCSpec => [](part = "imports" => I!ImportsAgree)
<1> DEFINE IInv == part = "imports" => ImportsInd
<1>1. MCInit => IInv
  BY ImportsInitially DEF MCInit
<1>2. IInv /\ [MCNext]_allVars => IInv'
  <2> SUFFICES ASSUME part' = "imports", IInv, [MCNext]_allVars PROVE ImportsInd'
    OBVIOUS
  <2>1. CASE ImportStep
    BY <2>1, ImportsInductive DEF ImportStep
  <2>2. CASE LifecycleStep \/ PageStep \/ ReportStep
    BY <2>2 DEF LifecycleStep, PageStep, ReportStep
  <2>3. CASE UNCHANGED allVars
    BY <2>3, ImportsAside DEF allVars, importVars
  <2> QED
    BY <2>1, <2>2, <2>3 DEF MCNext
<1>3. IInv => (part = "imports" => I!ImportsAgree)
  BY DEF I!ImportsAgree, ImportsInd, StepsInTurn, I!OneStepRow
<1> HIDE DEF IInv
<1> QED
  BY <1>1, <1>2, <1>3, PTL DEF MCSpec

\* Imports and reruns report every failure and drop no case, and an execution whose requests
\* are served one at a time has one row of each case and of each step.
THEOREM ImportsAndUpserts ==
  ASSUME OneAtATime
  PROVE  MCSpec => []ImportsAgree
<1> DEFINE IInv == part = "lifecycle" => TypeOK /\ RequestsOK /\ RowsInTurn /\ OneRowPerCase
<1>1. MCInit => IInv
  <2> SUFFICES ASSUME Init PROVE TypeOK /\ RequestsOK /\ RowsInTurn /\ OneRowPerCase
    BY DEF MCInit
  <2>1. RowsInTurn /\ OneRowPerCase
    BY DEF Init, RowsInTurn, WritesOneRow, ClosesRowsThere, Idle, OneRowPerCase, Absent
  <2> QED
    BY <2>1, TypeInitially
<1>2. IInv /\ [MCNext]_allVars => IInv'
  <2> SUFFICES ASSUME part' = "lifecycle", IInv, [MCNext]_allVars
               PROVE  TypeOK' /\ RequestsOK' /\ RowsInTurn' /\ OneRowPerCase'
    OBVIOUS
  <2>1. CASE LifecycleStep \/ UNCHANGED allVars
    <3>1. part = "lifecycle" /\ [Next]_vars
      BY <2>1 DEF LifecycleStep, allVars
    <3> QED
      BY <3>1, TypeInductive, RowsInductive
  <2>2. CASE ImportStep \/ PageStep \/ ReportStep
    BY <2>2 DEF ImportStep, PageStep, ReportStep
  <2> QED
    BY <2>1, <2>2 DEF MCNext
<1>3. IInv => (part = "lifecycle" => OneRowPerCase)
  OBVIOUS
<1>4. (part = "imports" => I!ImportsAgree) /\ (part = "lifecycle" => OneRowPerCase) => ImportsAgree
  BY DEF ImportsAgree
<1> HIDE DEF IInv
<1> QED
  BY <1>1, <1>2, <1>3, <1>4, ImportsMissNothing, PTL DEF MCSpec

-----------------------------------------------------------------------------
(* What pages and reports say: sums over the parts of a set. *)

\* The parts of a finite set, each member in one of them, are together as many as its members.
LEMMA PartsAddUp ==
  ASSUME NEW whole, IsFiniteSet(whole), NEW D, NEW pieces \in [D -> SUBSET whole],
         \A x \in whole : \E d \in D : x \in pieces[d],
         \A d, e \in D : \A x \in whole : x \in pieces[d] /\ x \in pieces[e] => d = e,
         NEW numbers, DOMAIN numbers = D, \A d \in D : numbers[d] = Cardinality(pieces[d])
  PROVE  Cardinality(UNION {{d} \X (1 .. numbers[d]) : d \in DOMAIN numbers}) = Cardinality(whole)
<1> DEFINE pairs == UNION {{d} \X (1 .. numbers[d]) : d \in DOMAIN numbers}
           list == [d \in D |-> CHOOSE f : f \in Bijection(1 .. numbers[d], pieces[d])]
           g == [p \in pairs |-> list[p[1]][p[2]]]
<1>1. ASSUME NEW d \in D
      PROVE  /\ list[d] \in [1 .. numbers[d] -> pieces[d]]
             /\ \A i, j \in 1 .. numbers[d] : list[d][i] = list[d][j] => i = j
             /\ \A x \in pieces[d] : \E i \in 1 .. numbers[d] : list[d][i] = x
  <2>1. IsFiniteSet(pieces[d])
    BY FS_Subset
  <2>2. \E f : f \in Bijection(1 .. numbers[d], pieces[d])
    BY <2>1, FS_CardinalityType DEF ExistsBijection
  <2>3. list[d] \in Bijection(1 .. numbers[d], pieces[d])
    BY <2>2
  <2> QED
    BY <2>3 DEF Bijection, Injection, Surjection, IsInjective
<1>2. \A p \in pairs : p[1] \in D /\ p[2] \in 1 .. numbers[p[1]] /\ p = <<p[1], p[2]>>
  OBVIOUS
<1>3. \A d \in D : \A i \in 1 .. numbers[d] : <<d, i>> \in pairs
  OBVIOUS
<1> HIDE DEF list, pairs
<1>4. ASSUME NEW p \in pairs
      PROVE  g[p] = list[p[1]][p[2]] /\ g[p] \in pieces[p[1]] /\ g[p] \in whole
  <2>1. p[1] \in D /\ p[2] \in 1 .. numbers[p[1]]
    BY <1>2
  <2>2. list[p[1]] \in [1 .. numbers[p[1]] -> pieces[p[1]]]
    BY <2>1, <1>1
  <2>3. list[p[1]][p[2]] \in pieces[p[1]]
    BY <2>1, <2>2
  <2>4. pieces[p[1]] \subseteq whole
    BY <2>1
  <2> QED
    BY <2>3, <2>4
<1>5. g \in [pairs -> whole]
  BY <1>4
<1>6. \A p, q \in pairs : g[p] = g[q] => p = q
  <2> SUFFICES ASSUME NEW p \in pairs, NEW q \in pairs, g[p] = g[q] PROVE p = q
    OBVIOUS
  <2>1. p[1] = q[1]
    BY <1>2, <1>4
  <2>2. p[2] = q[2]
    BY <2>1, <1>1, <1>2, <1>4
  <2> QED
    BY <2>1, <2>2, <1>2
<1>7. \A x \in whole : \E p \in pairs : g[p] = x
  <2> SUFFICES ASSUME NEW x \in whole PROVE \E p \in pairs : g[p] = x
    OBVIOUS
  <2>1. PICK d \in D : x \in pieces[d]
    OBVIOUS
  <2>2. PICK i \in 1 .. numbers[d] : list[d][i] = x
    BY <2>1, <1>1
  <2>3. <<d, i>> \in pairs
    BY <1>3
  <2>4. g[<<d, i>>] = x
    BY <2>2, <2>3, <1>4
  <2> QED
    BY <2>3, <2>4
<1> HIDE DEF g
<1>8. g \in Injection(pairs, whole)
  BY <1>5, <1>6 DEF Injection, IsInjective
<1>9. g \in Surjection(pairs, whole)
  BY <1>5, <1>7 DEF Surjection
<1>10. Cardinality(pairs) = Cardinality(whole)
  BY <1>8, <1>9, FS_Injection
<1> QED
  BY <1>10 DEF pairs

-----------------------------------------------------------------------------
(* The suites of a report: climbs over a forest, and over what a report saw of it. *)

\* Suites of which none climbs out.
Trap(up, set) == set # {} /\ set \subseteq E!Suites /\ \A u \in set : up[u] \in set
Forest(up) == \A set \in SUBSET E!Suites : ~Trap(up, set)
UpClosed(up, set) == \A u \in set \ {E!Root} : up[u] \in set

LEMMA RootApart == E!Root \notin E!Suites /\ E!Places = {E!Root} \cup E!Suites
  BY BoundsAssumption DEF E!Root, E!Suites, E!Places

\* A climb has its start, is closed, and is in every closed set that has its start.
LEMMA ClimbIsLeast ==
  ASSUME NEW up \in [E!Suites -> E!Places], NEW s \in E!Places
  PROVE  /\ s \in E!Climb(up, s) /\ E!Climb(up, s) \subseteq E!Places
         /\ UpClosed(up, E!Climb(up, s))
         /\ \A set \in SUBSET E!Places : s \in set /\ UpClosed(up, set) => E!Climb(up, s) \subseteq set
<1> DEFINE climb == E!Climb(up, s)
<1>1. \A t : t \in climb <=>
        t \in E!Places /\ \A set \in SUBSET E!Places : s \in set /\ UpClosed(up, set) => t \in set
  BY DEF E!Climb, UpClosed
<1> HIDE DEF climb
<1>2. ASSUME NEW u \in climb \ {E!Root} PROVE up[u] \in climb
  <2>1. u \in E!Suites /\ up[u] \in E!Places
    BY <1>1, RootApart
  <2>2. ASSUME NEW set \in SUBSET E!Places, s \in set, UpClosed(up, set) PROVE up[u] \in set
    BY <2>2, <1>1 DEF UpClosed
  <2> QED
    BY <2>1, <2>2, <1>1
<1>3. UpClosed(up, climb)
  BY <1>2 DEF UpClosed
<1> QED
  BY <1>1, <1>3 DEF climb

\* In a forest every climb ends, and where every climb ends there is a forest.
LEMMA ForestEnds ==
  ASSUME NEW up \in [E!Suites -> E!Places], Forest(up), NEW s \in E!Places
  PROVE  E!Ends(up, s)
<1> SUFFICES ASSUME E!Root \notin E!Climb(up, s) PROVE FALSE
  BY DEF E!Ends
<1>1. E!Climb(up, s) \subseteq E!Suites
  BY ClimbIsLeast, RootApart
<1>2. Trap(up, E!Climb(up, s))
  BY <1>1, ClimbIsLeast DEF Trap, UpClosed
<1> QED
  BY <1>1, <1>2 DEF Forest

LEMMA EndsForest ==
  ASSUME NEW up \in [E!Suites -> E!Places], \A s \in E!Suites : E!Ends(up, s)
  PROVE  Forest(up)
<1> SUFFICES ASSUME NEW set \in SUBSET E!Suites, Trap(up, set) PROVE FALSE
  BY DEF Forest
<1>1. PICK s \in set : TRUE
  BY DEF Trap
<1>2. s \in E!Places /\ set \in SUBSET E!Places /\ UpClosed(up, set)
  BY RootApart DEF Trap, UpClosed
<1>3. E!Climb(up, s) \subseteq set
  BY <1>2, ClimbIsLeast
<1> QED
  BY <1>3, RootApart DEF E!Ends

\* A suite moved under one whose climb does not pass it leaves a forest.
LEMMA ForestMoves ==
  ASSUME NEW up \in [E!Suites -> E!Places], Forest(up), NEW s \in E!Suites, NEW p \in E!Suites,
         s \notin E!Climb(up, p)
  PROVE  Forest([up EXCEPT ![s] = p])
<1> DEFINE moved == [up EXCEPT ![s] = p]
<1> SUFFICES ASSUME NEW set \in SUBSET E!Suites, Trap(moved, set) PROVE FALSE
  BY DEF Forest
<1>1. moved[s] = p /\ \A u \in E!Suites \ {s} : moved[u] = up[u]
  OBVIOUS
<1> HIDE DEF moved
<1>2. CASE s \notin set
  <2>1. Trap(up, set)
    BY <1>1, <1>2 DEF Trap
  <2> QED
    BY <2>1 DEF Forest
<1>3. CASE s \in set
  <2> DEFINE both == set \cap E!Climb(up, p)
  <2>1. p \in both /\ s \notin both /\ both \subseteq E!Suites
    BY <1>1, <1>3, ClimbIsLeast, RootApart DEF Trap
  <2>2. ASSUME NEW u \in both PROVE up[u] \in both
    <3>1. up[u] \in set
      BY <2>1, <1>1 DEF Trap
    <3>2. up[u] \in E!Climb(up, p)
      BY <2>1, ClimbIsLeast, RootApart DEF UpClosed
    <3> QED
      BY <3>1, <3>2
  <2>3. Trap(up, both)
    BY <2>1, <2>2 DEF Trap
  <2> QED
    BY <2>1, <2>3 DEF Forest
<1> QED
  BY <1>2, <1>3

\* A climb that ends passes a root, and one only.
LEMMA RootFound ==
  ASSUME NEW up \in [E!Suites -> E!Places], NEW s \in E!Suites, E!Ends(up, s)
  PROVE  \E t \in E!Climb(up, s) : t # E!Root /\ up[t] = E!Root
<1> SUFFICES ASSUME \A t \in E!Climb(up, s) \ {E!Root} : up[t] # E!Root PROVE FALSE
  OBVIOUS
<1> DEFINE rest == E!Climb(up, s) \ {E!Root}
<1>1. s \in E!Places /\ s \in rest
  BY ClimbIsLeast, RootApart
<1>2. UpClosed(up, rest) /\ rest \in SUBSET E!Places
  BY <1>1, ClimbIsLeast DEF UpClosed
<1>3. E!Climb(up, s) \subseteq rest
  BY <1>1, <1>2, ClimbIsLeast
<1> QED
  BY <1>3 DEF E!Ends

LEMMA OneRoot ==
  ASSUME NEW up \in [E!Suites -> E!Places], NEW s \in E!Suites,
         NEW t \in E!Climb(up, s), NEW q \in E!Climb(up, s),
         t # E!Root, q # E!Root, up[t] = E!Root, up[q] = E!Root
  PROVE  t = q
<1> DEFINE below == {u \in E!Places : t \in E!Climb(up, u)} \cup {E!Root}
<1>1. s \in E!Places /\ E!Root \in E!Places /\ t \in E!Suites /\ q \in E!Suites
  BY ClimbIsLeast, RootApart
<1>2. s \in below /\ below \in SUBSET E!Places
  BY <1>1
<1>3. ASSUME NEW u \in below \ {E!Root} PROVE up[u] \in below
  <2>1. u \in E!Suites /\ t \in E!Climb(up, u) /\ up[u] \in E!Places
    BY RootApart
  <2>2. CASE u = t
    BY <2>2
  <2>3. CASE u # t
    <3> DEFINE with == {u} \cup E!Climb(up, up[u])
    <3>1. UpClosed(up, with) /\ with \in SUBSET E!Places
      BY <2>1, <1>1, ClimbIsLeast, RootApart DEF UpClosed
    <3>2. E!Climb(up, u) \subseteq with
      BY <2>1, <3>1, ClimbIsLeast, RootApart
    <3>3. t \in E!Climb(up, up[u])
      BY <2>1, <2>3, <3>2
    <3> QED
      BY <2>1, <3>3
  <2> QED
    BY <2>2, <2>3
<1>4. E!Climb(up, s) \subseteq below
  <2>1. UpClosed(up, below)
    BY <1>3 DEF UpClosed
  <2> HIDE DEF below
  <2> QED
    BY <1>1, <1>2, <2>1, ClimbIsLeast
<1>5. t \in E!Climb(up, q)
  BY <1>4
<1>6. UpClosed(up, {q, E!Root}) /\ {q, E!Root} \in SUBSET E!Places
  <2>1. {q, E!Root} \in SUBSET E!Places
    BY <1>1, RootApart
  <2>2. \A u \in {q, E!Root} \ {E!Root} : up[u] = E!Root
    OBVIOUS
  <2> QED
    BY <2>1, <2>2 DEF UpClosed
<1>7. E!Climb(up, q) \subseteq {q, E!Root}
  BY <1>1, <1>6, ClimbIsLeast, RootApart
<1> QED
  BY <1>5, <1>7

-----------------------------------------------------------------------------
(* The report of an execution while suites and rows change. *)

\* What was loaded: rows with their suites and statuses, and of the suites above them what they
\* were in a forest that is, until a second suite is moved, the one there is but for one suite.
LoadedFrom(old) ==
  /\ old \in [E!Suites -> E!Places] /\ Forest(old)
  /\ \A s \in DOMAIN report.parent : report.parent[s] = old[s]
  /\ \A s, u \in E!Suites : parent[s] # old[s] /\ parent[u] # old[u] => s = u
  /\ moves = 0 => old = parent

Loaded ==
  /\ report.suite \in [Things -> E!Places]
  /\ DOMAIN report.parent \subseteq E!Suites
  /\ report.parent \in [DOMAIN report.parent -> E!Places]
  /\ moves <= 1 => \E old : LoadedFrom(old)

ReportInd ==
  /\ E!TypeOK /\ Forest(parent)
  /\ report.made => Loaded
  /\ E!EachRowOnce /\ E!ReportsEnd

\* What a report saw of the suites: a forest, if one suite was moved meanwhile at most.
LEMMA SeenTyped ==
  ASSUME E!TypeOK, Loaded
  PROVE  E!Seen \in [E!Suites -> E!Places]
<1>1. \A s \in E!Suites : E!Seen[s] \in E!Places
  BY DEF E!Seen, Loaded, E!TypeOK
<1> QED
  BY <1>1 DEF E!Seen

LEMMA SeenForest ==
  ASSUME E!TypeOK, Loaded, Forest(parent), moves <= 1
  PROVE  Forest(E!Seen)
<1>1. PICK old : LoadedFrom(old)
  BY DEF Loaded
<1>2. /\ old \in [E!Suites -> E!Places] /\ parent \in [E!Suites -> E!Places]
      /\ E!Seen \in [E!Suites -> E!Places]
  BY <1>1, SeenTyped DEF LoadedFrom, E!TypeOK
<1>3. \A s \in E!Suites : E!Seen[s] = IF s \in DOMAIN report.parent THEN old[s] ELSE parent[s]
  BY <1>1 DEF E!Seen, LoadedFrom
<1>4. CASE \A s \in E!Suites : E!Seen[s] = parent[s]
  <2>1. E!Seen = parent
    BY <1>2, <1>4
  <2> QED
    BY <2>1
<1>5. CASE \E s \in E!Suites : E!Seen[s] # parent[s]
  <2>1. PICK s \in E!Suites : E!Seen[s] # parent[s]
    BY <1>5
  <2>2. E!Seen[s] = old[s] /\ old[s] # parent[s]
    BY <2>1, <1>3
  <2>3. \A u \in E!Suites \ {s} : parent[u] = old[u]
    BY <2>2, <1>1 DEF LoadedFrom
  <2>4. \A u \in E!Suites : E!Seen[u] = old[u]
    BY <1>3, <2>2, <2>3
  <2>5. E!Seen = old
    BY <1>2, <2>4
  <2> QED
    BY <2>5, <1>1 DEF LoadedFrom
<1> QED
  BY <1>4, <1>5

\* The model's way of counting is the library's.
LEMMA SameSizeOfReports == \A set : E!Cardinality(set) = Cardinality(set)
  BY DEF Cardinality, E!Cardinality

\* The section of a row.
SectionOf(r) == IF report.suite[r] = E!Root THEN E!Root ELSE E!RootOf(report.suite[r])
Sections == {SectionOf(r) : r \in Things}

\* A row is in its section and in no other.
LEMMA SectionsSplit ==
  ASSUME E!TypeOK, Loaded, \A r \in Things : E!Ends(E!Seen, report.suite[r])
  PROVE  \A r \in Things : \A t \in Sections : r \in E!AllResultsFor(t) <=> t = SectionOf(r)
<1>1. E!Seen \in [E!Suites -> E!Places]
  BY SeenTyped
<1>2. ASSUME NEW r \in Things, report.suite[r] # E!Root
      PROVE  /\ report.suite[r] \in E!Suites /\ SectionOf(r) \in E!Climb(E!Seen, report.suite[r])
             /\ SectionOf(r) # E!Root /\ E!Seen[SectionOf(r)] = E!Root
  <2>1. report.suite[r] \in E!Suites
    BY <1>2, RootApart DEF Loaded
  <2>2. \E t \in E!Climb(E!Seen, report.suite[r]) : t # E!Root /\ E!Seen[t] = E!Root
    BY <1>1, <2>1, RootFound
  <2> QED
    BY <1>2, <2>1, <2>2 DEF SectionOf, E!RootOf
<1>3. ASSUME NEW r \in Things, NEW t \in Sections
      PROVE  r \in E!AllResultsFor(t) <=> t = SectionOf(r)
  <2>1. PICK q \in Things : t = SectionOf(q)
    BY DEF Sections
  <2>2. t # E!Root => E!Seen[t] = E!Root
    BY <2>1, <1>2 DEF SectionOf
  <2>3. CASE t = E!Root
    BY <2>3, <1>2 DEF E!AllResultsFor, SectionOf
  <2>4. CASE t # E!Root /\ report.suite[r] = E!Root
    <3>1. UpClosed(E!Seen, {E!Root}) /\ {E!Root} \in SUBSET E!Places /\ E!Root \in E!Places
      BY RootApart DEF UpClosed
    <3>2. E!Climb(E!Seen, E!Root) \subseteq {E!Root}
      BY <1>1, <3>1, ClimbIsLeast
    <3> QED
      BY <2>4, <3>2 DEF E!AllResultsFor, SectionOf
  <2>5. CASE t # E!Root /\ report.suite[r] # E!Root
    <3>1. r \in E!AllResultsFor(t) <=> t \in E!Climb(E!Seen, report.suite[r])
      BY <2>5 DEF E!AllResultsFor
    <3>2. /\ report.suite[r] \in E!Suites /\ SectionOf(r) \in E!Climb(E!Seen, report.suite[r])
          /\ SectionOf(r) # E!Root /\ E!Seen[SectionOf(r)] = E!Root
      BY <2>5, <1>2
    <3>3. t \in E!Climb(E!Seen, report.suite[r]) => t = SectionOf(r)
      BY <1>1, <2>2, <2>5, <3>2, OneRoot
    <3> QED
      BY <3>1, <3>2, <3>3
  <2> QED
    BY <2>3, <2>4, <2>5
<1> QED
  BY <1>3

\* A page that is made of sections that split the rows shows each row once and adds up.
LEMMA PageAddsUp ==
  ASSUME E!TypeOK, Loaded, \A r \in Things : E!Ends(E!Seen, report.suite[r]), page' = E!Page
  PROVE  E!EachRowOnce'
<1> DEFINE part_(t, st) == {r \in E!AllResultsFor(t) : report.status[r] = st}
           all_(st) == {r \in Things : report.status[r] = st}
<1>1. /\ DOMAIN page'.section = Sections /\ DOMAIN page'.counts = Sections
      /\ \A t \in Sections : page'.section[t] = E!AllResultsFor(t)
      /\ \A t \in Sections : \A st \in E!Statuses : page'.counts[t][st] = Cardinality(part_(t, st))
      /\ \A st \in E!Statuses : page'.total[st] = Cardinality(all_(st))
      /\ page'.pass <=> Things # {} /\ Cardinality(all_("failed")) = 0
  BY SameSizeOfReports DEF E!Page, E!Counts, E!With, Sections, SectionOf
<1>2. \A t : E!AllResultsFor(t) \subseteq Things
  BY DEF E!AllResultsFor
<1>3. IsFiniteSet(Things)
  BY ThingsAssumption
<1>4. \A r \in Things : SectionOf(r) \in Sections
  BY DEF Sections
<1>5. \A r \in Things : \A t \in Sections : r \in E!AllResultsFor(t) <=> t = SectionOf(r)
  BY SectionsSplit
<1>6. ASSUME NEW r \in Things
      PROVE  Cardinality({t \in DOMAIN page'.section : r \in page'.section[t]}) = 1
  <2>1. {t \in DOMAIN page'.section : r \in page'.section[t]} = {SectionOf(r)}
    BY <1>1, <1>4, <1>5
  <2> QED
    BY <2>1, FS_Singleton
<1>7. ASSUME NEW st \in E!Statuses
      PROVE  page'.total[st] = E!Sum([t \in DOMAIN page'.counts |-> page'.counts[t][st]])
  <2> DEFINE pieces == [t \in Sections |-> part_(t, st)]
             numbers == [t \in DOMAIN page'.counts |-> page'.counts[t][st]]
  <2>1. IsFiniteSet(all_(st))
    BY <1>3, FS_Subset
  <2>2. pieces \in [Sections -> SUBSET all_(st)]
    BY <1>2
  <2>3. \A r \in all_(st) : \E t \in Sections : r \in pieces[t]
    BY <1>4, <1>5
  <2>4. \A t, q \in Sections : \A r \in all_(st) : r \in pieces[t] /\ r \in pieces[q] => t = q
    BY <1>5
  <2>5. DOMAIN numbers = Sections /\ \A t \in Sections : numbers[t] = Cardinality(pieces[t])
    BY <1>1
  <2> HIDE DEF pieces, numbers
  <2>6. Cardinality(UNION {{t} \X (1 .. numbers[t]) : t \in DOMAIN numbers}) = Cardinality(all_(st))
    BY <2>1, <2>2, <2>3, <2>4, <2>5, PartsAddUp
  <2> QED
    BY <2>6, <1>1, SameSizeOfReports DEF E!Sum, numbers
<1>8. page'.pass <=> Things # {} /\ \A t \in DOMAIN page'.counts : page'.counts[t]["failed"] = 0
  <2>1. \A set \in SUBSET Things : Cardinality(set) = 0 <=> set = {}
    BY <1>3, FS_Subset, FS_EmptySet
  <2>2. Cardinality(all_("failed")) = 0 <=> all_("failed") = {}
    BY <2>1
  <2>3. "failed" \in E!Statuses
    BY DEF E!Statuses
  <2>4. ASSUME NEW t \in Sections
        PROVE  page'.counts[t]["failed"] = 0 <=> part_(t, "failed") = {}
    <3>1. part_(t, "failed") \in SUBSET Things
      BY <1>2
    <3> HIDE DEF part_
    <3> QED
      BY <3>1, <2>1, <2>3, <1>1
  <2>5. all_("failed") = {} <=> \A t \in Sections : part_(t, "failed") = {}
    BY <1>2, <1>4, <1>5
  <2> HIDE DEF part_, all_
  <2> QED
    BY <1>1, <2>2, <2>4, <2>5
<1> QED
  BY <1>6, <1>7, <1>8, SameSizeOfReports DEF E!EachRowOnce

LEMMA ReportInitially ==
  ASSUME E!Init PROVE ReportInd
<1>1. Forest(parent)
  BY EndsForest DEF E!Init
<1>2. E!TypeOK
  <2>1. suite \in [Things -> E!Places] /\ requests \in 0 .. ReportRequests /\ moves \in 0 .. requests
    BY BoundsAssumption, RootApart DEF E!Init
  <2> QED
    BY <2>1 DEF E!Init, E!TypeOK, E!Statuses
<1>3. ~report.made /\ ~page.made /\ ~hung
  BY DEF E!Init, E!Nothing
<1> QED
  BY <1>1, <1>2, <1>3 DEF ReportInd, E!EachRowOnce, E!ReportsEnd

\* update_suite
LEMMA MoveSuiteKeeps ==
  ASSUME ReportInd, NEW s \in E!Suites, NEW p \in E!Suites, E!MoveSuite(s, p)
  PROVE  ReportInd'
<1>1. E!TypeOK /\ Forest(parent)
  BY DEF ReportInd
<1>2. /\ ~hung /\ hung' = hung /\ requests < ReportRequests /\ requests' = requests + 1
      /\ s \notin E!Climb(parent, p) /\ parent' = [parent EXCEPT ![s] = p]
      /\ moves' = IF report.made THEN moves + 1 ELSE moves
      /\ UNCHANGED <<report, page, suite, status>>
  BY DEF E!MoveSuite, E!Serve
<1>3. /\ parent \in [E!Suites -> E!Places] /\ requests \in 0 .. ReportRequests /\ moves \in 0 .. requests
  BY <1>1 DEF E!TypeOK
<1>4. Forest(parent')
  BY <1>1, <1>2, <1>3, ForestMoves
<1>5. parent' \in [E!Suites -> E!Places] /\ \A u \in E!Suites \ {s} : parent'[u] = parent[u]
  BY <1>2, <1>3, RootApart
<1>6. E!TypeOK'
  <2>1. requests' \in 0 .. ReportRequests /\ moves' \in 0 .. requests'
    BY <1>2, <1>3, BoundsAssumption
  <2> QED
    BY <1>1, <1>2, <1>5, <2>1 DEF E!TypeOK
<1>7. report'.made => Loaded'
  <2> SUFFICES ASSUME report.made PROVE Loaded'
    BY <1>2
  <2>1. Loaded
    BY DEF ReportInd
  <2>2. ASSUME moves' <= 1 PROVE \E old : LoadedFrom(old)'
    <3>1. moves = 0 /\ moves' = 1
      BY <2>2, <1>2, <1>3
    <3>2. PICK old : LoadedFrom(old)
      BY <2>1, <3>1 DEF Loaded
    <3>3. old = parent
      BY <3>1, <3>2 DEF LoadedFrom
    <3>4. LoadedFrom(old)'
      BY <1>2, <1>5, <3>1, <3>2, <3>3 DEF LoadedFrom
    <3> QED
      BY <3>4
  <2> QED
    BY <2>1, <2>2, <1>2 DEF Loaded
<1>8. E!EachRowOnce' /\ E!ReportsEnd'
  BY <1>2 DEF ReportInd, E!EachRowOnce, E!ReportsEnd
<1> QED
  BY <1>4, <1>6, <1>7, <1>8 DEF ReportInd, Forest, Trap

\* A request that moves no suite.
LEMMA RowStepKeeps ==
  ASSUME ReportInd, ~hung, requests < ReportRequests, requests' = requests + 1,
         UNCHANGED <<parent, moves, report, page, hung>>,
         suite' \in [Things -> E!Places], status' \in [Things -> E!Statuses]
  PROVE  ReportInd'
<1>1. E!TypeOK'
  <2>1. requests' \in 0 .. ReportRequests /\ moves' \in 0 .. requests'
    BY BoundsAssumption DEF ReportInd, E!TypeOK
  <2> QED
    BY <2>1 DEF ReportInd, E!TypeOK
<1>2. Forest(parent)'
  BY DEF ReportInd, Forest, Trap
<1>3. report'.made => Loaded'
  BY DEF ReportInd, Loaded, LoadedFrom
<1>4. E!EachRowOnce' /\ E!ReportsEnd'
  BY DEF ReportInd, E!EachRowOnce, E!ReportsEnd
<1> QED
  BY <1>1, <1>2, <1>3, <1>4 DEF ReportInd

\* load_execution_for_report
LEMMA LoadKeeps ==
  ASSUME ReportInd, E!Load PROVE ReportInd'
<1>1. E!TypeOK /\ Forest(parent)
  BY DEF ReportInd
<1>2. /\ report' = [made |-> TRUE, suite |-> suite, status |-> status,
                    parent |-> [s \in E!Range(suite) \ {E!Root} |-> parent[s]]]
      /\ moves' = 0 /\ UNCHANGED <<parent, suite, status, requests, page, hung>> /\ ~hung
  BY DEF E!Load
<1>3. E!TypeOK'
  BY <1>1, <1>2 DEF E!TypeOK
<1>4. Loaded'
  <2>1. E!Range(suite) \ {E!Root} \subseteq E!Suites
    BY <1>1, RootApart DEF E!TypeOK, E!Range
  <2>2. \A s \in E!Suites : parent[s] \in E!Places
    BY <1>1 DEF E!TypeOK
  <2>3. LoadedFrom(parent)'
    BY <1>1, <1>2, <2>1 DEF LoadedFrom, E!TypeOK
  <2> QED
    BY <1>1, <1>2, <2>1, <2>2, <2>3 DEF Loaded, E!TypeOK
<1>5. E!EachRowOnce' /\ E!ReportsEnd'
  BY <1>2 DEF ReportInd, E!EachRowOnce, E!ReportsEnd
<1>6. Forest(parent)'
  BY <1>1, <1>2
<1> QED
  BY <1>3, <1>4, <1>5, <1>6 DEF ReportInd

\* render_html
LEMMA RenderKeeps ==
  ASSUME ReportInd, E!Render PROVE ReportInd'
<1>1. E!TypeOK /\ Forest(parent) /\ Loaded
  BY DEF ReportInd, E!Render
<1>2. E!TypeOK' /\ Forest(parent)'
  BY <1>1 DEF E!Render, E!TypeOK
<1>3. CASE \A r \in Things : E!Ends(E!Seen, report.suite[r])
  <2>1. page' = E!Page /\ report' = E!Nothing /\ hung' = hung /\ moves' = moves
    BY <1>3 DEF E!Render
  <2>2. E!EachRowOnce'
    BY <1>1, <1>3, <2>1, PageAddsUp
  <2>3. ~report'.made
    BY <2>1 DEF E!Nothing
  <2> QED
    BY <1>2, <2>1, <2>2, <2>3 DEF ReportInd, E!ReportsEnd
<1>4. CASE ~ \A r \in Things : E!Ends(E!Seen, report.suite[r])
  <2>1. hung' = TRUE /\ UNCHANGED <<page, report, parent, suite, status, requests, moves>>
    BY <1>4 DEF E!Render
  <2>2. ~(moves <= 1)
    <3> SUFFICES ASSUME moves <= 1 PROVE FALSE
      OBVIOUS
    <3>1. \A r \in Things : report.suite[r] \in E!Places
      BY <1>1 DEF Loaded
    <3> QED
      BY <1>1, <1>4, <3>1, SeenTyped, SeenForest, ForestEnds
  <2>3. moves >= 2
    BY <2>2, <1>1 DEF E!TypeOK
  <2>4. Loaded'
    BY <1>1, <2>1, <2>2 DEF Loaded
  <2> QED
    BY <1>2, <2>1, <2>3, <2>4 DEF ReportInd, E!EachRowOnce, E!ReportsEnd
<1> QED
  BY <1>3, <1>4

LEMMA ReportInductive ==
  ASSUME ReportInd, E!Next PROVE ReportInd'
<1>1. ASSUME NEW s \in E!Suites, NEW p \in E!Suites, E!MoveSuite(s, p) PROVE ReportInd'
  BY <1>1, MoveSuiteKeeps
<1>2. ASSUME NEW r \in Things, NEW s \in E!Places, E!MoveCase(r, s) PROVE ReportInd'
  <2>1. suite' \in [Things -> E!Places] /\ status' \in [Things -> E!Statuses]
    BY <1>2 DEF ReportInd, E!TypeOK, E!MoveCase
  <2> QED
    BY <1>2, <2>1, RowStepKeeps DEF E!MoveCase, E!Serve
<1>3. ASSUME NEW r \in Things, NEW st \in {"passed", "failed"}, E!SetResult(r, st) PROVE ReportInd'
  <2>1. suite' \in [Things -> E!Places] /\ status' \in [Things -> E!Statuses]
    BY <1>3 DEF ReportInd, E!TypeOK, E!SetResult, E!Statuses
  <2> QED
    BY <1>3, <2>1, RowStepKeeps DEF E!SetResult, E!Serve
<1> QED
  BY <1>1, <1>2, <1>3, LoadKeeps, RenderKeeps DEF E!Next

\* While suites and rows change under it: a report shows each row in one section, its sections
\* add up to its header, and it ends unless two suites are moved while it is made.
THEOREM ReportsAddUp == MCSpec => [](part = "report" => E!ReportAgrees)
<1> DEFINE IInv == part = "report" => ReportInd
<1>1. MCInit => IInv
  BY ReportInitially DEF MCInit
<1>2. IInv /\ [MCNext]_allVars => IInv'
  <2> SUFFICES ASSUME part' = "report", IInv, [MCNext]_allVars PROVE ReportInd'
    OBVIOUS
  <2>1. CASE ReportStep
    BY <2>1, ReportInductive DEF ReportStep
  <2>2. CASE LifecycleStep \/ PageStep \/ ImportStep
    BY <2>2 DEF LifecycleStep, PageStep, ImportStep
  <2>3. CASE UNCHANGED allVars
    <3>1. part = "report" /\ UNCHANGED <<parent, suite, status, requests, report, page, moves, hung>>
      BY <2>3 DEF allVars, reportVars
    <3>2. Forest(parent)' /\ E!TypeOK'
      BY <3>1 DEF ReportInd, E!TypeOK
    <3>3. report'.made => Loaded'
      BY <3>1 DEF ReportInd, Loaded, LoadedFrom
    <3>4. E!EachRowOnce' /\ E!ReportsEnd'
      BY <3>1 DEF ReportInd, E!EachRowOnce, E!ReportsEnd
    <3> QED
      BY <3>2, <3>3, <3>4 DEF ReportInd
  <2> QED
    BY <2>1, <2>2, <2>3 DEF MCNext
<1>3. IInv => (part = "report" => E!ReportAgrees)
  BY DEF ReportInd, E!ReportAgrees
<1> HIDE DEF IInv
<1> QED
  BY <1>1, <1>2, <1>3, PTL DEF MCSpec

-----------------------------------------------------------------------------
(* The pages of a project. *)

RunRows ==
  [version : Things \cup {None}, status : {"pending", "in_progress", "completed"}, at : Nat]
PageRows ==
  [run : Nat, case : Things \cup {None},
   status : {"not_run", "running", "passed", "failed", "blocked"}, at : Nat]

\* Executions begin one after the other, and what is stamped was stamped since its execution began.
PagesInd ==
  /\ cases \subseteq Things /\ archived \subseteq Things /\ requests \in 0 .. PageRequests
  /\ runs \in Seq(RunRows) /\ rows \in Seq(PageRows)
  /\ \A e \in DOMAIN runs : runs[e].at \in 1 .. requests
  /\ \A d, e \in DOMAIN runs : d < e => runs[d].at < runs[e].at
  /\ \A r \in DOMAIN rows :
       /\ rows[r].run \in DOMAIN runs /\ rows[r].case \in cases \cup {None}
       /\ rows[r].at # 0 => rows[r].at \in runs[rows[r].run].at .. requests

LEMMA PageTables ==
  ASSUME PagesInd
  PROVE  /\ Len(runs) \in Nat /\ DOMAIN runs = 1 .. Len(runs) /\ IsFiniteSet(DOMAIN runs)
         /\ \A e \in DOMAIN runs : runs[e] \in RunRows
         /\ Len(rows) \in Nat /\ DOMAIN rows = 1 .. Len(rows) /\ IsFiniteSet(DOMAIN rows)
         /\ \A r \in DOMAIN rows : rows[r] \in PageRows
<1>1. runs \in Seq(RunRows) /\ rows \in Seq(PageRows)
  BY DEF PagesInd
<1>2. /\ Len(runs) \in Nat /\ DOMAIN runs = 1 .. Len(runs)
      /\ Len(rows) \in Nat /\ DOMAIN rows = 1 .. Len(rows)
  BY <1>1
<1>3. IsFiniteSet(1 .. Len(runs)) /\ IsFiniteSet(1 .. Len(rows))
  BY <1>2, FS_Interval
<1>4. (\A e \in DOMAIN runs : runs[e] \in RunRows) /\ (\A r \in DOMAIN rows : rows[r] \in PageRows)
  BY <1>1
<1> QED
  BY <1>2, <1>3, <1>4

\* The model's ways of counting and listing are the library's.
LEMMA SameSizeOfPages == \A set : P!Cardinality(set) = Cardinality(set)
  BY DEF Cardinality, P!Cardinality

LEMMA SameListOfPages == \A set : P!SetToSeq(set) = I!SetToSeq(set)
  BY SameSizeOfPages, SameSizeOfImports DEF P!SetToSeq, I!SetToSeq, P!IsInjective, I!IsInjective

\* Numbers have a least, and a greatest if they are bounded.
LEMMA LeastOfSome ==
  ASSUME NEW set \in SUBSET Nat, set # {}
  PROVE  \E n \in set : \A k \in set : n <= k
<1>1. PICK n \in set : \A k \in set : <<k, n>> \notin OpToRel(<, Nat)
  BY WFMin, NatLessThanWellFounded, Zenon
<1>2. \A k \in set : ~(k < n)
  BY <1>1, Zenon DEF OpToRel
<1> QED
  BY <1>2

LEMMA GreatestOfBounded ==
  ASSUME NEW set \in SUBSET Nat, set # {}, NEW bound \in Nat, \A k \in set : k <= bound
  PROVE  \E m \in set : \A k \in set : m >= k
<1> DEFINE rest == {bound - k : k \in set}
<1>1. rest \in SUBSET Nat /\ rest # {}
  <2>1. \A k \in set : bound - k \in Nat
    OBVIOUS
  <2> QED
    BY <2>1
<1>2. PICK n \in rest : \A k \in rest : n <= k
  BY <1>1, LeastOfSome
<1>3. PICK m \in set : n = bound - m
  BY <1>2
<1>4. ASSUME NEW k \in set PROVE m >= k
  <2>1. bound - m <= bound - k
    BY <1>2, <1>3
  <2> QED
    BY <2>1
<1> QED
  BY <1>4

LEMMA MaxIs ==
  ASSUME NEW set \in SUBSET Int, NEW m \in set, \A k \in set : m >= k
  PROVE  P!Max(set) = m
<1>1. P!Max(set) \in set /\ \A k \in set : P!Max(set) >= k
  BY DEF P!Max
<1>2. P!Max(set) >= m /\ m >= P!Max(set) /\ P!Max(set) \in Int /\ m \in Int
  BY <1>1
<1> QED
  BY <1>2

LEMMA MinFound ==
  ASSUME NEW set \in SUBSET Nat, set # {}
  PROVE  P!Min(set) \in set
  BY LeastOfSome DEF P!Min

-----------------------------------------------------------------------------
(* Each page agrees with the others in every state of the tables. *)

LEMMA WindowTables ==
  ASSUME PagesInd, NEW since
  PROVE  P!Window(since) \subseteq DOMAIN runs /\ IsFiniteSet(P!Window(since))
  BY PageTables, FS_Subset DEF P!Window

LEMMA RecentPagesAgree ==
  ASSUME PagesInd PROVE P!RecentAgree
<1> SUFFICES ASSUME NEW since \in 0 .. P!now
             PROVE  LET card == P!RecentExecutions(since)
                        summary == P!SummaryExecutions \cap P!Window(since)
                    IN /\ card \subseteq summary \/ summary \subseteq card
                       /\ \A e \in card, s \in P!RESULT_STATUSES :
                            LET counts == P!CountsOfSummary(e) IN
                            P!CountsOfCard(e)[s] = IF s \in DOMAIN counts THEN counts[s] ELSE 0
                       /\ P!CountsCard(since).in_range <= P!ExecutionStats[1]
                       /\ card # {} => runs[P!Max(card)].at = P!ExecutionStats[2]
  BY DEF P!RecentAgree
<1> DEFINE card == P!RecentExecutions(since)
           summary == P!SummaryExecutions \cap P!Window(since)
           win == P!Window(since)
           n == Len(runs)
           after(set, e) == {d \in set : d > e}
<1>1. /\ n \in Nat /\ DOMAIN runs = 1 .. n /\ IsFiniteSet(DOMAIN runs) /\ win \subseteq DOMAIN runs
      /\ IsFiniteSet(win) /\ \A e \in DOMAIN runs : runs[e].at \in Nat
      /\ win = {e \in DOMAIN runs : runs[e].at >= since} /\ since \in Nat
  <2>1. since \in Nat
    BY DEF PagesInd, P!now
  <2>2. \A e \in DOMAIN runs : runs[e].at \in Nat
    BY DEF PagesInd
  <2>3. win \subseteq DOMAIN runs /\ IsFiniteSet(win)
    BY WindowTables
  <2> QED
    BY <2>1, <2>2, <2>3, PageTables DEF P!Window
<1>2. /\ card = {e \in win : Cardinality(after(win, e)) < RECENT_LIMIT}
      /\ P!SummaryExecutions =
           {e \in DOMAIN runs : Cardinality(after(DOMAIN runs, e)) < RECENT_EXECUTIONS_PER_PROJECT}
  BY SameSizeOfPages DEF P!RecentExecutions, P!SummaryExecutions, P!Newest
<1>3. ASSUME NEW set \in SUBSET (DOMAIN runs), NEW e
      PROVE  IsFiniteSet(after(set, e)) /\ Cardinality(after(set, e)) \in Nat
  <2>1. IsFiniteSet(after(set, e))
    BY <1>1, FS_Subset
  <2> QED
    BY <2>1, FS_CardinalityType
<1>4. ASSUME NEW set \in SUBSET (DOMAIN runs), NEW d \in DOMAIN runs, NEW e \in DOMAIN runs, d <= e
      PROVE  Cardinality(after(set, e)) <= Cardinality(after(set, d))
  <2>1. after(set, e) \in SUBSET after(set, d)
    BY <1>1, <1>4
  <2> QED
    BY <2>1, <1>3, FS_Subset
<1> HIDE DEF card, win, after
<1>5. card \subseteq summary \/ summary \subseteq card
  <2> SUFFICES ASSUME NEW x \in card, x \notin summary, NEW y \in summary, y \notin card PROVE FALSE
    OBVIOUS
  <2>1. x \in win /\ x \in DOMAIN runs /\ x \notin P!SummaryExecutions /\ y \in win /\ y \in DOMAIN runs
    BY <1>1, <1>2 DEF win
  <2>2. /\ Cardinality(after(win, x)) < RECENT_LIMIT /\ ~(Cardinality(after(win, y)) < RECENT_LIMIT)
        /\ ~(Cardinality(after(DOMAIN runs, x)) < RECENT_EXECUTIONS_PER_PROJECT)
        /\ Cardinality(after(DOMAIN runs, y)) < RECENT_EXECUTIONS_PER_PROJECT
    BY <1>2, <2>1
  <2>3. /\ Cardinality(after(win, x)) \in Nat /\ Cardinality(after(win, y)) \in Nat
        /\ Cardinality(after(DOMAIN runs, x)) \in Nat /\ Cardinality(after(DOMAIN runs, y)) \in Nat
    BY <1>1, <1>3
  <2>4. x \in Nat /\ y \in Nat
    BY <1>1, <2>1
  <2>5. CASE x <= y
    <3>1. Cardinality(after(win, y)) <= Cardinality(after(win, x))
      BY <1>1, <1>4, <2>1, <2>5
    <3> QED
      BY <3>1, <2>2, <2>3, BoundsAssumption
  <2>6. CASE y <= x
    <3>1. Cardinality(after(DOMAIN runs, x)) <= Cardinality(after(DOMAIN runs, y))
      BY <1>1, <1>4, <2>1, <2>6
    <3> QED
      BY <3>1, <2>2, <2>3, BoundsAssumption
  <2> QED
    BY <2>4, <2>5, <2>6
<1>6. ASSUME NEW e \in card, NEW s \in P!RESULT_STATUSES
      PROVE  LET counts == P!CountsOfSummary(e) IN
             P!CountsOfCard(e)[s] = IF s \in DOMAIN counts THEN counts[s] ELSE 0
  <2>1. P!CountsOfCard(e)[s] = P!With(P!RowsOf(e), s)
    BY DEF P!CountsOfCard
  <2>2. s \in {rows[r].status : r \in P!RowsOf(e)} =>
          s \in DOMAIN P!CountsOfSummary(e) /\ P!CountsOfSummary(e)[s] = P!With(P!RowsOf(e), s)
    BY DEF P!CountsOfSummary
  <2>3. s \notin {rows[r].status : r \in P!RowsOf(e)} =>
          s \notin DOMAIN P!CountsOfSummary(e) /\ P!With(P!RowsOf(e), s) = 0
    <3> SUFFICES ASSUME s \notin {rows[r].status : r \in P!RowsOf(e)}
                 PROVE  s \notin DOMAIN P!CountsOfSummary(e) /\ P!With(P!RowsOf(e), s) = 0
      OBVIOUS
    <3>1. {r \in P!RowsOf(e) : rows[r].status = s} = {}
      OBVIOUS
    <3> QED
      BY <3>1, FS_EmptySet, SameSizeOfPages DEF P!With, P!CountsOfSummary
  <2> QED
    BY <2>1, <2>2, <2>3
<1>7. P!CountsCard(since).in_range <= P!ExecutionStats[1]
  <2>1. Cardinality(win) <= Cardinality(DOMAIN runs)
    BY <1>1, FS_Subset
  <2>2. Cardinality(1 .. n) = n
    <3>1. 1 \in Int /\ n \in Int
      BY <1>1
    <3>2. Cardinality(1 .. n) = IF 1 > n THEN 0 ELSE n - 1 + 1
      BY <3>1, FS_Interval
    <3> QED
      BY <1>1, <3>2
  <2>3. P!CountsCard(since).in_range = Cardinality(win) /\ P!ExecutionStats[1] = n
    BY SameSizeOfPages DEF P!CountsCard, P!ExecutionStats, win
  <2> QED
    BY <1>1, <2>1, <2>2, <2>3
<1>8. ASSUME card # {} PROVE runs[P!Max(card)].at = P!ExecutionStats[2]
  <2>1. PICK e \in card : TRUE
    BY <1>8
  <2>2. e \in win /\ e \in 1 .. n /\ Cardinality(after(win, e)) < RECENT_LIMIT
    BY <1>1, <1>2, <2>1
  <2>3. n \in DOMAIN runs /\ \A d \in DOMAIN runs : d <= n /\ runs[d].at <= runs[n].at
    <3>1. n \in DOMAIN runs /\ \A d \in DOMAIN runs : d \in Nat /\ d <= n
      BY <1>1, <2>2
    <3>2. ASSUME NEW d \in DOMAIN runs PROVE runs[d].at <= runs[n].at
      <4>1. d < n => runs[d].at < runs[n].at
        BY <3>1 DEF PagesInd
      <4>2. d = n \/ d < n
        BY <1>1, <3>1
      <4> QED
        BY <1>1, <3>1, <4>1, <4>2
    <3> QED
      BY <3>1, <3>2
  <2>4. n \in win
    BY <1>1, <2>2, <2>3
  <2>5. after(win, n) = {}
    BY <1>1, <2>3 DEF after
  <2>6. n \in card
    <3>1. Cardinality(after(win, n)) = 0
      BY <2>5, FS_EmptySet
    <3>2. Cardinality(after(win, e)) \in Nat
      BY <1>1, <1>3
    <3> QED
      BY <1>2, <2>2, <2>4, <3>1, <3>2, BoundsAssumption
  <2>7. P!Max(card) = n
    <3>1. \A d \in card : d \in DOMAIN runs
      BY <1>1, <1>2
    <3>2. \A d \in DOMAIN runs : d \in Int /\ n >= d
      BY <1>1, <2>3
    <3>3. card \in SUBSET Int /\ \A d \in card : n >= d
      BY <3>1, <3>2
    <3> QED
      BY <2>6, <3>3, MaxIs
  <2> DEFINE times == {0} \cup {runs[d].at : d \in DOMAIN runs}
  <2>8. P!Max(times) = runs[n].at
    <3>1. times \in SUBSET Int /\ runs[n].at \in times /\ \A t \in times : runs[n].at >= t
      BY <1>1, <2>3
    <3> HIDE DEF times
    <3> QED
      BY <3>1, MaxIs
  <2> QED
    BY <2>7, <2>8 DEF P!ExecutionStats
<1> QED
  BY <1>5, <1>6, <1>7, <1>8 DEF card

\* Sums over the parts of a set of rows, as the pages have them.
LEMMA RowsAddUp ==
  ASSUME NEW whole, IsFiniteSet(whole), NEW D, NEW pieces \in [D -> SUBSET whole],
         \A x \in whole : \E d \in D : x \in pieces[d],
         \A d, e \in D : \A x \in whole : x \in pieces[d] /\ x \in pieces[e] => d = e,
         NEW numbers, DOMAIN numbers = D, \A d \in D : numbers[d] = Cardinality(pieces[d])
  PROVE  P!Sum(numbers) = Cardinality(whole)
  BY PartsAddUp, SameSizeOfPages DEF P!Sum

LEMMA PassRatesAgree ==
  ASSUME PagesInd PROVE P!PassRateAgrees
<1> SUFFICES ASSUME NEW since \in 0 .. P!now
             PROVE  LET totals == P!Totals(since)
                        series == P!Series(since)
                    IN /\ \A s \in P!RESULT_STATUSES :
                            /\ totals[s] = P!Sum([d \in DOMAIN series |-> series[d][s]])
                            /\ totals[s] = P!Sum([e \in P!Window(since) |-> P!CountsOfCard(e)[s]])
                       /\ totals["failed"] = P!Sum([c \in P!TopFail(since) |-> P!FailCount(since, c)])
                                             + P!FailCount(since, None)
  BY DEF P!PassRateAgrees
<1> DEFINE win == P!Window(since)
           having(s) == {r \in DOMAIN rows : rows[r].run \in win /\ rows[r].status = s}
           days == {P!Day(runs[e].at) : e \in {rows[r].run : r \in DOMAIN rows} \cap win}
           day(r) == P!Day(runs[rows[r].run].at)
<1>1. IsFiniteSet(DOMAIN rows) /\ \A s : having(s) \subseteq DOMAIN rows
  BY PageTables
<1>2. \A s : IsFiniteSet(having(s))
  BY <1>1, FS_Subset
<1>3. ASSUME NEW s \in P!RESULT_STATUSES PROVE P!Totals(since)[s] = Cardinality(having(s))
  <2>1. {r \in UNION {P!RowsOf(e) : e \in win} : rows[r].status = s} = having(s)
    BY DEF P!RowsOf
  <2> QED
    BY <2>1, SameSizeOfPages DEF P!Totals, P!With
<1>4. DOMAIN P!Series(since) = days
  BY DEF P!Series
<1>5. ASSUME NEW s \in P!RESULT_STATUSES
      PROVE  Cardinality(having(s)) = P!Sum([d \in DOMAIN P!Series(since) |-> P!Series(since)[d][s]])
  <2> DEFINE pieces == [d \in days |-> {r \in having(s) : day(r) = d}]
             numbers == [d \in DOMAIN P!Series(since) |-> P!Series(since)[d][s]]
  <2>1. ASSUME NEW d \in days PROVE numbers[d] = Cardinality(pieces[d])
    <3>1. {r \in UNION {P!RowsOf(e) : e \in {x \in win : P!Day(runs[x].at) = d}} : rows[r].status = s}
            = {r \in having(s) : day(r) = d}
      BY DEF P!RowsOf
    <3>2. P!Series(since)[d][s] =
            P!With(UNION {P!RowsOf(e) : e \in {x \in win : P!Day(runs[x].at) = d}}, s)
      BY <1>4 DEF P!Series
    <3> QED
      BY <1>4, <3>1, <3>2, SameSizeOfPages DEF P!With
  <2>2. \A r \in having(s) : day(r) \in days
    OBVIOUS
  <2>3. /\ DOMAIN numbers = days /\ pieces \in [days -> SUBSET having(s)]
        /\ \A r \in having(s) : \E d \in days : r \in pieces[d]
        /\ \A d, e \in days : \A r \in having(s) : r \in pieces[d] /\ r \in pieces[e] => d = e
    BY <1>4, <2>2
  <2> HIDE DEF pieces, numbers, having, days, day
  <2>4. P!Sum(numbers) = Cardinality(having(s))
    BY <1>2, <2>1, <2>3, RowsAddUp
  <2> QED
    BY <2>4 DEF numbers
<1>6. ASSUME NEW s \in P!RESULT_STATUSES
      PROVE  Cardinality(having(s)) = P!Sum([e \in win |-> P!CountsOfCard(e)[s]])
  <2> DEFINE pieces == [e \in win |-> {r \in having(s) : rows[r].run = e}]
             numbers == [e \in win |-> P!CountsOfCard(e)[s]]
  <2>1. ASSUME NEW e \in win PROVE numbers[e] = Cardinality(pieces[e])
    <3>1. {r \in P!RowsOf(e) : rows[r].status = s} = {r \in having(s) : rows[r].run = e}
      BY DEF P!RowsOf
    <3> QED
      BY <3>1, SameSizeOfPages DEF P!With, P!CountsOfCard
  <2>2. /\ DOMAIN numbers = win /\ pieces \in [win -> SUBSET having(s)]
        /\ \A r \in having(s) : \E e \in win : r \in pieces[e]
        /\ \A d, e \in win : \A r \in having(s) : r \in pieces[d] /\ r \in pieces[e] => d = e
    OBVIOUS
  <2> HIDE DEF pieces, numbers, having, win
  <2>3. P!Sum(numbers) = Cardinality(having(s))
    BY <1>2, <2>1, <2>2, RowsAddUp
  <2> QED
    BY <2>3 DEF numbers
<1>7. Cardinality(having("failed")) = P!Sum([c \in P!TopFail(since) |-> P!FailCount(since, c)])
                                      + P!FailCount(since, None)
  <2> DEFINE failing(c) == {r \in having("failed") : rows[r].case = c}
             there == {r \in having("failed") : rows[r].case \in cases}
             top == P!TopFail(since)
             pieces == [c \in top |-> failing(c)]
             numbers == [c \in top |-> P!FailCount(since, c)]
  <2>1. \A c : P!FailCount(since, c) = Cardinality(failing(c)) /\ IsFiniteSet(failing(c))
    <3>1. \A c : {r \in DOMAIN rows : /\ rows[r].case = c /\ rows[r].status = "failed"
                                      /\ rows[r].run \in win} = failing(c)
      OBVIOUS
    <3>2. \A c : failing(c) \in SUBSET having("failed")
      OBVIOUS
    <3> HIDE DEF having, failing
    <3>3. \A c : IsFiniteSet(failing(c))
      BY <1>2, <3>2, FS_Subset
    <3> QED
      BY <3>1, <3>3, SameSizeOfPages DEF P!FailCount
  <2>2. ASSUME NEW r \in there PROVE rows[r].case \in top
    <3>1. r \in failing(rows[r].case) /\ rows[r].case \in cases
      OBVIOUS
    <3> HIDE DEF failing, there, having
    <3>2. /\ Cardinality(failing(rows[r].case)) \in Nat
          /\ Cardinality(failing(rows[r].case)) # 0
      BY <2>1, <3>1, FS_CardinalityType, FS_EmptySet
    <3>3. P!FailCount(since, rows[r].case) > 0
      BY <2>1, <3>2
    <3> QED
      BY <3>1, <3>3 DEF P!TopFail
  <2>3. top \subseteq cases
    BY DEF P!TopFail
  <2>4. /\ DOMAIN numbers = top /\ pieces \in [top -> SUBSET there]
        /\ \A r \in there : \E c \in top : r \in pieces[c]
        /\ \A c, d \in top : \A r \in there : r \in pieces[c] /\ r \in pieces[d] => c = d
        /\ \A c \in top : numbers[c] = Cardinality(pieces[c])
    <3> HIDE DEF top
    <3> QED
      BY <2>1, <2>2, <2>3
  <2>5. IsFiniteSet(there)
    <3>1. there \in SUBSET having("failed")
      OBVIOUS
    <3> HIDE DEF there, having
    <3> QED
      BY <1>2, <3>1, FS_Subset
  <2>6. P!Sum(numbers) = Cardinality(there)
    <3> HIDE DEF pieces, numbers, there, top
    <3> QED
      BY <2>4, <2>5, RowsAddUp
  <2>7. having("failed") = there \cup failing(None) /\ there \cap failing(None) = {}
    <3>1. \A r \in DOMAIN rows : rows[r].case \in cases \cup {None}
      BY DEF PagesInd
    <3>2. None \notin cases
      BY ThingsAssumption DEF PagesInd
    <3> QED
      BY <3>1, <3>2
  <2> HIDE DEF there, failing, having, numbers
  <2>8. /\ Cardinality(there \cup failing(None)) =
             Cardinality(there) + Cardinality(failing(None)) - Cardinality(there \cap failing(None))
        /\ Cardinality(there) \in Nat /\ Cardinality(failing(None)) \in Nat
    BY <2>1, <2>5, FS_Union, FS_CardinalityType
  <2>9. Cardinality(there \cap failing(None)) = 0
    BY <2>7, FS_EmptySet
  <2>10. Cardinality(having("failed")) = Cardinality(there) + Cardinality(failing(None))
    <3>1. Cardinality(having("failed")) = Cardinality(there \cup failing(None))
      BY <2>7
    <3> QED
      BY <3>1, <2>8, <2>9
  <2>11. P!FailCount(since, None) = Cardinality(failing(None))
    BY <2>1
  <2> QED
    BY <2>6, <2>10, <2>11 DEF numbers
<1>8. "failed" \in P!RESULT_STATUSES
  BY DEF P!RESULT_STATUSES
<1> HIDE DEF having
<1> QED
  BY <1>3, <1>5, <1>6, <1>7, <1>8

\* A stamp is a time that has been.
LEMMA Stamped ==
  ASSUME PagesInd, NEW r \in DOMAIN rows
  PROVE  P!Stamp(r) \in Nat /\ P!Stamp(r) <= requests /\ runs[rows[r].run].at <= P!Stamp(r)
<1>1. /\ rows[r].run \in DOMAIN runs /\ runs[rows[r].run].at \in 1 .. requests
      /\ rows[r].at # 0 => rows[r].at \in runs[rows[r].run].at .. requests
      /\ requests \in Nat
  BY DEF PagesInd
<1>2. CASE rows[r].at # 0
  BY <1>1, <1>2 DEF P!Stamp
<1>3. CASE rows[r].at = 0
  BY <1>1, <1>3 DEF P!Stamp
<1> QED
  BY <1>2, <1>3

\* A cell is a row with the newest stamp, if there is a row.
LEMMA CellFound ==
  ASSUME PagesInd, NEW c, NEW v
  PROVE  /\ P!Ran(c, v) = {} => P!Cell(c, v) = 0
         /\ P!Ran(c, v) # {} => /\ P!Cell(c, v) \in P!Ran(c, v) /\ P!Cell(c, v) # 0
                                /\ \A q \in P!Ran(c, v) : P!Stamp(q) <= P!Stamp(P!Cell(c, v))
<1>1. P!Ran(c, v) = {} => P!Cell(c, v) = 0
  BY DEF P!Cell
<1>2. ASSUME P!Ran(c, v) # {}
      PROVE  /\ P!Cell(c, v) \in P!Ran(c, v) /\ P!Cell(c, v) # 0
             /\ \A q \in P!Ran(c, v) : P!Stamp(q) <= P!Stamp(P!Cell(c, v))
  <2> DEFINE of == P!Ran(c, v)
             stamps == {P!Stamp(r) : r \in of}
             newest == {r \in of : \A q \in of : P!Stamp(q) <= P!Stamp(r)}
  <2>1. of \subseteq DOMAIN rows
    BY DEF P!Ran
  <2>2. \A r \in DOMAIN rows : r \in Nat \ {0}
    BY PageTables
  <2>3. stamps \in SUBSET Nat /\ stamps # {} /\ \A t \in stamps : t <= requests
    BY <1>2, <2>1, Stamped
  <2>4. requests \in Nat
    BY DEF PagesInd
  <2>5. PICK m \in stamps : \A t \in stamps : m >= t
    BY <2>3, <2>4, GreatestOfBounded
  <2>6. PICK r \in of : m = P!Stamp(r)
    BY <2>5
  <2>7. \A q \in of : P!Stamp(q) \in stamps /\ P!Stamp(q) \in Nat
    BY <2>3
  <2>8. r \in newest
    BY <2>5, <2>6, <2>7
  <2>9. newest \in SUBSET Nat /\ newest # {}
    BY <2>1, <2>2, <2>8
  <2>10. P!Min(newest) \in newest
    BY <2>9, MinFound
  <2>11. P!Cell(c, v) = P!Min(newest)
    BY <1>2 DEF P!Cell
  <2> QED
    BY <2>1, <2>2, <2>10, <2>11
<1> QED
  BY <1>1, <1>2

\* The rows of a case that ran under a version.
LEMMA RanUnder ==
  ASSUME PagesInd, NEW c, NEW v
  PROVE  P!Ran(c, v) = {r \in DOMAIN rows : /\ rows[r].case = c /\ rows[r].status # "not_run"
                                            /\ rows[r].run \in P!RunsOf(v)}
  BY DEF P!Ran, P!RunsOf, PagesInd

LEMMA LastRunFound ==
  ASSUME PagesInd, NEW v
  PROVE  /\ P!LastRun(v) \in Nat
         /\ P!RunsOf(v) # {} => P!LastRun(v) \in P!RunsOf(v)
<1>1. Len(runs) \in Nat /\ DOMAIN runs = 1 .. Len(runs)
  BY PageTables
<1>2. P!RunsOf(v) \in SUBSET Nat /\ \A e \in P!RunsOf(v) : e <= Len(runs)
  BY <1>1 DEF P!RunsOf
<1>3. ASSUME P!RunsOf(v) # {} PROVE P!Max(P!RunsOf(v)) \in P!RunsOf(v)
  <2>1. \E m \in P!RunsOf(v) : \A k \in P!RunsOf(v) : m >= k
    BY <1>1, <1>2, <1>3, GreatestOfBounded
  <2> QED
    BY <2>1 DEF P!Max
<1> QED
  BY <1>2, <1>3 DEF P!LastRun

LEMMA MatrixAgrees ==
  ASSUME PagesInd PROVE P!CoverageIsLatest
<1> SUFFICES ASSUME NEW c \in cases, NEW v \in Things
             PROVE  LET cell == P!Cell(c, v)
                        of == {r \in DOMAIN rows : rows[r].case = c /\ rows[r].status # "not_run"
                                                   /\ rows[r].run \in P!RunsOf(v)}
                    IN /\ cell = 0 <=> of = {}
                       /\ \A r \in of : P!Stamp(r) <= P!Stamp(cell)
                       /\ (/\ \E r \in of : rows[r].run = P!LastRun(v)
                           /\ \A r \in of : rows[r].run # P!LastRun(v)
                                              => P!Stamp(r) < runs[P!LastRun(v)].at)
                          => rows[cell].run = P!LastRun(v)
  BY DEF P!CoverageIsLatest
<1> DEFINE cell == P!Cell(c, v)
           of == P!Ran(c, v)
<1>1. of = {r \in DOMAIN rows : rows[r].case = c /\ rows[r].status # "not_run"
                                /\ rows[r].run \in P!RunsOf(v)}
  BY RanUnder
<1>2. /\ of = {} => cell = 0
      /\ of # {} => cell \in of /\ cell # 0 /\ \A q \in of : P!Stamp(q) <= P!Stamp(cell)
  BY CellFound
<1>3. ASSUME NEW r \in of, rows[r].run = P!LastRun(v),
             \A q \in of : rows[q].run # P!LastRun(v) => P!Stamp(q) < runs[P!LastRun(v)].at
      PROVE  rows[cell].run = P!LastRun(v)
  <2> SUFFICES ASSUME rows[cell].run # P!LastRun(v) PROVE FALSE
    OBVIOUS
  <2>1. cell \in of /\ P!Stamp(r) <= P!Stamp(cell)
    BY <1>2
  <2>2. P!Stamp(cell) < runs[P!LastRun(v)].at
    BY <1>3, <2>1
  <2>3. r \in DOMAIN rows /\ cell \in DOMAIN rows
    BY <2>1 DEF P!Ran
  <2>4. /\ P!Stamp(r) \in Nat /\ P!Stamp(cell) \in Nat /\ runs[P!LastRun(v)].at <= P!Stamp(r)
    BY <1>3, <2>3, Stamped
  <2>5. runs[P!LastRun(v)].at \in Nat
    BY <1>3, <2>3 DEF PagesInd
  <2> QED
    BY <2>1, <2>2, <2>4, <2>5
<1> HIDE DEF cell, of
<1>4. /\ cell = 0 <=> of = {}
      /\ \A r \in of : P!Stamp(r) <= P!Stamp(cell)
      /\ (/\ \E r \in of : rows[r].run = P!LastRun(v)
          /\ \A r \in of : rows[r].run # P!LastRun(v) => P!Stamp(r) < runs[P!LastRun(v)].at)
         => rows[cell].run = P!LastRun(v)
  BY <1>2, <1>3
<1> QED
  BY <1>1, <1>4 DEF cell

\* A finite set can be listed by a number of its members, the greatest first.
LEMMA SortedFound ==
  ASSUME NEW set, IsFiniteSet(set), NEW key \in [set -> Nat]
  PROVE  \E card \in P!SetToSeqs(set) :
           \A i, j \in DOMAIN card : i < j => key[card[i]] >= key[card[j]]
<1> DEFINE Sorts(f, some) ==
             /\ f \in [1 .. Cardinality(some) -> some]
             /\ \A i, j \in 1 .. Cardinality(some) : i # j => f[i] # f[j]
             /\ \A i, j \in 1 .. Cardinality(some) : i < j => key[f[i]] >= key[f[j]]
           unsorted == {some \in SUBSET set : \A f : ~Sorts(f, some)}
           sizes == {Cardinality(some) : some \in unsorted}
<1>1. \A some \in SUBSET set : IsFiniteSet(some) /\ Cardinality(some) \in Nat
  BY FS_Subset, FS_CardinalityType
<1>2. unsorted = {}
  <2> SUFFICES ASSUME unsorted # {} PROVE FALSE
    OBVIOUS
  <2>1. sizes \in SUBSET Nat /\ sizes # {}
    BY <1>1
  <2>2. PICK m \in sizes : \A k \in sizes : m <= k
    BY <2>1, LeastOfSome
  <2>3. PICK some \in unsorted : Cardinality(some) = m
    BY <2>2
  <2>4. some \in SUBSET set /\ IsFiniteSet(some) /\ m \in Nat
    BY <1>1, <2>1, <2>3
  <2>5. some # {}
    <3> SUFFICES ASSUME some = {} PROVE FALSE
      OBVIOUS
    <3>1. Cardinality(some) = 0 /\ 1 .. 0 = {}
      BY FS_EmptySet
    <3>2. Sorts([i \in {} |-> i], some)
      BY <3>1
    <3> QED
      BY <2>3, <3>2
  <2> DEFINE keys == {key[y] : y \in some}
  <2>6. keys \in SUBSET Nat /\ keys # {}
    BY <2>4, <2>5
  <2>7. PICK k \in keys : \A l \in keys : k <= l
    BY <2>6, LeastOfSome
  <2>8. PICK x \in some : k = key[x]
    BY <2>7
  <2>9. \A y \in some : key[y] >= key[x] /\ key[y] \in Nat
    BY <2>4, <2>6, <2>7, <2>8
  <2> DEFINE rest == some \ {x}
  <2>10. IsFiniteSet(rest) /\ Cardinality(rest) = m - 1 /\ rest \in SUBSET set
    BY <2>3, <2>4, <2>8, FS_RemoveElement
  <2>11. rest \notin unsorted
    <3> SUFFICES ASSUME rest \in unsorted PROVE FALSE
      OBVIOUS
    <3>1. m - 1 \in sizes
      BY <2>10
    <3> QED
      BY <2>2, <2>4, <3>1
  <2>12. PICK f : Sorts(f, rest)
    BY <2>10, <2>11
  <2> DEFINE g == [i \in 1 .. m |-> IF i = m THEN x ELSE f[i]]
  <2> HIDE DEF unsorted, sizes, keys
  <2>13. \A i \in 1 .. m : i # m => i \in 1 .. m - 1 /\ g[i] = f[i] /\ f[i] \in rest
    <3>1. \A i \in 1 .. m : i # m => i \in 1 .. m - 1
      BY <2>4
    <3>2. f \in [1 .. m - 1 -> rest]
      BY <2>10, <2>12
    <3> QED
      BY <3>1, <3>2
  <2>14. \A i \in 1 .. m : i = m => g[i] = x
    OBVIOUS
  <2>15. \A i \in 1 .. m : g[i] \in some
    BY <2>13, <2>14
  <2>16. g \in [1 .. m -> some]
    BY <2>15
  <2> HIDE DEF g
  <2>17. \A i, j \in 1 .. m : i # j => g[i] # g[j]
    BY <2>10, <2>12, <2>13, <2>14
  <2>18. \A i, j \in 1 .. m : i < j => key[g[i]] >= key[g[j]]
    <3> SUFFICES ASSUME NEW i \in 1 .. m, NEW j \in 1 .. m, i < j PROVE key[g[i]] >= key[g[j]]
      OBVIOUS
    <3>1. i # m
      BY <2>4
    <3>2. CASE j = m
      BY <3>1, <3>2, <2>9, <2>13, <2>14
    <3>3. CASE j # m
      BY <3>1, <3>3, <2>10, <2>12, <2>13
    <3> QED
      BY <3>2, <3>3
  <2>19. Sorts(g, some)
    BY <2>3, <2>16, <2>17, <2>18
  <2> QED
    BY <2>3, <2>19 DEF unsorted
<1>3. PICK f : Sorts(f, set)
  BY <1>2
<1>4. f \in P!SetToSeqs(set) /\ DOMAIN f = 1 .. Cardinality(set)
  BY <1>3, SameSizeOfPages DEF P!SetToSeqs
<1> QED
  BY <1>3, <1>4

LEMMA VersionPagesAgree ==
  ASSUME PagesInd PROVE P!VersionsAgree
<1> DEFINE card == P!VersionsCard
           shown == Things \ archived
           key == [v \in shown |-> P!LastRun(v)]
<1>1. IsFiniteSet(shown) /\ key \in [shown -> Nat]
  BY ThingsAssumption, FS_Subset, LastRunFound
<1>2. \E order \in P!SetToSeqs(shown) :
        \A i, j \in DOMAIN order : i < j => key[order[i]] >= key[order[j]]
  BY <1>1, SortedFound
<1>3. \A order \in P!SetToSeqs(shown) : \A i \in DOMAIN order : order[i] \in shown
  BY DEF P!SetToSeqs
<1>4. \E order \in P!SetToSeqs(shown) :
        \A i, j \in DOMAIN order : i < j => P!LastRun(order[i]) >= P!LastRun(order[j])
  BY <1>2, <1>3
<1>5. /\ \A i \in DOMAIN card : card[i] \in shown
      /\ \A i, j \in DOMAIN card : i < j => P!LastRun(card[i]) >= P!LastRun(card[j])
  BY <1>3, <1>4 DEF P!VersionsCard
<1>6. DOMAIN card \subseteq Nat
  <2>1. card \in P!SetToSeqs(shown)
    BY <1>4 DEF P!VersionsCard
  <2>2. \A order \in P!SetToSeqs(shown) : DOMAIN order = 1 .. P!Cardinality(shown)
    BY DEF P!SetToSeqs
  <2>3. DOMAIN card = 1 .. P!Cardinality(shown)
    BY <2>1, <2>2
  <2>4. Cardinality(shown) \in Nat
    BY <1>1, FS_CardinalityType
  <2> QED
    BY <2>3, <2>4, SameSizeOfPages
<1> SUFFICES ASSUME NEW i \in DOMAIN card
             PROVE  LET v == card[i]
                        ended == {r \in DOMAIN rows : rows[r].run \in P!RunsOf(v)
                                                      /\ rows[r].status \in {"passed", "failed"}}
                    IN /\ P!PassRate(v)[2] = Cardinality(ended)
                       /\ {rows[r].case : r \in ended} \subseteq {c \in cases : P!Cell(c, v) # 0} \cup {None}
                       /\ P!LastRun(v) = 0 => \A j \in DOMAIN card : j > i => P!LastRun(card[j]) = 0
  BY SameSizeOfPages DEF P!VersionsAgree
<1> HIDE DEF card
<1> DEFINE v == card[i]
           having(s) == {r \in DOMAIN rows : rows[r].run \in P!RunsOf(v) /\ rows[r].status = s}
           ended == {r \in DOMAIN rows : rows[r].run \in P!RunsOf(v)
                                         /\ rows[r].status \in {"passed", "failed"}}
<1>7. P!PassRate(v)[2] = Cardinality(ended)
  <2>1. \A s : {r \in UNION {P!RowsOf(e) : e \in P!RunsOf(v)} : rows[r].status = s} = having(s)
    BY DEF P!RowsOf
  <2>2. P!PassRate(v)[2] = Cardinality(having("passed")) + Cardinality(having("failed"))
    BY <2>1, SameSizeOfPages DEF P!PassRate, P!With
  <2>3. ended = having("passed") \cup having("failed") /\ having("passed") \cap having("failed") = {}
    OBVIOUS
  <2>4. \A s : having(s) \in SUBSET (DOMAIN rows)
    OBVIOUS
  <2> HIDE DEF having, ended
  <2>5. \A s : IsFiniteSet(having(s)) /\ Cardinality(having(s)) \in Nat
    BY <2>4, PageTables, FS_Subset, FS_CardinalityType
  <2>6. Cardinality(having("passed") \cup having("failed")) =
          Cardinality(having("passed")) + Cardinality(having("failed"))
            - Cardinality(having("passed") \cap having("failed"))
    BY <2>5, FS_Union
  <2>7. Cardinality(having("passed") \cap having("failed")) = 0
    BY <2>3, FS_EmptySet
  <2>8. Cardinality(ended) = Cardinality(having("passed")) + Cardinality(having("failed"))
    BY <2>3, <2>5, <2>6, <2>7
  <2> QED
    BY <2>2, <2>8
<1>8. ASSUME NEW r \in ended PROVE rows[r].case \in {c \in cases : P!Cell(c, v) # 0} \cup {None}
  <2>1. rows[r].case \in cases \cup {None}
    BY DEF PagesInd
  <2>2. r \in P!Ran(rows[r].case, v)
    BY RanUnder
  <2>3. P!Cell(rows[r].case, v) # 0
    BY <2>2, CellFound
  <2> QED
    BY <2>1, <2>3
<1>9. ASSUME P!LastRun(v) = 0, NEW j \in DOMAIN card, j > i PROVE P!LastRun(card[j]) = 0
  <2>1. P!LastRun(v) >= P!LastRun(card[j])
    BY <1>5, <1>6, <1>9
  <2>2. P!LastRun(card[j]) \in Nat
    BY LastRunFound
  <2> QED
    BY <1>9, <2>1, <2>2
<1> QED
  BY <1>7, <1>8, <1>9

-----------------------------------------------------------------------------
(* What changes the tables of a project. *)

\* A step that changes executions or rows where they are: their versions, statuses, cases and
\* stamps, the latter to the time of the step.
LEMMA TablesChanged ==
  ASSUME PagesInd, requests' \in 0 .. PageRequests, requests' >= requests,
         cases' \subseteq cases, archived' \subseteq Things,
         DOMAIN runs' = DOMAIN runs, runs' = [e \in DOMAIN runs |-> runs'[e]],
         \A e \in DOMAIN runs : runs'[e] \in RunRows /\ runs'[e].at = runs[e].at,
         DOMAIN rows' = DOMAIN rows, rows' = [r \in DOMAIN rows |-> rows'[r]],
         \A r \in DOMAIN rows :
           /\ rows'[r] \in PageRows /\ rows'[r].run = rows[r].run
           /\ rows'[r].case \in cases' \cup {None}
           /\ rows'[r].at \in {rows[r].at, requests'}
  PROVE  PagesInd'
<1>1. runs' \in Seq(RunRows) /\ rows' \in Seq(PageRows)
  BY RowsChanged DEF PagesInd
<1>2. /\ requests \in Nat /\ requests' \in Nat
      /\ \A e \in DOMAIN runs : runs[e].at \in 1 .. requests
  BY BoundsAssumption DEF PagesInd
<1>3. \A e \in DOMAIN runs' : runs'[e].at \in 1 .. requests'
  BY <1>2
<1>4. \A d, e \in DOMAIN runs' : d < e => runs'[d].at < runs'[e].at
  BY DEF PagesInd
<1>5. ASSUME NEW r \in DOMAIN rows'
      PROVE  /\ rows'[r].run \in DOMAIN runs' /\ rows'[r].case \in cases' \cup {None}
             /\ rows'[r].at # 0 => rows'[r].at \in runs'[rows'[r].run].at .. requests'
  <2>1. /\ r \in DOMAIN rows /\ rows[r].run \in DOMAIN runs /\ rows'[r].run = rows[r].run
        /\ rows[r].at # 0 => rows[r].at \in runs[rows[r].run].at .. requests
    BY DEF PagesInd
  <2>2. runs'[rows'[r].run].at = runs[rows[r].run].at /\ runs[rows[r].run].at \in 1 .. requests
    BY <2>1, <1>2
  <2>3. CASE rows'[r].at = rows[r].at
    BY <1>2, <2>1, <2>2, <2>3
  <2>4. CASE rows'[r].at = requests'
    BY <1>2, <2>1, <2>2, <2>4
  <2> QED
    BY <2>1, <2>3, <2>4
<1>6. cases' \subseteq Things
  BY DEF PagesInd
<1> QED
  BY <1>1, <1>3, <1>4, <1>5, <1>6 DEF PagesInd

\* What a request does to the clock.
LEMMA ClockOfPages ==
  ASSUME PagesInd, P!Serve
  PROVE  /\ requests' \in 0 .. PageRequests /\ requests' >= requests /\ requests \in Nat
         /\ requests' = requests + 1 /\ P!now = requests'
  BY BoundsAssumption DEF PagesInd, P!Serve, P!now

\* Tables that stay as they are satisfy what TablesChanged asks of them.
LEMMA RunsStay ==
  ASSUME PagesInd, UNCHANGED runs
  PROVE  /\ DOMAIN runs' = DOMAIN runs /\ runs' = [e \in DOMAIN runs |-> runs'[e]]
         /\ \A e \in DOMAIN runs : runs'[e] \in RunRows /\ runs'[e].at = runs[e].at
<1>1. runs \in Seq(RunRows)
  BY DEF PagesInd
<1> QED
  BY <1>1, PageTables

LEMMA RowsStay ==
  ASSUME PagesInd, UNCHANGED <<rows, cases>>
  PROVE  /\ DOMAIN rows' = DOMAIN rows /\ rows' = [r \in DOMAIN rows |-> rows'[r]]
         /\ \A r \in DOMAIN rows :
              /\ rows'[r] \in PageRows /\ rows'[r].run = rows[r].run
              /\ rows'[r].case \in cases' \cup {None}
              /\ rows'[r].at \in {rows[r].at, requests'}
<1>1. rows \in Seq(PageRows) /\ \A r \in DOMAIN rows : rows[r].case \in cases \cup {None}
  BY DEF PagesInd
<1> QED
  BY <1>1, PageTables

\* create_execution
LEMMA CreateRunKeeps ==
  ASSUME PagesInd, NEW version \in Things \cup {None}, NEW chosen \in SUBSET cases,
         P!CreateRun(version, chosen)
  PROVE  PagesInd'
<1> DEFINE n == Len(runs) + 1
           x == [version |-> version, status |-> "pending", at |-> requests']
           list == I!SetToSeq(chosen)
           fresh == [i \in 1 .. Cardinality(chosen) |->
                       [run |-> n, case |-> list[i], status |-> "not_run", at |-> 0]]
<1>1. /\ requests' \in 0 .. PageRequests /\ requests' >= requests /\ requests \in Nat
      /\ requests' = requests + 1 /\ P!now = requests'
  BY ClockOfPages DEF P!CreateRun
<1>2. /\ runs' = Append(runs, x) /\ rows' = rows \o fresh /\ UNCHANGED <<cases, archived>>
  BY <1>1, SameListOfPages, SameSizeOfPages DEF P!CreateRun
<1>3. chosen \subseteq Things /\ IsFiniteSet(chosen)
  BY ThingsAssumption, FS_Subset DEF PagesInd
<1>4. /\ list \in Seq(chosen) /\ Cardinality(chosen) \in Nat /\ DOMAIN list = 1 .. Cardinality(chosen)
  BY <1>3, ListedOnce
<1>5. /\ Len(runs) \in Nat /\ DOMAIN runs = 1 .. Len(runs) /\ DOMAIN rows = 1 .. Len(rows)
      /\ Len(rows) \in Nat /\ runs \in Seq(RunRows) /\ rows \in Seq(PageRows)
  BY PageTables DEF PagesInd
<1>6. /\ DOMAIN fresh = 1 .. Cardinality(chosen)
      /\ \A i \in DOMAIN fresh :
           /\ fresh[i] \in PageRows /\ fresh[i].run = n /\ fresh[i].case \in cases /\ fresh[i].at = 0
  <2>1. \A i \in 1 .. Cardinality(chosen) : list[i] \in chosen
    BY <1>4
  <2>2. \A i \in 1 .. Cardinality(chosen) :
          fresh[i] = [run |-> n, case |-> list[i], status |-> "not_run", at |-> 0]
    OBVIOUS
  <2> HIDE DEF list, fresh
  <2>3. DOMAIN fresh = 1 .. Cardinality(chosen)
    BY DEF fresh
  <2>4. n \in Nat /\ \A i \in 1 .. Cardinality(chosen) : list[i] \in Things /\ list[i] \in cases
    BY <1>3, <1>5, <2>1
  <2> HIDE DEF n
  <2>5. \A i \in 1 .. Cardinality(chosen) :
          [run |-> n, case |-> list[i], status |-> "not_run", at |-> 0] \in PageRows
    BY <2>4 DEF PageRows
  <2> QED
    BY <2>2, <2>3, <2>4, <2>5
<1>7. fresh \in Seq(PageRows)
  <2>1. fresh \in [1 .. Cardinality(chosen) -> PageRows]
    BY <1>6
  <2>2. Cardinality(chosen) \in Nat
    BY <1>4
  <2> HIDE DEF fresh
  <2> QED
    BY <2>1, <2>2
<1>8. x \in RunRows /\ x.at = requests'
  BY <1>1 DEF RunRows
<1> HIDE DEF x, fresh, list
<1>9. /\ runs' \in Seq(RunRows) /\ DOMAIN runs' = DOMAIN runs \cup {n}
      /\ \A e \in DOMAIN runs : runs'[e] = runs[e]
      /\ runs'[n] = x
  BY <1>2, <1>5, <1>8
<1>10. /\ rows' \in Seq(PageRows) /\ DOMAIN rows \subseteq DOMAIN rows'
       /\ \A r \in DOMAIN rows : rows'[r] = rows[r]
       /\ \A r \in DOMAIN rows' \ DOMAIN rows :
            rows'[r].run = n /\ rows'[r].case \in cases /\ rows'[r].at = 0
  <2> DEFINE all == rows \o fresh
  <2>1. /\ all \in Seq(PageRows) /\ DOMAIN rows \subseteq DOMAIN all
        /\ \A r \in DOMAIN rows : all[r] = rows[r]
        /\ \A r \in DOMAIN all \ DOMAIN rows :
             r - Len(rows) \in DOMAIN fresh /\ all[r] = fresh[r - Len(rows)]
    BY <1>5, <1>7, RowsAppended
  <2>2. rows' = all
    BY <1>2
  <2> HIDE DEF all
  <2> QED
    BY <2>1, <2>2, <1>6
<1>11. /\ \A e \in DOMAIN runs : runs[e].at \in 1 .. requests
       /\ \A d, e \in DOMAIN runs : d < e => runs[d].at < runs[e].at
  BY DEF PagesInd
<1>12. \A e \in DOMAIN runs' : runs'[e].at \in 1 .. requests'
  BY <1>1, <1>8, <1>9, <1>11
<1>13. ASSUME NEW d \in DOMAIN runs', NEW e \in DOMAIN runs', d < e
       PROVE  runs'[d].at < runs'[e].at
  <2>1. d \in DOMAIN runs
    BY <1>5, <1>9, <1>13
  <2>2. CASE e \in DOMAIN runs
    BY <1>9, <1>11, <1>13, <2>1, <2>2
  <2>3. CASE e = n
    BY <1>1, <1>8, <1>9, <1>11, <2>1, <2>3
  <2> QED
    BY <1>9, <2>2, <2>3
<1>14. ASSUME NEW r \in DOMAIN rows'
       PROVE  /\ rows'[r].run \in DOMAIN runs' /\ rows'[r].case \in cases \cup {None}
              /\ rows'[r].at # 0 => rows'[r].at \in runs'[rows'[r].run].at .. requests'
  <2>1. CASE r \in DOMAIN rows
    <3>1. /\ rows[r].run \in DOMAIN runs /\ rows[r].case \in cases \cup {None}
          /\ rows[r].at # 0 => rows[r].at \in runs[rows[r].run].at .. requests
      BY <2>1 DEF PagesInd
    <3>2. rows'[r] = rows[r] /\ runs'[rows[r].run] = runs[rows[r].run]
          /\ runs[rows[r].run].at \in 1 .. requests
      BY <2>1, <3>1, <1>9, <1>10, <1>11
    <3>3. rows[r].at # 0 => rows[r].at \in runs[rows[r].run].at .. requests'
      BY <1>1, <3>1, <3>2
    <3> QED
      BY <1>9, <3>1, <3>2, <3>3
  <2>2. CASE r \notin DOMAIN rows
    BY <2>2, <1>9, <1>10
  <2> QED
    BY <2>1, <2>2
<1> QED
  BY <1>1, <1>2, <1>9, <1>10, <1>12, <1>13, <1>14 DEF PagesInd

\* update_result
LEMMA SetResultKeeps ==
  ASSUME PagesInd, NEW r \in DOMAIN rows, NEW s \in {"running", "passed", "failed"},
         NEW when \in {0, P!now}, P!SetResult(r, s, when)
  PROVE  PagesInd'
<1>1. /\ requests' \in 0 .. PageRequests /\ requests' >= requests /\ requests \in Nat
      /\ requests' = requests + 1 /\ P!now = requests'
  BY ClockOfPages DEF P!SetResult
<1>2. /\ rows' = [rows EXCEPT ![r].status = s, ![r].at = IF when = 0 THEN @ ELSE when]
      /\ UNCHANGED <<cases, runs, archived>>
  BY DEF P!SetResult
<1>3. \A q \in DOMAIN rows : rows[q] \in PageRows /\ rows[q].case \in cases \cup {None}
  BY PageTables DEF PagesInd
<1>4. DOMAIN rows' = DOMAIN rows /\ rows' = [q \in DOMAIN rows |-> rows'[q]]
  BY <1>2
<1>5. ASSUME NEW q \in DOMAIN rows
      PROVE  /\ rows'[q] \in PageRows /\ rows'[q].run = rows[q].run
             /\ rows'[q].case = rows[q].case /\ rows'[q].at \in {rows[q].at, requests'}
  <2>1. CASE q # r
    BY <1>2, <1>3, <2>1
  <2>2. CASE q = r
    <3>1. rows'[r] = [rows[r] EXCEPT !.status = s, !.at = IF when = 0 THEN @ ELSE when]
      BY <1>2
    <3>2. rows[r] \in PageRows
      BY <1>3
    <3>3. /\ rows'[r].run = rows[r].run /\ rows'[r].case = rows[r].case /\ rows'[r].status = s
          /\ rows'[r].at = IF when = 0 THEN rows[r].at ELSE when
      BY <3>1, <3>2 DEF PageRows
    <3>4. rows'[r].at \in {rows[r].at, requests'}
      BY <1>1, <3>3
    <3>5. rows'[r] \in PageRows
      <4> DEFINE stamp == IF when = 0 THEN rows[r].at ELSE when
      <4>1. stamp \in Nat
        BY <1>1, <3>2 DEF PageRows
      <4>2. rows'[r] = [[rows[r] EXCEPT !.status = s] EXCEPT !.at = stamp]
        BY <3>1
      <4> HIDE DEF stamp
      <4> QED
        BY <4>1, <4>2, <3>2 DEF PageRows
    <3> QED
      BY <2>2, <3>3, <3>4, <3>5
  <2> QED
    BY <2>1, <2>2
<1>6. archived' \subseteq Things /\ cases' \subseteq cases
  BY <1>2 DEF PagesInd
<1> QED
  BY <1>1, <1>2, <1>3, <1>4, <1>5, <1>6, RunsStay, TablesChanged

\* update_execution
LEMMA CompleteRunKeeps ==
  ASSUME PagesInd, NEW e \in DOMAIN runs, P!Complete(e)
  PROVE  PagesInd'
<1>1. requests' \in 0 .. PageRequests /\ requests' >= requests
  BY ClockOfPages DEF P!Complete
<1>2. /\ runs' = [runs EXCEPT ![e].status = "completed"]
      /\ rows' = [r \in DOMAIN rows |->
                    IF rows[r].run = e /\ rows[r].status = "running"
                    THEN [rows[r] EXCEPT !.status = "blocked"] ELSE rows[r]]
      /\ UNCHANGED <<cases, archived>>
  BY DEF P!Complete
<1>3. /\ \A r \in DOMAIN rows : rows[r] \in PageRows /\ rows[r].case \in cases \cup {None}
      /\ \A d \in DOMAIN runs : runs[d] \in RunRows
  BY PageTables DEF PagesInd
<1>4. /\ DOMAIN rows' = DOMAIN rows /\ rows' = [r \in DOMAIN rows |-> rows'[r]]
      /\ DOMAIN runs' = DOMAIN runs /\ runs' = [d \in DOMAIN runs |-> runs'[d]]
  BY <1>2
<1>5. ASSUME NEW r \in DOMAIN rows
      PROVE  /\ rows'[r] \in PageRows /\ rows'[r].run = rows[r].run
             /\ rows'[r].case = rows[r].case /\ rows'[r].at = rows[r].at
  <2>1. rows'[r] = rows[r] \/ rows'[r] = [rows[r] EXCEPT !.status = "blocked"]
    BY <1>2
  <2>2. rows[r] \in PageRows
    BY <1>3
  <2> QED
    BY <2>1, <2>2 DEF PageRows
<1>6. ASSUME NEW d \in DOMAIN runs PROVE runs'[d] \in RunRows /\ runs'[d].at = runs[d].at
  <2>1. runs'[d] = runs[d] \/ runs'[d] = [runs[d] EXCEPT !.status = "completed"]
    BY <1>2
  <2>2. runs[d] \in RunRows
    BY <1>3
  <2> QED
    BY <2>1, <2>2 DEF RunRows
<1>7. archived' \subseteq Things /\ cases' \subseteq cases
  BY <1>2 DEF PagesInd
<1> QED
  BY <1>1, <1>2, <1>3, <1>4, <1>5, <1>6, <1>7, TablesChanged

\* delete_case
LEMMA DeleteCaseKeeps ==
  ASSUME PagesInd, NEW c \in cases, P!DeleteCase(c)
  PROVE  PagesInd'
<1>1. requests' \in 0 .. PageRequests /\ requests' >= requests
  BY ClockOfPages DEF P!DeleteCase
<1>2. /\ cases' = cases \ {c}
      /\ rows' = [r \in DOMAIN rows |->
                    IF rows[r].case = c THEN [rows[r] EXCEPT !.case = None] ELSE rows[r]]
      /\ UNCHANGED <<runs, archived>>
  BY DEF P!DeleteCase
<1>3. \A r \in DOMAIN rows : rows[r] \in PageRows /\ rows[r].case \in cases \cup {None}
  BY PageTables DEF PagesInd
<1>4. DOMAIN rows' = DOMAIN rows /\ rows' = [r \in DOMAIN rows |-> rows'[r]]
  BY <1>2
<1>5. ASSUME NEW r \in DOMAIN rows
      PROVE  /\ rows'[r] \in PageRows /\ rows'[r].run = rows[r].run
             /\ rows'[r].case \in cases' \cup {None} /\ rows'[r].at = rows[r].at
  <2>1. rows[r] \in PageRows
    BY <1>3
  <2>2. CASE rows[r].case = c
    <3>1. rows'[r] = [rows[r] EXCEPT !.case = None]
      BY <1>2, <2>2
    <3> QED
      BY <2>1, <3>1 DEF PageRows
  <2>3. CASE rows[r].case # c
    BY <1>2, <1>3, <2>3
  <2> QED
    BY <2>2, <2>3
<1>6. archived' \subseteq Things /\ cases' \subseteq cases
  BY <1>2 DEF PagesInd
<1> QED
  BY <1>1, <1>2, <1>4, <1>5, <1>6, RunsStay, TablesChanged

\* update_version, delete_version
LEMMA VersionStepKeeps ==
  ASSUME PagesInd, NEW v \in Things, P!ArchiveVersion(v) \/ P!DeleteVersion(v)
  PROVE  PagesInd'
<1>1. requests' \in 0 .. PageRequests /\ requests' >= requests
  BY ClockOfPages DEF P!ArchiveVersion, P!DeleteVersion
<1>2. UNCHANGED <<cases, rows>> /\ archived' \subseteq Things /\ cases' \subseteq cases
  BY DEF PagesInd, P!ArchiveVersion, P!DeleteVersion
<1>3. CASE P!ArchiveVersion(v)
  <2>1. UNCHANGED runs
    BY <1>3 DEF P!ArchiveVersion
  <2> QED
    BY <1>1, <1>2, <2>1, RunsStay, RowsStay, TablesChanged
<1>4. CASE P!DeleteVersion(v)
  <2>1. runs' = [e \in DOMAIN runs |->
                   IF runs[e].version = v THEN [runs[e] EXCEPT !.version = None] ELSE runs[e]]
    BY <1>4 DEF P!DeleteVersion
  <2>2. DOMAIN runs' = DOMAIN runs /\ runs' = [e \in DOMAIN runs |-> runs'[e]]
    BY <2>1
  <2>3. ASSUME NEW e \in DOMAIN runs PROVE runs'[e] \in RunRows /\ runs'[e].at = runs[e].at
    <3>1. runs[e] \in RunRows
      BY PageTables
    <3>2. runs'[e] = runs[e] \/ runs'[e] = [runs[e] EXCEPT !.version = None]
      BY <2>1
    <3> QED
      BY <3>1, <3>2 DEF RunRows
  <2> QED
    BY <1>1, <1>2, <2>2, <2>3, RowsStay, TablesChanged
<1> QED
  BY <1>3, <1>4

LEMMA PagesInductive ==
  ASSUME PagesInd, P!Next PROVE PagesInd'
<1>1. ASSUME NEW v \in Things \cup {None}, NEW chosen \in SUBSET cases, P!CreateRun(v, chosen)
      PROVE  PagesInd'
  BY <1>1, CreateRunKeeps
<1>2. ASSUME NEW r \in DOMAIN rows, NEW s \in {"running", "passed", "failed"},
             NEW when \in {0, P!now}, P!SetResult(r, s, when)
      PROVE  PagesInd'
  BY <1>2, SetResultKeeps
<1>3. ASSUME NEW e \in DOMAIN runs, P!Complete(e) PROVE PagesInd'
  BY <1>3, CompleteRunKeeps
<1>4. ASSUME NEW c \in cases, P!DeleteCase(c) PROVE PagesInd'
  BY <1>4, DeleteCaseKeeps
<1>5. ASSUME NEW v \in Things, P!ArchiveVersion(v) \/ P!DeleteVersion(v) PROVE PagesInd'
  BY <1>5, VersionStepKeeps
<1> QED
  BY <1>1, <1>2, <1>3, <1>4, <1>5 DEF P!Next

LEMMA PagesInitially ==
  ASSUME P!Init PROVE PagesInd
<1>1. cases = Things /\ archived = {} /\ requests = 0 /\ runs = <<>> /\ rows = <<>>
  BY DEF P!Init
<1>2. runs \in Seq(RunRows) /\ rows \in Seq(PageRows) /\ DOMAIN runs = {} /\ DOMAIN rows = {}
  BY <1>1
<1> QED
  BY <1>1, <1>2, BoundsAssumption DEF PagesInd

LEMMA PagesHold ==
  ASSUME PagesInd PROVE P!PagesAgree
<1>1. P!TypeOK
  <2>1. ASSUME NEW e \in DOMAIN runs
        PROVE  runs[e].version \in Things \cup {None} /\ runs[e].at \in 1 .. PageRequests
    <3>1. runs[e] \in RunRows /\ runs[e].at \in 1 .. requests /\ requests \in 0 .. PageRequests
      BY PageTables DEF PagesInd
    <3> QED
      BY <3>1, BoundsAssumption DEF RunRows
  <2> QED
    BY <2>1 DEF PagesInd, P!TypeOK
<1> QED
  BY <1>1, RecentPagesAgree, PassRatesAgree, MatrixAgrees, VersionPagesAgree DEF P!PagesAgree

\* Whatever is created, run, completed, deleted and archived: the dashboard and the project list
\* show the same recent executions with the same counts, the pass rate of a window is that of its days,
\* of its executions and of its cases, the matrix shows the row that ran last, and versions that
\* never ran come last; a report of an execution shows each row once and adds up.
THEOREM PagesAlwaysAgree == MCSpec => []PagesAgree
<1> DEFINE IInv == part = "pages" => PagesInd
<1>1. MCInit => IInv
  BY PagesInitially DEF MCInit
<1>2. IInv /\ [MCNext]_allVars => IInv'
  <2> SUFFICES ASSUME part' = "pages", IInv, [MCNext]_allVars PROVE PagesInd'
    OBVIOUS
  <2>1. CASE PageStep
    BY <2>1, PagesInductive DEF PageStep
  <2>2. CASE LifecycleStep \/ ImportStep \/ ReportStep
    BY <2>2 DEF LifecycleStep, ImportStep, ReportStep
  <2>3. CASE UNCHANGED allVars
    <3>1. part = "pages" /\ UNCHANGED <<cases, archived, requests, runs, rows>>
      BY <2>3 DEF allVars, pageVars
    <3> QED
      BY <3>1 DEF PagesInd
  <2> QED
    BY <2>1, <2>2, <2>3 DEF MCNext
<1>3. IInv => (part = "pages" => P!PagesAgree)
  BY PagesHold
<1>4. (part = "pages" => P!PagesAgree) /\ (part = "report" => E!ReportAgrees) => PagesAgree
  BY DEF PagesAgree
<1> HIDE DEF IInv
<1> QED
  BY <1>1, <1>2, <1>3, <1>4, ReportsAddUp, PTL DEF MCSpec
=============================================================================
