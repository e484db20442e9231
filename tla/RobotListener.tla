---------------------------- MODULE RobotListener ----------------------------
(***************************************************************************)
(* The Robot Framework listener (testjam_client/listener/listener.py): it  *)
(* is called for each event of a Robot run and reports it with calls of    *)
(* the SDK, step by step while streaming works and in one batch at the end *)
(* of each test when it does not.                                          *)
(*                                                                         *)
(* Robot is a script of events, which it goes on with whatever becomes of  *)
(* the calls: it catches what a listener method raises.  The server is     *)
(* what the handlers of routers/executions/results.py, suites.py and       *)
(* cases.py make of each call that takes effect.                           *)
(***************************************************************************)
EXTENDS CircuitBreaker, Sequences, FiniteSetsExt, SequencesExt

CONSTANTS
  Script,    \* the events of the run, in order
  Place,     \* where Robot is before each event, and after the last
  Tests,     \* the tests in it
  Steps,     \* the steps of the case of a test, 1 .. n: its top-level items
  Found      \* what earlier runs may have left: functions from tests to case states

Verdicts == {"passed", "failed"}

\* An event has a kind.  The start of a suite or of a test has its name, and that of a
\* suite says whether it is a directory.  A place is the suites Robot is in, by their
\* paths without the root if that is a directory, the test (or "none"), its top-level
\* items begun so far, and how deep Robot is in items.
Nowhere == [suites |-> <<>>, test |-> "none", item |-> 0, depth |-> 0]
PathIn(suites, name) == IF suites = <<>> THEN <<name>> ELSE Append(Last(suites), name)

\* Where event k leads from place p, the events that may happen there, and so a run:
\* suites nest and tests are in a suite, each once; items are in tests, and nest.
Leads(p, k) ==
  LET e == Script[k] IN
  CASE e.kind = "start_suite" ->
         IF k = 1 /\ e.directory THEN p ELSE [p EXCEPT !.suites = Append(@, PathIn(@, e.name))]
    [] e.kind = "end_suite" -> [p EXCEPT !.suites = IF @ = <<>> THEN @ ELSE Front(@)]
    [] e.kind = "start_test" -> [p EXCEPT !.test = e.name]
    [] e.kind = "start_item" ->
         [p EXCEPT !.depth = @ + 1, !.item = IF p.depth = 0 THEN @ + 1 ELSE @]
    [] e.kind = "log" -> p
    [] e.kind = "end_item" -> [p EXCEPT !.depth = @ - 1]
    [] e.kind = "end_test" -> [p EXCEPT !.test = "none", !.item = 0]

May(p, k) ==
  LET e == Script[k] IN
  /\ k = 1 => e.kind = "start_suite"
  /\ \/ p.test = "none" /\ e.kind = "start_suite" /\ e.directory \in BOOLEAN /\ e.name # "none"
     \/ p.test = "none" /\ e.kind = "end_suite"
     \/ /\ p.test = "none" /\ e.kind = "start_test" /\ p.suites # <<>> /\ e.name \in Tests
        /\ \A j \in DOMAIN Script : Script[j].kind = "start_test" /\ Script[j].name = e.name => j = k
     \/ p.test # "none" /\ e.kind = "start_item" /\ (p.depth = 0 => p.item + 1 \in Steps)
     \/ p.test # "none" /\ e.kind \in {"log", "end_item"} /\ p.depth > 0
     \/ p.test # "none" /\ e.kind = "end_test" /\ p.depth = 0

ASSUME ScriptAssumption ==
  /\ Script \in Seq({Script[k] : k \in DOMAIN Script}) /\ Script # <<>> /\ DOMAIN Place = 1 .. Len(Script) + 1
  /\ Place[1] = Nowhere
  /\ \A k \in DOMAIN Script : May(Place[k], k) /\ Place[k + 1] = Leads(Place[k], k)

\* The case of a test in its suite, archived or not.  A legacy one has no external id;
\* "foreign": there is none, and a case of another identity has the name.
CaseStates == {"none", "legacy", "archived legacy", "archived", "active", "foreign"}

ASSUME NamesAssumption ==
  /\ "none" \notin Tests /\ Steps \subseteq Nat \ {0}
  /\ Found \subseteq [Tests -> CaseStates]

VARIABLES
  at,         \* Robot: the event it is at
  verdict,    \* Robot: verdict[t][i], "none" until item i of test t has ended
  said,       \* Robot: said[t][i], the number of lines item i has logged
  pc,         \* listener: "robot", or the call a handler is in
  isRoot,     \* listener: _is_root_suite
  stack,      \* listener: the ids of _suite_stack
  test,       \* listener: _test, or NoTest
  step,       \* listener: _step, or NoStep
  depth,      \* listener: _body_depth
  streaming,  \* listener: streaming_enabled
  case,       \* server: case[t], the test case of test t
  home,       \* server: home[t], the suite whose case has a result of test t
  row,        \* server: row[t][i], the step result of item i
  escaped,    \* history: start_suite has raised
  followed,   \* history: the tests the listener has reported the start of
  failed,     \* history: failed[t][i], a call about the item has failed
  hit         \* history: tests with a step call answered 5xx, or whose batch failed

robotVars == <<verdict, said>>
suiteVars == <<isRoot, stack>>
testVars == <<test, step, depth, streaming>>
serverVars == <<case, home, row>>
history == <<escaped, followed, failed, hit>>
vars == <<adapterVars, at, pc, robotVars, suiteVars, testVars, serverVars, history>>

\* A suite is identified by its path on the server.
NoId == <<"none">>
NoRow == [status |-> "none", log |-> <<>>]
NoTest == [id |-> "none", cursor |-> 1, pending |-> <<>>]
NoStep == [item |-> 0, hasRow |-> FALSE, buffer |-> <<>>]

Init ==
  /\ AdapterInit
  /\ at = 1 /\ pc = "robot"
  /\ verdict = [t \in Tests |-> [i \in Steps |-> "none"]]
  /\ said = [t \in Tests |-> [i \in Steps |-> 0]]
  /\ isRoot = TRUE /\ stack = <<>>
  /\ test = NoTest /\ step = NoStep /\ depth = 0 /\ streaming = TRUE
  /\ case \in Found
  /\ home = [t \in Tests |-> NoId]
  /\ row = [t \in Tests |-> [i \in Steps |-> NoRow]]
  /\ escaped = FALSE /\ followed = {} /\ hit = {}
  /\ failed = [t \in Tests |-> [i \in Steps |-> FALSE]]

-----------------------------------------------------------------------------
(* Robot and the listener in turn.                                         *)
Event == Script[at]
On(kind) == pc = "robot" /\ at <= Len(Script) /\ Event.kind = kind

\* The handler makes a call, or returns to Robot.
Calls(name) == pc' = name /\ UNCHANGED at
Returns == pc' = "robot" /\ at' = at + 1

\* A call to the server: the requests before the one that decides it, and that one.
Renewing(name) == pc = name /\ Renew /\ UNCHANGED <<pc, at>>
Answered(name, o, took) == pc = name /\ took \in Effects(o) /\ Decide(o)

SuiteId == IF stack = <<>> THEN NoId ELSE Last(stack)

\* start_suite.  The root of a run over a directory is left out; a suite whose
\* parent could not be created is only remembered.
StartSuite ==
  /\ On("start_suite")
  /\ isRoot' = FALSE
  /\ \/ isRoot /\ Event.directory /\ UNCHANGED stack /\ Returns
     \/ /\ ~(isRoot /\ Event.directory) /\ stack # <<>> /\ SuiteId = NoId
        /\ stack' = Append(stack, NoId) /\ Returns
     \/ /\ ~(isRoot /\ Event.directory) /\ (stack = <<>> \/ SuiteId # NoId)
        /\ UNCHANGED stack /\ Calls("find_or_create_suite")
  /\ UNCHANGED <<adapterVars, robotVars, testVars, serverVars, history>>

\* Only a transport error is caught: any other ends start_suite before it has
\* pushed the suite that end_suite will pop.
FindOrCreateSuite ==
  /\ \/ Renewing("find_or_create_suite") /\ UNCHANGED <<stack, escaped>>
     \/ \E o \in Outcomes, took \in BOOLEAN :
          /\ Answered("find_or_create_suite", o, took)
          /\ stack' = CASE o = "ok" -> Append(stack, PathIn(stack, Event.name))
                        [] o = "transport" -> Append(stack, NoId)
                        [] OTHER -> stack
          /\ escaped' = (escaped \/ o \in {"4xx", "5xx"})
          /\ Returns
  /\ UNCHANGED <<robotVars, isRoot, testVars, serverVars, followed, failed, hit>>

EndSuite ==
  /\ On("end_suite")
  /\ stack' = IF stack = <<>> THEN stack ELSE Front(stack)
  /\ Returns
  /\ UNCHANGED <<adapterVars, robotVars, isRoot, testVars, serverVars, history>>

-----------------------------------------------------------------------------
(* start_test: a chain of calls.  Any that fails gives up the test.        *)
StartTest ==
  /\ On("start_test")
  /\ test' = NoTest /\ depth' = 0
  /\ IF SuiteId = NoId THEN Returns ELSE Calls("find_case")
  /\ UNCHANGED <<adapterVars, robotVars, suiteVars, step, streaming, serverVars, history>>

\* One call of the chain, what it makes of the case, and the call after it.
Chain(name, becomes, next) ==
  /\ pc = name
  /\ \/ Renewing(name) /\ UNCHANGED case
     \/ \E o \in Outcomes, took \in BOOLEAN :
          /\ Answered(name, o, took)
          /\ case' = IF took THEN [case EXCEPT ![Event.name] = becomes] ELSE case
          /\ IF o = "ok" THEN Calls(next) ELSE Returns
  /\ UNCHANGED <<robotVars, suiteVars, testVars, home, row, history>>

\* By external id, then by name among the cases that have none.
FindCase ==
  /\ pc = "find_case"
  /\ Chain("find_case", case[Event.name],
        CASE case[Event.name] = "active" -> "refresh_case"
          [] case[Event.name] = "archived" -> "unarchive_case"
          [] case[Event.name] \in {"legacy", "archived legacy"} -> "stamp_case"
          [] OTHER -> "create_case")

\* The external id is stamped on a legacy case; if it is archived, that comes next.
StampCase ==
  /\ pc = "stamp_case"
  /\ IF case[Event.name] = "archived legacy"
     THEN Chain("stamp_case", "archived", "unarchive_case")
     ELSE Chain("stamp_case", "active", "refresh_case")

UnarchiveCase == Chain("unarchive_case", "active", "refresh_case")

\* 409, and nothing else refused: the name is taken, by a parallel run or by a case of
\* another identity.
CreateCase ==
  /\ pc = "create_case"
  /\ \/ /\ case[Event.name] = "none"
        /\ Chain("create_case", "active", "sync_steps")
     \/ /\ case[Event.name] # "none"
        /\ \/ Renewing("create_case")
           \/ \E o \in Outcomes \ {"ok"} :
                /\ Answered("create_case", o, FALSE)
                /\ \/ o = "4xx" /\ Calls("find_created_case")
                   \/ Returns
        /\ UNCHANGED <<robotVars, suiteVars, testVars, serverVars, history>>

\* By external id, then by name, whatever its external id and archived or not: what it
\* finds is used as it is, not stamped, not unarchived, not refreshed.
FindCreatedCase == Chain("find_created_case", case[Event.name], "sync_steps")
RefreshCase == Chain("refresh_case", case[Event.name], "sync_steps")
SyncSteps == Chain("sync_steps", case[Event.name], "create_result")

\* A parallel run of the same suites creates the case, or anyone another of its name.
\* Creations that overlap on the server, whose names no constraint keeps apart, are not
\* modelled.
OtherCreatesCase ==
  /\ pc = "create_case" /\ case[Event.name] = "none"
  /\ \E c \in {"active", "foreign"} : case' = [case EXCEPT ![Event.name] = c]
  /\ UNCHANGED <<adapterVars, at, pc, robotVars, suiteVars, testVars, home, row, history>>

CreateResult ==
  /\ \/ Renewing("create_result") /\ UNCHANGED home
     \/ \E o \in Outcomes, took \in BOOLEAN :
          /\ Answered("create_result", o, took)
          /\ home' = IF took THEN [home EXCEPT ![Event.name] = SuiteId] ELSE home
          /\ IF o = "ok" THEN Calls("mark_running") ELSE Returns
  /\ UNCHANGED <<robotVars, suiteVars, testVars, case, row, history>>

\* The status of the result is written without regard to the answer.
MarkRunning ==
  /\ \/ Renewing("mark_running") /\ UNCHANGED <<test, followed>>
     \/ \E o \in Outcomes, took \in BOOLEAN :
          /\ Answered("mark_running", o, took)
          /\ test' = [id |-> Event.name, cursor |-> 1, pending |-> <<>>]
          /\ followed' = followed \union {Event.name}
          /\ Returns
  /\ UNCHANGED <<robotVars, suiteVars, step, depth, streaming, serverVars,
                 escaped, failed, hit>>

-----------------------------------------------------------------------------
(* The items of the test that runs.                                        *)
Running == Place[at].test
Item == Place[at].item

\* start_body_item, up to its call.
BeginItem ==
  /\ depth' = depth + 1
  /\ IF depth # 0 THEN UNCHANGED step /\ Returns
     ELSE IF test = NoTest \/ test.cursor \notin Steps
     THEN step' = NoStep /\ Returns
     ELSE IF streaming THEN UNCHANGED step /\ Calls("start_step")
     ELSE step' = [item |-> test.cursor, hasRow |-> FALSE, buffer |-> <<>>] /\ Returns

StartItem ==
  /\ On("start_item") /\ BeginItem
  /\ UNCHANGED <<adapterVars, robotVars, suiteVars, test, streaming, serverVars, history>>

\* _maybe_disable_streaming, and what the failure of a call leaves to remember.
\* The server's own failures leave streaming on.
Notices(o, items) ==
  /\ streaming' = (streaming /\ o \in {"ok", "5xx"})
  /\ failed' = IF o = "ok" THEN failed
               ELSE [failed EXCEPT ![test.id] = [i \in Steps |-> @[i] \/ i \in items]]
  /\ UNCHANGED <<escaped, followed>>

\* What a call does to the row of the step: nothing, if it did not take effect.
Writes(took, i, new) ==
  row' = IF took THEN [row EXCEPT ![test.id][i] = new] ELSE row

StartStep ==
  /\ \/ Renewing("start_step") /\ UNCHANGED <<step, streaming, row, history>>
     \/ \E o \in Outcomes, took \in BOOLEAN :
          /\ Answered("start_step", o, took)
          /\ Writes(took, test.cursor, [row[test.id][test.cursor] EXCEPT !.status = "running"])
          /\ step' = [item |-> test.cursor, hasRow |-> o = "ok", buffer |-> <<>>]
          /\ Notices(o, {test.cursor})
          /\ hit' = IF o = "5xx" THEN hit \union {test.id} ELSE hit
          /\ Returns
  /\ UNCHANGED <<robotVars, suiteVars, test, depth, case, home>>

\* log_message: a line of the item Robot is in.
Line(n) == <<Item, n>>
Said == said[Running][Item]
Buffer(line) == [step EXCEPT !.buffer = Append(@, line)]

Log ==
  /\ On("log")
  /\ IF test = NoTest \/ step = NoStep THEN UNCHANGED <<said, step>> /\ Returns
     ELSE /\ said' = [said EXCEPT ![Running][Item] = @ + 1]
          /\ IF streaming /\ step.hasRow THEN UNCHANGED step /\ Calls("append_log")
             ELSE step' = Buffer(Line(Said + 1)) /\ Returns
  /\ UNCHANGED <<adapterVars, verdict, suiteVars, test, depth, streaming, serverVars, history>>

AppendLog ==
  /\ \/ Renewing("append_log") /\ UNCHANGED <<step, streaming, row, history>>
     \/ \E o \in Outcomes, took \in BOOLEAN :
          /\ Answered("append_log", o, took)
          /\ Writes(took, step.item,
                    [row[test.id][step.item] EXCEPT !.log = Append(@, Line(Said))])
          /\ step' = IF o = "ok" THEN step ELSE Buffer(Line(Said))
          /\ Notices(o, {step.item})
          /\ UNCHANGED hit
          /\ Returns
  /\ UNCHANGED <<robotVars, suiteVars, test, depth, case, home>>

\* The step waits for the batch, and the cursor moves on.
Result(i, v) == [item |-> i, status |-> v, log |-> step.buffer]
Pend(v) == [id |-> test.id, cursor |-> test.cursor + 1,
            pending |-> Append(test.pending, Result(step.item, v))]
MoveOn == [test EXCEPT !.cursor = @ + 1]

\* end_body_item, up to its call.  An item inside another only counts.
EndItem ==
  /\ On("end_item")
  /\ IF depth # 1 THEN UNCHANGED <<verdict, test, step>> /\ depth' = depth - 1 /\ Returns
     ELSE \E v \in Verdicts :
       /\ verdict' = [verdict EXCEPT ![Running][Item] = v]
       /\ depth' = 0
       /\ IF test = NoTest \/ step = NoStep THEN UNCHANGED <<test, step>> /\ Returns
          ELSE IF streaming /\ step.hasRow THEN UNCHANGED <<test, step>> /\ Calls("end_step")
          ELSE test' = Pend(v) /\ step' = NoStep /\ Returns
  /\ UNCHANGED <<adapterVars, said, suiteVars, streaming, serverVars, history>>

\* Mutant: a step whose last call fails is not kept for the batch.
DropsStep(o) == MoveOn

\* A step whose last call fails is kept for the batch.
AfterUpdate(o) == IF o = "ok" THEN MoveOn ELSE Pend(verdict[Running][Item])

\* PUT of the step result.  A log is only sent, and replaces the row's, when
\* some line of it could not be streamed.
EndStep ==
  /\ \/ Renewing("end_step") /\ UNCHANGED <<test, step, streaming, row, history>>
     \/ \E o \in Outcomes, took \in BOOLEAN :
          /\ Answered("end_step", o, took)
          /\ Writes(took, step.item,
                    [status |-> verdict[Running][Item],
                     log |-> IF step.buffer = <<>> THEN row[test.id][step.item].log
                             ELSE step.buffer])
          /\ test' = AfterUpdate(o)
          /\ step' = NoStep
          /\ Notices(o, {step.item})
          /\ hit' = IF o = "5xx" THEN hit \union {test.id} ELSE hit
          /\ Returns
  /\ UNCHANGED <<robotVars, suiteVars, depth, case, home>>

-----------------------------------------------------------------------------
(* The end of the test and of the run.                                     *)
EndTest ==
  /\ On("end_test")
  /\ IF test = NoTest THEN Returns ELSE Calls("end_test")
  /\ UNCHANGED <<adapterVars, robotVars, suiteVars, testVars, serverVars, history>>

\* The status of the result, whatever the answer; then the batch, if streaming
\* has been given up.
UpdateResult ==
  /\ \/ Renewing("end_test") /\ UNCHANGED <<test, step>>
     \/ \E o \in Outcomes, took \in BOOLEAN :
          /\ Answered("end_test", o, took)
          /\ IF ~streaming /\ test.pending # <<>>
             THEN UNCHANGED <<test, step>> /\ Calls("batch")
             ELSE test' = NoTest /\ step' = NoStep /\ Returns
  /\ UNCHANGED <<robotVars, suiteVars, depth, streaming, serverVars, history>>

\* Mutant: the log of a step sent in the batch is added to the row's.
AppendsLog(rows, results) ==
  [i \in Steps |->
     LET S == {k \in DOMAIN results : results[k].item = i}
     IN IF S = {} THEN rows[i]
        ELSE [status |-> results[Max(S)].status,
              log |-> rows[i].log \o results[Max(S)].log]]

\* create_result: status and log of the steps in the batch replace the rows'.
Upsert(rows, results) ==
  [i \in Steps |->
     LET S == {k \in DOMAIN results : results[k].item = i}
     IN IF S = {} THEN rows[i]
        ELSE [status |-> results[Max(S)].status, log |-> results[Max(S)].log]]

Batch ==
  /\ \/ Renewing("batch") /\ UNCHANGED <<test, step, row, failed, hit>>
     \/ \E o \in Outcomes, took \in BOOLEAN :
          /\ Answered("batch", o, took)
          /\ row' = IF took THEN [row EXCEPT ![test.id] = Upsert(@, test.pending)] ELSE row
          /\ failed' = IF o = "ok" THEN failed
                       ELSE [failed EXCEPT ![test.id] = [i \in Steps |-> TRUE]]
          /\ hit' = IF o = "ok" THEN hit ELSE hit \union {test.id}
          /\ test' = NoTest /\ step' = NoStep
          /\ Returns
  /\ UNCHANGED <<robotVars, suiteVars, depth, streaming, case, home, escaped, followed>>

-----------------------------------------------------------------------------
Handlers ==
  \/ StartSuite \/ FindOrCreateSuite \/ EndSuite
  \/ StartTest \/ FindCase \/ StampCase \/ UnarchiveCase \/ CreateCase
  \/ FindCreatedCase \/ RefreshCase \/ SyncSteps \/ CreateResult \/ MarkRunning
  \/ StartItem \/ StartStep \/ Log \/ AppendLog \/ EndItem \/ EndStep
  \/ EndTest \/ UpdateResult \/ Batch

\* Time passes between two requests of the listener.
Clock ==
  /\ Expire \/ CooldownEnds
  /\ UNCHANGED <<at, pc, robotVars, suiteVars, testVars, serverVars, history>>

\* Robot ends after its last event.
Ended == at > Len(Script) /\ UNCHANGED vars

Next == Handlers \/ OtherCreatesCase \/ Clock \/ Ended

Spec == Init /\ [][Next]_vars

-----------------------------------------------------------------------------
RowStatuses == {"none", "running"} \union Verdicts

\* The variables have their types.
TypeOK ==
  /\ AdapterTypeOK
  /\ at \in 1 .. Len(Script) + 1
  /\ \A t \in Tests, i \in Steps :
       /\ verdict[t][i] \in Verdicts \union {"none"}
       /\ said[t][i] \in 0 .. Len(Script)
       /\ row[t][i].status \in RowStatuses
       /\ failed[t][i] \in BOOLEAN
  /\ case \in [Tests -> CaseStates]
  /\ test.id \in Tests \union {NoTest.id}
  /\ test.cursor \in 1 .. Len(Script)
  /\ step.item \in Steps \union {NoStep.item}
  /\ depth \in 0 .. Len(Script)
  /\ streaming \in BOOLEAN /\ escaped \in BOOLEAN /\ isRoot \in BOOLEAN
  /\ hit \subseteq Tests /\ followed \subseteq Tests

\* What the listener has been told of an item is on the server or waits for the
\* batch: it forgets how a step ended only in a test in which the server answered
\* a call about a step with 5xx, or did not accept the batch.
NothingForgotten ==
  \A t \in followed \ hit, i \in Steps : verdict[t][i] # "none" =>
    \/ row[t][i].status = verdict[t][i]
    \/ /\ test.id = t
       /\ \/ step.item = i
          \/ \E k \in DOMAIN test.pending :
               test.pending[k].item = i /\ test.pending[k].status = verdict[t][i]

\* A step every call about which succeeded has, once the item and, if it waits for
\* the batch, the test have ended, all the lines Robot logged for it, in order and
\* none twice, and the status of its own item.
CleanStepIsComplete ==
  \A t \in Tests, i \in Steps :
    (verdict[t][i] # "none" /\ ~failed[t][i] /\ row[t][i].status # "none" /\ test.id # t) =>
      /\ row[t][i].status = verdict[t][i]
      /\ row[t][i].log = [n \in 1 .. said[t][i] |-> <<i, n>>]

\* Whatever fails, a step's log never has a line of another step, nor a line twice
\* or after a later one.
LogInOrder ==
  \A t \in Tests, i \in Steps :
    LET log == row[t][i].log
    IN /\ \A k \in DOMAIN log : log[k][1] = i /\ log[k][2] \in 1 .. said[t][i]
       /\ \A j, k \in DOMAIN log : j < k => log[j][2] < log[k][2]

\* What is reported of a step is what Robot said of it, whatever fails.
StepsAreFaithful == CleanStepIsComplete /\ LogInOrder

\* robot-listener.md, line 61: the hierarchy of suites is mirrored.  A result is
\* for a case of the suite Robot found the test in, unless start_suite has raised.
TestsInTheirSuite ==
  \A t \in Tests : escaped \/ home[t] = NoId \/
    \E k \in DOMAIN Script :
      Script[k].kind = "start_test" /\ Script[k].name = t /\ home[t] = Last(Place[k].suites)

\* A test is followed in its own case, made active and given its external id before if
\* an earlier run left it otherwise; or, when the server refused to create that case, in
\* the one that has its name.
CaseIsPutRight == test # NoTest => case[test.id] \in {"active", "foreign"}

\* The tests are where Robot found them, in cases that have been put right.
TestsInTheirPlace == TypeOK /\ TestsInTheirSuite /\ CaseIsPutRight
=============================================================================
