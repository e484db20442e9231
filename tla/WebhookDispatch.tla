--------------------------- MODULE WebhookDispatch ---------------------------
(***************************************************************************)
(* Outgoing webhooks of one project: fire_event queues one delivery for    *)
(* each subscribed webhook as background tasks of the response             *)
(* (services/webhook_events.py), and _run_dispatch makes the attempts and  *)
(* records the outcome (services/webhook_dispatch.py).                     *)
(*                                                                         *)
(* The tasks of a response run in memory and one after another; those of   *)
(* different responses overlap with each other and with the requests that  *)
(* pause and delete webhooks.  A delivery is a pair <<response, webhook>>. *)
(***************************************************************************)
EXTENDS Naturals, Sequences, SequencesExt

CONSTANTS
  Responses,  \* responses that fire an event
  HookSet,    \* webhooks
  AnswersOf   \* AnswersOf[h]: what attempts at the receiver of h may bring

\* The order in which fire_event finds them.
Hooks == SetToSeq(HookSet)
Deliveries == Responses \X HookSet

RETRY_DELAYS_SECONDS == <<1, 10, 60>>
MaxAttempts == Len(RETRY_DELAYS_SECONDS) + 1

\* What an attempt may bring: a response by its class (below500 is any that is
\* not 2xx), a failed connection or timeout, or a destination that is refused
\* before anything is sent.
Answers == {"2xx", "below500", "5xx", "HTTPError", "refused"}
Retryable == {"5xx", "HTTPError"}

\* Those whose body becomes the excerpt of the row.
WithBody == {"2xx", "below500", "5xx"}

ASSUME HooksAssumption ==
  IsFiniteSet(HookSet) /\ AnswersOf \in [HookSet -> SUBSET Answers]

NoRow == [state |-> "none", attempt_count |-> 0, succeeded |-> FALSE]

VARIABLES
  hook,      \* hook[h]: "active", "paused" or "deleted"
  task,      \* task[d]: where the background task of delivery d is
  attempt,   \* attempt[d]: its loop counter
  row,       \* row[d]: the row of webhook_deliveries, or NoRow
  received   \* received[d]: the answers to its attempts so far

dispatchVars == <<hook, task, attempt, row, received>>

\* "raised": its task ended with an exception.  "lost": it ended, or never began,
\* because the process did, or because an earlier task of its response raised.
Places ==
  {"unfired", "queued", "loaded", "inserted", "posting", "waiting", "recording",
   "writing", "done", "raised", "lost"}

DispatchTypeOK ==
  /\ hook \in [HookSet -> {"active", "paused", "deleted"}]
  /\ task \in [Deliveries -> Places]
  /\ attempt \in [Deliveries -> 0 .. MaxAttempts]
  /\ row \in [Deliveries -> [state : {"none", "open", "completed"},
                             attempt_count : 0 .. MaxAttempts,
                             succeeded : BOOLEAN]]
  /\ received \in [Deliveries -> Seq(Answers)]

DispatchInit ==
  /\ hook \in [HookSet -> {"active", "paused"}]
  /\ task = [d \in Deliveries |-> "unfired"]
  /\ attempt = [d \in Deliveries |-> 0]
  /\ row = [d \in Deliveries |-> NoRow]
  /\ received = [d \in Deliveries |-> <<>>]

-----------------------------------------------------------------------------
Goto(d, pc) == task' = [task EXCEPT ![d] = pc]

\* An exception nobody catches ends the task of d, and with it the loop over the
\* tasks of its response.
Raise(d) ==
  task' = [c \in Deliveries |->
             IF c = d THEN "raised"
             ELSE IF c[1] = d[1] /\ task[c] = "queued" THEN "lost" ELSE task[c]]

Unfired(r) == \A h \in HookSet : task[<<r, h>>] = "unfired"

\* fire_event: one task for each active webhook subscribed to the event.
FireEvent(r) ==
  /\ Unfired(r)
  /\ \E H \in SUBSET {h \in HookSet : hook[h] = "active"} :
       /\ H # {}
       /\ task' = [d \in Deliveries |-> IF d[1] = r /\ d[2] \in H THEN "queued"
                                                                ELSE task[d]]
  /\ UNCHANGED <<hook, attempt, row, received>>

\* POST /webhooks/{id}/test: paused webhooks are queued as well.
TestWebhook(r) ==
  /\ Unfired(r)
  /\ \E h \in HookSet : hook[h] # "deleted" /\ Goto(<<r, h>>, "queued")
  /\ UNCHANGED <<hook, attempt, row, received>>

\* Mutant: a failed delivery ends the loop over the tasks of its response.
StopsAfterFailure(d) ==
  \A i, j \in DOMAIN Hooks :
    Hooks[j] = d[2] /\ i < j =>
      LET earlier == <<d[1], Hooks[i]>>
      IN  /\ task[earlier] \in {"unfired", "done"}
          /\ row[earlier].state = "completed" => row[earlier].succeeded

\* Starlette awaits the background tasks of a response in turn.
IsNext(d) ==
  \A i, j \in DOMAIN Hooks :
    Hooks[j] = d[2] /\ i < j => task[<<d[1], Hooks[i]>>] \in {"unfired", "done"}

\* _run_dispatch reads the webhook and gives up if it is gone or paused.
LoadWebhook(d) ==
  /\ task[d] = "queued"
  /\ IsNext(d)
  /\ Goto(d, IF hook[d[2]] = "active" THEN "loaded" ELSE "done")
  /\ UNCHANGED <<hook, attempt, row, received>>

\* It commits the row of the delivery.  If the webhook was deleted since, its
\* foreign key refuses the row.
InsertDelivery(d) ==
  /\ task[d] = "loaded"
  /\ IF hook[d[2]] = "deleted" THEN Raise(d) /\ UNCHANGED row
     ELSE /\ row' = [row EXCEPT ![d] = [state |-> "open", attempt_count |-> 0,
                                        succeeded |-> FALSE]]
          /\ Goto(d, "inserted")
  /\ UNCHANGED <<hook, attempt, received>>

\* The commit expired both rows; they are read again before the loop begins, and
\* reading a row that was deleted raises.
Reload(d) ==
  /\ task[d] = "inserted"
  /\ IF hook[d[2]] = "deleted" THEN Raise(d) /\ UNCHANGED attempt
     ELSE Goto(d, "posting") /\ attempt' = [attempt EXCEPT ![d] = 1]
  /\ UNCHANGED <<hook, row, received>>

\* Mutant: a client error is tried again.
RetriesEverything(d) ==
  \E a \in AnswersOf[d[2]] :
    /\ task[d] = "posting"
    /\ received' = [received EXCEPT ![d] = Append(received[d], a)]
    /\ Goto(d, IF a # "2xx" /\ attempt[d] < MaxAttempts THEN "waiting" ELSE "recording")
    /\ UNCHANGED <<hook, attempt, row>>

\* One attempt.  The loop ends on an answer below 500, on a refused
\* destination, and after the last attempt.
Post(d) ==
  \E a \in AnswersOf[d[2]] :
    /\ task[d] = "posting"
    /\ received' = [received EXCEPT ![d] = Append(received[d], a)]
    /\ Goto(d, IF a \in Retryable /\ attempt[d] < MaxAttempts THEN "waiting"
                                                             ELSE "recording")
    /\ UNCHANGED <<hook, attempt, row>>

\* What neither except of the loop names: a host that the resolver cannot encode.
PostRaises(d) ==
  /\ task[d] = "posting"
  /\ Raise(d)
  /\ UNCHANGED <<hook, attempt, row, received>>

\* The delay is over.
Retry(d) ==
  /\ task[d] = "waiting"
  /\ attempt' = [attempt EXCEPT ![d] = attempt[d] + 1]
  /\ Goto(d, "posting")
  /\ UNCHANGED <<hook, row, received>>

\* Mutant: a delivery to a webhook that was paused meanwhile is dropped.
LoadRowUnlessPaused(d) ==
  /\ task[d] = "recording"
  /\ Goto(d, IF row[d] = NoRow \/ hook[d[2]] = "paused" THEN "done" ELSE "writing")
  /\ UNCHANGED <<hook, attempt, row, received>>

\* The row is read again; it is gone if the webhook was deleted.
LoadRow(d) ==
  /\ task[d] = "recording"
  /\ Goto(d, IF row[d] = NoRow THEN "done" ELSE "writing")
  /\ UNCHANGED <<hook, attempt, row, received>>

\* The outcome after n attempts.
Outcome(d, n) ==
  [state |-> "completed", attempt_count |-> n, succeeded |-> Last(received[d]) = "2xx"]

\* Mutant: the index of the last attempt is recorded, not their number.
RecordsIndex(d) ==
  /\ task[d] = "writing"
  /\ row[d] # NoRow
  /\ row' = [row EXCEPT ![d] = Outcome(d, attempt[d] - 1)]
  /\ Goto(d, "done")
  /\ UNCHANGED <<hook, attempt, received>>

CommitOutcome(d) ==
  /\ task[d] = "writing"
  /\ row[d] # NoRow
  /\ row' = [row EXCEPT ![d] = Outcome(d, attempt[d])]
  /\ Goto(d, "done")
  /\ UNCHANGED <<hook, attempt, received>>

\* The row went since it was read, or the database refuses the excerpt of the
\* body, which has a NUL in it.
CommitFails(d) ==
  /\ task[d] = "writing"
  /\ row[d] = NoRow \/ Last(received[d]) \in WithBody
  /\ Raise(d)
  /\ UNCHANGED <<hook, attempt, row, received>>

\* PUT /webhooks/{id}
SetActive(h) ==
  /\ hook[h] # "deleted"
  /\ hook' = [hook EXCEPT ![h] = IF hook[h] = "active" THEN "paused" ELSE "active"]
  /\ UNCHANGED <<task, attempt, row, received>>

\* DELETE /webhooks/{id}: the rows of its deliveries go with it.
DeleteWebhook(h) ==
  /\ hook[h] # "deleted"
  /\ hook' = [hook EXCEPT ![h] = "deleted"]
  /\ row' = [d \in Deliveries |-> IF d[2] = h THEN NoRow ELSE row[d]]
  /\ UNCHANGED <<task, attempt, received>>

\* The process restarts: background tasks are gone, rows stay as they are.
Restart ==
  /\ task' = [d \in Deliveries |-> IF task[d] \in {"unfired", "done", "raised"} THEN task[d]
                                                                              ELSE "lost"]
  /\ task' # task
  /\ UNCHANGED <<hook, attempt, row, received>>

-----------------------------------------------------------------------------
Dispatch(d) ==
  \/ LoadWebhook(d)
  \/ InsertDelivery(d)
  \/ Reload(d)
  \/ Post(d)
  \/ PostRaises(d)
  \/ Retry(d)
  \/ LoadRow(d)
  \/ CommitOutcome(d)
  \/ CommitFails(d)

DispatchNext ==
  \/ \E r \in Responses : FireEvent(r) \/ TestWebhook(r)
  \/ \E d \in Deliveries : Dispatch(d)
  \/ \E h \in HookSet : SetActive(h) \/ DeleteWebhook(h)
  \/ Restart

DispatchSpec == DispatchInit /\ [][DispatchNext]_dispatchVars

\* An attempt ends within its timeout, delays pass, and the tasks of a response
\* are awaited to the last.
DispatchFairness == \A d \in Deliveries : WF_dispatchVars(Dispatch(d))
-----------------------------------------------------------------------------
(* Properties.                                                             *)

\* What the delivery log shows is what the receiver saw: as many attempts as
\* it was sent, and a success exactly when it answered the last with 2xx.
RowTellsOutcome ==
  \A d \in Deliveries : row[d].state = "completed" =>
    /\ row[d].attempt_count = Len(received[d])
    /\ row[d].succeeded <=> Last(received[d]) = "2xx"

\* webhook_dispatch.py, lines 6-7: retries are "for connection failures and 5xx
\* responses": nothing follows an answer of another kind, and nothing follows
\* the last attempt of the budget, which is three retries within 71 seconds.
\* The manual says otherwise, and this property goes with the code: webhooks.md:60
\* tells receivers to "return non-2xx; Testjam will retry", but an answer below
\* 500 is final; webhooks.md:70 promises five retries over about a day, and a
\* retry when DNS fails, which the code takes for a refused destination.
OnlyFailuresRetried ==
  \A d \in Deliveries :
    /\ Len(received[d]) <= MaxAttempts
    /\ \A i \in 1 .. Len(received[d]) - 1 : received[d][i] \in Retryable

\* docs/manual/webhooks.md, line 16: "Pausing stops new deliveries; the active
\* deliveries finish their retry budget".  A delivery whose row was inserted gets
\* its outcome, unless the webhook is deleted, the process restarts, or its task
\* ends with an exception; after one of the last two the row stays open for ever.
StartedIsRecorded ==
  \A d \in Deliveries :
    row[d].state = "open" ~>
      row[d].state = "completed" \/ hook[d[2]] = "deleted" \/ task[d] \in {"raised", "lost"}

\* A task of the response of d, or the process, ended before its time.
CutShort(d) == \E c \in Deliveries : c[1] = d[1] /\ task[c] \in {"raised", "lost"}

\* webhook_dispatch.py, line 9: a delivery "persists a single WebhookDelivery
\* row that holds the final outcome".  A delivery that is queued for an active
\* webhook ends with one, whatever the receivers before it answered, unless that
\* webhook is paused or deleted, the process restarts, or a delivery of the same
\* response ends with an exception: those behind it are then not even logged.
QueuedIsRecorded ==
  \A d \in Deliveries :
    task[d] = "queued" ~>
      row[d].state = "completed" \/ hook[d[2]] # "active" \/ CutShort(d)
=============================================================================
