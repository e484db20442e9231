------------------------ MODULE WebhookDispatchProofs ------------------------
(***************************************************************************)
(* Theorems about WebhookDispatch: types, the budget of attempts, and the  *)
(* row of a delivery that tells what the receiver saw.                     *)
(***************************************************************************)
EXTENDS WebhookDispatch, SequenceTheorems, TLAPS

\* The budget of attempts: the first, and one after each delay.
LEMMA Budget == MaxAttempts = 4
BY DEF MaxAttempts, RETRY_DELAYS_SECONDS

\* What attempts bring is an answer.
LEMMA AnswerOf == \A d \in Deliveries : AnswersOf[d[2]] \subseteq Answers
BY HooksAssumption DEF Deliveries

\* What is used of Append.
LEMMA AppendAnswer ==
  \A s \in Seq(Answers), a \in Answers :
    /\ Append(s, a) \in Seq(Answers)
    /\ Len(Append(s, a)) = Len(s) + 1
    /\ Append(s, a)[Len(s) + 1] = a
    /\ \A i \in 1 .. Len(s) : Append(s, a)[i] = s[i]
OBVIOUS

-----------------------------------------------------------------------------
(* The inductive invariant.  RowTellsOutcome and OnlyFailuresRetried speak *)
(* of the answers alone; what keeps them true is how far the loop of the   *)
(* task is at each of its places.                                          *)

\* The first n answers to d were failures that may be tried again.
Failed(d, n) == \A i \in 1 .. n : received[d][i] \in Retryable

\* Where the task is tells how many attempts there were, and how they ended.
LoopPlace(d) ==
  /\ task[d] \in {"unfired", "queued", "loaded", "inserted"} => received[d] = <<>>
  /\ task[d] = "posting" =>
       attempt[d] = Len(received[d]) + 1 /\ Failed(d, Len(received[d]))
  /\ task[d] = "waiting" =>
       /\ attempt[d] = Len(received[d])
       /\ attempt[d] < MaxAttempts
       /\ Failed(d, Len(received[d]))
  /\ task[d] \in {"recording", "writing"} => attempt[d] = Len(received[d])

WithinBudget(d) ==
  Len(received[d]) <= MaxAttempts /\ Failed(d, Len(received[d]) - 1)

\* Only CommitOutcome completes a row, and nothing is sent after it.
RowIsFinal(d) ==
  row[d].state = "completed" =>
    /\ task[d] = "done"
    /\ row[d].attempt_count = Len(received[d])
    /\ row[d].succeeded <=> Last(received[d]) = "2xx"

Settled(d) == LoopPlace(d) /\ WithinBudget(d) /\ RowIsFinal(d)

IInv == DispatchTypeOK /\ \A d \in Deliveries : Settled(d)

-----------------------------------------------------------------------------
LEMMA TypeInit == DispatchInit => DispatchTypeOK
BY Budget DEF DispatchInit, DispatchTypeOK, NoRow, Places

\* The type of attempt needs the place in the loop: Retry counts on what its
\* delay was granted for.
LEMMA TypeNext == IInv /\ [DispatchNext]_dispatchVars => DispatchTypeOK'
<1> SUFFICES ASSUME IInv, [DispatchNext]_dispatchVars PROVE DispatchTypeOK'
  OBVIOUS
<1> DispatchTypeOK
  BY DEF IInv
<1> USE Budget
<1>1. ASSUME NEW r \in Responses, FireEvent(r) PROVE DispatchTypeOK'
  BY <1>1 DEF DispatchTypeOK, Places, FireEvent
<1>2. ASSUME NEW r \in Responses, TestWebhook(r) PROVE DispatchTypeOK'
  BY <1>2 DEF DispatchTypeOK, Places, TestWebhook, Goto
<1>3. ASSUME NEW d \in Deliveries, LoadWebhook(d) PROVE DispatchTypeOK'
  BY <1>3 DEF DispatchTypeOK, Places, LoadWebhook, Goto
<1>4. ASSUME NEW d \in Deliveries, InsertDelivery(d) PROVE DispatchTypeOK'
  <2>1. CASE hook[d[2]] = "deleted"
    BY <1>4, <2>1 DEF DispatchTypeOK, Places, InsertDelivery, Raise
  <2>2. CASE hook[d[2]] # "deleted"
    <3>1. /\ task' = [task EXCEPT ![d] = "inserted"]
          /\ row' = [row EXCEPT ![d] = [state |-> "open", attempt_count |-> 0,
                                       succeeded |-> FALSE]]
          /\ UNCHANGED <<hook, attempt, received>>
      BY <1>4, <2>2 DEF InsertDelivery, Goto
    <3> QED
      BY <3>1 DEF DispatchTypeOK, Places
  <2> QED
    BY <2>1, <2>2
<1>5. ASSUME NEW d \in Deliveries, Reload(d) PROVE DispatchTypeOK'
  <2>1. CASE hook[d[2]] = "deleted"
    BY <1>5, <2>1 DEF DispatchTypeOK, Places, Reload, Raise
  <2>2. CASE hook[d[2]] # "deleted"
    <3>1. /\ task' = [task EXCEPT ![d] = "posting"]
          /\ attempt' = [attempt EXCEPT ![d] = 1]
          /\ UNCHANGED <<hook, row, received>>
      BY <1>5, <2>2 DEF Reload, Goto
    <3> QED
      BY <3>1 DEF DispatchTypeOK, Places
  <2> QED
    BY <2>1, <2>2
<1>6. ASSUME NEW d \in Deliveries, Post(d) PROVE DispatchTypeOK'
  <2>1. PICK a \in AnswersOf[d[2]] : received' = [received EXCEPT ![d] = Append(received[d], a)]
    BY <1>6 DEF Post
  <2>2. received' \in [Deliveries -> Seq(Answers)]
    BY <2>1, AnswerOf, AppendAnswer DEF DispatchTypeOK
  <2> QED
    BY <1>6, <2>2 DEF DispatchTypeOK, Places, Post, Goto
<1>7. ASSUME NEW d \in Deliveries, Retry(d) PROVE DispatchTypeOK'
  <2>1. attempt[d] < MaxAttempts
    BY <1>7 DEF IInv, Settled, LoopPlace, Retry
  <2>2. attempt[d] \in 0 .. MaxAttempts
    BY DEF DispatchTypeOK
  <2>3. attempt[d] + 1 \in 0 .. MaxAttempts
    BY <2>1, <2>2
  <2>4. attempt' \in [Deliveries -> 0 .. MaxAttempts]
    BY <1>7, <2>3 DEF DispatchTypeOK, Retry
  <2> QED
    BY <1>7, <2>4 DEF DispatchTypeOK, Places, Retry, Goto
<1>8. ASSUME NEW d \in Deliveries, LoadRow(d) \/ PostRaises(d) \/ CommitFails(d)
      PROVE  DispatchTypeOK'
  BY <1>8 DEF DispatchTypeOK, Places, LoadRow, PostRaises, CommitFails, Raise, Goto
<1>13. ASSUME NEW d \in Deliveries, CommitOutcome(d) PROVE DispatchTypeOK'
  <2>1. Outcome(d, attempt[d]) \in [state : {"none", "open", "completed"},
                                    attempt_count : 0 .. MaxAttempts, succeeded : BOOLEAN]
    BY DEF Outcome, DispatchTypeOK
  <2> QED
    BY <1>13, <2>1 DEF DispatchTypeOK, Places, CommitOutcome, Goto
<1>9. ASSUME NEW h \in HookSet, SetActive(h) PROVE DispatchTypeOK'
  BY <1>9 DEF DispatchTypeOK, SetActive
<1>10. ASSUME NEW h \in HookSet, DeleteWebhook(h) PROVE DispatchTypeOK'
  BY <1>10 DEF DispatchTypeOK, DeleteWebhook, NoRow
<1>11. ASSUME Restart PROVE DispatchTypeOK'
  BY <1>11 DEF DispatchTypeOK, Places, Restart
<1>12. ASSUME UNCHANGED dispatchVars PROVE DispatchTypeOK'
  BY <1>12 DEF DispatchTypeOK, dispatchVars
<1> QED
  BY <1>1, <1>2, <1>3, <1>4, <1>5, <1>6, <1>7, <1>8, <1>9, <1>10, <1>11, <1>12, <1>13
  DEF DispatchNext, Dispatch

-----------------------------------------------------------------------------
(* Each step disturbs the place of one delivery, or of none.               *)

\* A delivery whose task, counter, row and answers stay is settled as before;
\* so is one whose row goes, or whose task raises or is lost before it is done.
LEMMA Untouched ==
  ASSUME NEW e \in Deliveries, Settled(e),
         task'[e] = task[e] \/ (task'[e] \in {"lost", "raised"} /\ task[e] # "done"),
         attempt'[e] = attempt[e],
         received'[e] = received[e],
         row'[e] = row[e] \/ row'[e] = NoRow
  PROVE  Settled(e)'
<1>1. LoopPlace(e)'
  BY DEF Settled, LoopPlace, Failed
<1>2. WithinBudget(e)'
  BY DEF Settled, WithinBudget, Failed
<1>3. RowIsFinal(e)'
  <2>1. NoRow.state # "completed"
    BY DEF NoRow
  <2> QED
    BY <2>1 DEF Settled, RowIsFinal
<1> QED
  BY <1>1, <1>2, <1>3 DEF Settled

\* A delivery that has sent nothing moves on without sending.
LEMMA NothingSent ==
  ASSUME DispatchTypeOK, NEW e \in Deliveries, Settled(e),
         task[e] \in {"unfired", "queued"},
         task'[e] \in {"queued", "loaded", "done"},
         attempt'[e] = attempt[e],
         received'[e] = received[e],
         row'[e] = row[e]
  PROVE  Settled(e)'
<1>1. received[e] = <<>> /\ row[e].state # "completed"
  BY DEF Settled, LoopPlace, RowIsFinal
<1>2. LoopPlace(e)'
  BY <1>1 DEF LoopPlace
<1>3. WithinBudget(e)'
  BY DEF Settled, WithinBudget, Failed
<1>4. RowIsFinal(e)'
  BY <1>1 DEF RowIsFinal
<1> QED
  BY <1>2, <1>3, <1>4 DEF Settled

\* The task of d raises, with those that are queued behind it.
LEMMA RaiseSettles ==
  ASSUME NEW d \in Deliveries, task[d] # "done", Raise(d),
         NEW e \in Deliveries, Settled(e),
         attempt'[e] = attempt[e], received'[e] = received[e], row'[e] = row[e]
  PROVE  Settled(e)'
<1>1. task'[e] = task[e] \/ (task'[e] \in {"lost", "raised"} /\ task[e] # "done")
  BY DEF Raise
<1> QED
  BY <1>1, Untouched

LEMMA InsertSettled ==
  ASSUME DispatchTypeOK, NEW d \in Deliveries, Settled(d), InsertDelivery(d),
         hook[d[2]] # "deleted"
  PROVE  Settled(d)'
<1>1. /\ task[d] = "loaded" /\ task'[d] = "inserted" /\ received'[d] = received[d]
  BY DEF DispatchTypeOK, InsertDelivery, Goto
<1>2. received[d] = <<>>
  BY <1>1 DEF Settled, LoopPlace
<1>3. row'[d].state = "open"
  BY DEF DispatchTypeOK, InsertDelivery, NoRow
<1>4. LoopPlace(d)'
  BY <1>1, <1>2 DEF LoopPlace, Failed
<1>5. WithinBudget(d)'
  BY <1>1 DEF Settled, WithinBudget, Failed
<1>6. RowIsFinal(d)'
  BY <1>3 DEF RowIsFinal
<1> QED
  BY <1>4, <1>5, <1>6 DEF Settled

LEMMA ReloadSettled ==
  ASSUME DispatchTypeOK, NEW d \in Deliveries, Settled(d), Reload(d),
         hook[d[2]] # "deleted"
  PROVE  Settled(d)'
<1>1. /\ task[d] = "inserted" /\ task'[d] = "posting"
      /\ attempt'[d] = 1 /\ received'[d] = received[d] /\ row'[d] = row[d]
  BY DEF DispatchTypeOK, Reload, Goto
<1>2. received[d] = <<>>
  BY <1>1 DEF Settled, LoopPlace
<1>3. LoopPlace(d)'
  BY <1>1, <1>2 DEF LoopPlace, Failed
<1>4. WithinBudget(d)'
  BY <1>1 DEF Settled, WithinBudget, Failed
<1>5. RowIsFinal(d)'
  BY <1>1 DEF Settled, RowIsFinal
<1> QED
  BY <1>3, <1>4, <1>5 DEF Settled

LEMMA LoadRowSettled ==
  ASSUME DispatchTypeOK, NEW d \in Deliveries, Settled(d), LoadRow(d)
  PROVE  Settled(d)'
<1>1. /\ task[d] = "recording" /\ task'[d] \in {"writing", "done"}
      /\ attempt'[d] = attempt[d] /\ received'[d] = received[d] /\ row'[d] = row[d]
  BY DEF DispatchTypeOK, LoadRow, Goto
<1>2. LoopPlace(d)'
  BY <1>1 DEF Settled, LoopPlace
<1>3. WithinBudget(d)'
  BY <1>1 DEF Settled, WithinBudget, Failed
<1>4. RowIsFinal(d)'
  BY <1>1 DEF Settled, RowIsFinal
<1> QED
  BY <1>2, <1>3, <1>4 DEF Settled

LEMMA PostSettled ==
  ASSUME DispatchTypeOK, NEW d \in Deliveries, Settled(d), Post(d)
  PROVE  Settled(d)'
<1> USE Budget
<1>1. PICK a \in Answers :
        /\ task[d] = "posting"
        /\ received'[d] = Append(received[d], a)
        /\ task'[d] = IF a \in Retryable /\ attempt[d] < MaxAttempts THEN "waiting"
                                                                    ELSE "recording"
        /\ attempt'[d] = attempt[d]
        /\ row'[d] = row[d]
  BY AnswerOf DEF DispatchTypeOK, Post, Goto
<1>2. /\ received[d] \in Seq(Answers)
      /\ attempt[d] = Len(received[d]) + 1
      /\ attempt[d] \in 0 .. MaxAttempts
      /\ Failed(d, Len(received[d]))
  BY <1>1 DEF DispatchTypeOK, Settled, LoopPlace
<1>3. /\ Len(received'[d]) = Len(received[d]) + 1
      /\ received'[d][Len(received[d]) + 1] = a
      /\ \A i \in 1 .. Len(received[d]) : received'[d][i] = received[d][i]
  BY <1>1, <1>2, AppendAnswer
<1>4. Len(received[d]) \in Nat
  BY <1>2
<1>5. \A i \in 1 .. Len(received[d]) : received'[d][i] \in Retryable
  BY <1>2, <1>3 DEF Failed
<1>6. a \in Retryable => \A i \in 1 .. Len(received[d]) + 1 : received'[d][i] \in Retryable
  BY <1>3, <1>4, <1>5
<1>7. LoopPlace(d)'
  BY <1>1, <1>2, <1>3, <1>4, <1>6 DEF LoopPlace, Failed
<1>8. WithinBudget(d)'
  BY <1>2, <1>3, <1>4, <1>5 DEF WithinBudget, Failed
<1>9. RowIsFinal(d)'
  BY <1>1 DEF Settled, RowIsFinal
<1> QED
  BY <1>7, <1>8, <1>9 DEF Settled

LEMMA RetrySettled ==
  ASSUME DispatchTypeOK, NEW d \in Deliveries, Settled(d), Retry(d)
  PROVE  Settled(d)'
<1>1. /\ task[d] = "waiting" /\ task'[d] = "posting"
      /\ attempt'[d] = attempt[d] + 1 /\ received'[d] = received[d] /\ row'[d] = row[d]
  BY DEF DispatchTypeOK, Retry, Goto
<1>2. LoopPlace(d)'
  BY <1>1 DEF Settled, LoopPlace, Failed
<1>3. WithinBudget(d)'
  BY <1>1 DEF Settled, WithinBudget, Failed
<1>4. RowIsFinal(d)'
  BY <1>1 DEF Settled, RowIsFinal
<1> QED
  BY <1>2, <1>3, <1>4 DEF Settled

LEMMA RecordSettled ==
  ASSUME DispatchTypeOK, NEW d \in Deliveries, Settled(d), CommitOutcome(d)
  PROVE  Settled(d)'
<1>1. /\ task[d] = "writing" /\ task'[d] = "done"
      /\ attempt'[d] = attempt[d] /\ received'[d] = received[d]
      /\ row'[d] = Outcome(d, attempt[d])
  BY DEF DispatchTypeOK, CommitOutcome, Goto
<1>2. attempt[d] = Len(received[d])
  BY <1>1 DEF Settled, LoopPlace
<1>3. LoopPlace(d)'
  BY <1>1 DEF LoopPlace
<1>4. WithinBudget(d)'
  BY <1>1 DEF Settled, WithinBudget, Failed
<1>5. RowIsFinal(d)'
  <2> DEFINE won == Last(received[d]) = "2xx"
  <2>1. row'[d] = [state |-> "completed", attempt_count |-> attempt[d], succeeded |-> won]
    BY <1>1 DEF Outcome
  <2>2. won <=> Last(received'[d]) = "2xx"
    BY <1>1 DEF Last
  <2> HIDE DEF won
  <2>3. row'[d].attempt_count = attempt[d] /\ row'[d].succeeded = won
    BY <2>1
  <2>4. row'[d].attempt_count = Len(received'[d])
    BY <1>1, <1>2, <2>3
  <2>5. row'[d].succeeded <=> Last(received'[d]) = "2xx"
    BY <2>2, <2>3, Zenon
  <2> QED
    BY <1>1, <2>4, <2>5 DEF RowIsFinal
<1> QED
  BY <1>3, <1>4, <1>5 DEF Settled

-----------------------------------------------------------------------------
LEMMA InvInit == DispatchInit => IInv
<1> SUFFICES ASSUME DispatchInit PROVE IInv
  OBVIOUS
<1>1. DispatchTypeOK
  BY TypeInit
<1>2. ASSUME NEW d \in Deliveries PROVE Settled(d)
  <2>1. task[d] = "unfired" /\ received[d] = <<>> /\ row[d] = NoRow
    BY DEF DispatchInit
  <2>2. NoRow.state # "completed"
    BY DEF NoRow
  <2> QED
    BY <2>1, <2>2, Budget DEF Settled, LoopPlace, WithinBudget, RowIsFinal, Failed
<1> QED
  BY <1>1, <1>2 DEF IInv

LEMMA InvNext == IInv /\ [DispatchNext]_dispatchVars => IInv'
<1> SUFFICES ASSUME IInv, [DispatchNext]_dispatchVars PROVE IInv'
  OBVIOUS
<1>1. DispatchTypeOK /\ DispatchTypeOK'
  BY TypeNext DEF IInv
<1> SUFFICES ASSUME NEW e \in Deliveries PROVE Settled(e)'
  BY <1>1 DEF IInv
<1>2. Settled(e)
  BY DEF IInv
<1>3. e = <<e[1], e[2]>> /\ e[1] \in Responses /\ e[2] \in HookSet
  BY DEF Deliveries
<1>4. ASSUME NEW r \in Responses, FireEvent(r) PROVE Settled(e)'
  <2>1. /\ task'[e] = task[e] \/ (task[e] = "unfired" /\ task'[e] = "queued")
        /\ attempt'[e] = attempt[e] /\ row'[e] = row[e] /\ received'[e] = received[e]
    BY <1>3, <1>4 DEF FireEvent, Unfired
  <2> QED
    BY <1>1, <1>2, <2>1, Untouched, NothingSent
<1>5. ASSUME NEW r \in Responses, TestWebhook(r) PROVE Settled(e)'
  <2>1. /\ task'[e] = task[e] \/ (task[e] = "unfired" /\ task'[e] = "queued")
        /\ attempt'[e] = attempt[e] /\ row'[e] = row[e] /\ received'[e] = received[e]
    BY <1>1, <1>3, <1>5 DEF TestWebhook, Unfired, Goto, DispatchTypeOK
  <2> QED
    BY <1>1, <1>2, <2>1, Untouched, NothingSent
<1>6. ASSUME NEW d \in Deliveries, LoadWebhook(d) PROVE Settled(e)'
  <2>1. /\ \/ task'[e] = task[e]
           \/ task[e] = "queued" /\ task'[e] \in {"loaded", "done"}
        /\ attempt'[e] = attempt[e] /\ row'[e] = row[e] /\ received'[e] = received[e]
    BY <1>1, <1>6 DEF LoadWebhook, Goto, DispatchTypeOK
  <2> QED
    BY <1>1, <1>2, <2>1, Untouched, NothingSent
<1>7. ASSUME NEW d \in Deliveries, InsertDelivery(d) PROVE Settled(e)'
  <2>1. CASE hook[d[2]] = "deleted"
    BY <1>2, <1>7, <2>1, RaiseSettles DEF InsertDelivery
  <2>2. CASE hook[d[2]] # "deleted"
    <3>1. e # d => /\ task'[e] = task[e] /\ attempt'[e] = attempt[e]
                   /\ row'[e] = row[e] /\ received'[e] = received[e]
      BY <1>1, <1>7, <2>2 DEF InsertDelivery, Goto, DispatchTypeOK
    <3> QED
      BY <1>1, <1>2, <1>7, <2>2, <3>1, Untouched, InsertSettled
  <2> QED
    BY <2>1, <2>2
<1>8. ASSUME NEW d \in Deliveries, Reload(d) PROVE Settled(e)'
  <2>1. CASE hook[d[2]] = "deleted"
    BY <1>2, <1>8, <2>1, RaiseSettles DEF Reload
  <2>2. CASE hook[d[2]] # "deleted"
    <3>1. e # d => /\ task'[e] = task[e] /\ attempt'[e] = attempt[e]
                   /\ row'[e] = row[e] /\ received'[e] = received[e]
      BY <1>1, <1>8, <2>2 DEF Reload, Goto, DispatchTypeOK
    <3> QED
      BY <1>1, <1>2, <1>8, <2>2, <3>1, Untouched, ReloadSettled
  <2> QED
    BY <2>1, <2>2
<1>16. ASSUME NEW d \in Deliveries, LoadRow(d) PROVE Settled(e)'
  <2>1. e # d => /\ task'[e] = task[e] /\ attempt'[e] = attempt[e]
                 /\ row'[e] = row[e] /\ received'[e] = received[e]
    BY <1>1, <1>16 DEF LoadRow, Goto, DispatchTypeOK
  <2> QED
    BY <1>1, <1>2, <1>16, <2>1, Untouched, LoadRowSettled
<1>17. ASSUME NEW d \in Deliveries, PostRaises(d) \/ CommitFails(d) PROVE Settled(e)'
  <2>1. task[d] # "done" /\ Raise(d) /\ UNCHANGED <<attempt, received, row>>
    BY <1>17 DEF PostRaises, CommitFails
  <2> QED
    BY <1>2, <2>1, RaiseSettles
<1>9. ASSUME NEW d \in Deliveries, Post(d) PROVE Settled(e)'
  <2>1. e # d => /\ task'[e] = task[e] /\ attempt'[e] = attempt[e]
                 /\ row'[e] = row[e] /\ received'[e] = received[e]
    BY <1>1, <1>9 DEF Post, Goto, DispatchTypeOK
  <2> QED
    BY <1>1, <1>2, <1>9, <2>1, Untouched, PostSettled
<1>10. ASSUME NEW d \in Deliveries, Retry(d) PROVE Settled(e)'
  <2>1. e # d => /\ task'[e] = task[e] /\ attempt'[e] = attempt[e]
                 /\ row'[e] = row[e] /\ received'[e] = received[e]
    BY <1>1, <1>10 DEF Retry, Goto, DispatchTypeOK
  <2> QED
    BY <1>1, <1>2, <1>10, <2>1, Untouched, RetrySettled
<1>11. ASSUME NEW d \in Deliveries, CommitOutcome(d) PROVE Settled(e)'
  <2>1. e # d => /\ task'[e] = task[e] /\ attempt'[e] = attempt[e]
                 /\ row'[e] = row[e] /\ received'[e] = received[e]
    BY <1>1, <1>11 DEF CommitOutcome, Goto, DispatchTypeOK
  <2> QED
    BY <1>1, <1>2, <1>11, <2>1, Untouched, RecordSettled
<1>12. ASSUME NEW h \in HookSet, SetActive(h) PROVE Settled(e)'
  BY <1>2, <1>12, Untouched DEF SetActive
<1>13. ASSUME NEW h \in HookSet, DeleteWebhook(h) PROVE Settled(e)'
  <2>1. /\ task'[e] = task[e] /\ attempt'[e] = attempt[e] /\ received'[e] = received[e]
        /\ row'[e] = row[e] \/ row'[e] = NoRow
    BY <1>13 DEF DeleteWebhook
  <2> QED
    BY <1>2, <2>1, Untouched
<1>14. ASSUME Restart PROVE Settled(e)'
  <2>1. /\ task'[e] = task[e] \/ (task'[e] = "lost" /\ task[e] # "done")
        /\ attempt'[e] = attempt[e] /\ row'[e] = row[e] /\ received'[e] = received[e]
    BY <1>14 DEF Restart
  <2> QED
    BY <1>2, <2>1, Untouched
<1>15. ASSUME UNCHANGED dispatchVars PROVE Settled(e)'
  BY <1>2, <1>15, Untouched DEF dispatchVars
<1> QED
  BY <1>4, <1>5, <1>6, <1>7, <1>8, <1>9, <1>10, <1>11, <1>12, <1>13, <1>14, <1>15,
     <1>16, <1>17
  DEF DispatchNext, Dispatch

LEMMA Inductive == DispatchSpec => []IInv
BY InvInit, InvNext, PTL DEF DispatchSpec

-----------------------------------------------------------------------------
\* The state keeps its types: the counter of _run_dispatch never leaves its
\* loop's range, and no row has a count beyond it.
THEOREM TypeCorrect == DispatchSpec => []DispatchTypeOK
<1>1. IInv => DispatchTypeOK
  BY DEF IInv
<1> QED
  BY Inductive, <1>1, PTL

\* What the delivery log shows is what the receiver saw, whatever the number of
\* responses and webhooks, and wherever webhooks are paused or deleted or the
\* process restarts.
THEOREM OutcomeTold == DispatchSpec => []RowTellsOutcome
<1>1. IInv => RowTellsOutcome
  BY DEF IInv, Settled, RowIsFinal, RowTellsOutcome
<1> QED
  BY Inductive, <1>1, PTL

\* Nothing follows an answer that is not a failure, or the last attempt of the
\* budget.
THEOREM FailuresRetried == DispatchSpec => []OnlyFailuresRetried
<1>1. IInv => OnlyFailuresRetried
  BY DEF IInv, Settled, WithinBudget, Failed, OnlyFailuresRetried
<1> QED
  BY Inductive, <1>1, PTL
=============================================================================
