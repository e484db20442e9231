------------------------------- MODULE StepLog -------------------------------
(***************************************************************************)
(* POST /results/{id}/step-results/{id}/log (routers/executions/results.py)*)
(* composed with the log flusher.  The handler reads the log column of the *)
(* step result, writes it back one line longer, commits, and schedules the *)
(* line on the flusher.  There is one step result for each execution, and  *)
(* its client waits for an answer before it sends the next line, as one    *)
(* listener does.                                                          *)
(***************************************************************************)
EXTENDS LogFlusher

VARIABLES
  column,   \* column[e]: log_output of the step result, as lines
  handler,  \* handler[l]: where the handler that posts line l is
  loaded,   \* loaded[l]: the column it loaded
  open      \* executions that are not completed or aborted

stepVars == <<column, handler, loaded, open, vars>>

StepInit ==
  /\ Init
  /\ column = [e \in Executions |-> <<>>]
  /\ handler = [l \in Lines |-> "idle"]
  /\ loaded = [l \in Lines |-> <<>>]
  /\ open = Executions

Busy(l) == handler[l] \in {"writing", "committed"}

\* Load the step result and its execution, refuse a closed one with 409.
LoadAppend(l) ==
  /\ handler[l] = "idle"
  /\ \A k \in Lines : ~Busy(k)
  /\ ExecOf[l] \in open
  /\ handler' = [handler EXCEPT ![l] = "writing"]
  /\ loaded' = [loaded EXCEPT ![l] = column[ExecOf[l]]]
  /\ UNCHANGED <<column, open, vars>>

\* Mutant: the entry replaces what the column held.
CommitReplaces(l) ==
  /\ handler[l] = "writing"
  /\ handler' = [handler EXCEPT ![l] = "committed"]
  /\ column' = [column EXCEPT ![ExecOf[l]] = <<l>>]
  /\ loaded' = [loaded EXCEPT ![l] = <<>>]
  /\ UNCHANGED <<open, vars>>

\* _append_log_output writes the whole column.
CommitAppend(l) ==
  /\ handler[l] = "writing"
  /\ handler' = [handler EXCEPT ![l] = "committed"]
  /\ column' = [column EXCEPT ![ExecOf[l]] = Append(loaded[l], l)]
  /\ loaded' = [loaded EXCEPT ![l] = <<>>]
  /\ UNCHANGED <<open, vars>>

PublishAppend(l) ==
  /\ handler[l] = "committed"
  /\ handler' = [handler EXCEPT ![l] = "answered"]
  /\ ScheduleAppend(l)
  /\ UNCHANGED <<column, loaded, open>>

\* The execution is completed or aborted by another request.
Close(e) ==
  /\ e \in open
  /\ open' = open \ {e}
  /\ UNCHANGED <<column, handler, loaded, vars>>

StepNext ==
  \/ \E l \in Lines : LoadAppend(l) \/ CommitAppend(l) \/ PublishAppend(l)
  \/ \E e \in Executions : Close(e)
  \/ /\ Configure \/ \E e \in Executions : Loop(e)
     /\ UNCHANGED <<column, handler, loaded, open>>

StepSpec == StepInit /\ [][StepNext]_stepVars

\* The loop runs its tasks and timers, and a handler that loaded its rows runs to
\* its end.
StepFairness ==
  /\ \A e \in Executions : /\ WF_stepVars((AppendNow(e) \/ AppendBuffered(e))
                                          /\ UNCHANGED <<column, handler, loaded, open>>)
                           /\ WF_stepVars(Drain(e) /\ UNCHANGED <<column, handler, loaded, open>>)
  /\ \A l \in Lines : WF_stepVars(CommitAppend(l) \/ PublishAppend(l))
-----------------------------------------------------------------------------
(* Properties.                                                             *)

\* With one client that waits for its answers, an interval left alone and no
\* failed broadcast, what subscribers were sent is always the beginning of what
\* a reload of the page reads from the database: live log and stored log never
\* disagree about content or order.
LiveIsStored ==
  \A e \in Executions : Undisturbed(e) => IsPrefix(sent[e], column[e])

\* The same client: every line it was answered for reaches the subscribers,
\* whatever the interval does, unless its broadcast fails.
AnsweredIsSent ==
  \A l \in Lines :
    handler[l] = "answered" ~> l \in ToSet(sent[ExecOf[l]]) \cup dropped
=============================================================================
