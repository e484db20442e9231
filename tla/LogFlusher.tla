----------------------------- MODULE LogFlusher -----------------------------
(***************************************************************************)
(* The buffer of live log lines of one worker process                      *)
(* (services/log_flusher.py).  Handlers schedule LogFlusher.append on the  *)
(* event loop; append either broadcasts the line at once or buffers it and *)
(* makes sure a timer is pending for its execution; the timer drains the   *)
(* buffer and broadcasts it as one event.                                  *)
(*                                                                         *)
(* Everything runs on one event loop, and neither LogFlusher._lock nor     *)
(* ConnectionManager._lock is held across an await, so acquiring them      *)
(* never suspends: append up to the call of the broadcast is one step, and *)
(* so is the drain.                                                        *)
(***************************************************************************)
EXTENDS Sequences, SequencesExt

CONSTANTS
  Executions,
  Lines,         \* payloads, each scheduled at most once
  ExecOf         \* ExecOf[l]: the execution line l belongs to

ASSUME LinesAssumption == ExecOf \in [Lines -> Executions]

VARIABLES
  posted,    \* posted[e]: the lines of e in the order they were scheduled
  tasks,     \* tasks[e]: those whose append has not run; the loop is FIFO
  interval,  \* _flush_ms: "zero" or "positive"
  buffer,    \* _buffers
  pending,   \* the keys of _pending: executions with a timer running
  sent,      \* sent[e]: the lines of e in the order they were broadcast
  changed,   \* history: an administrator has changed the interval
  dropped    \* history: lines whose broadcast raised

vars == <<posted, tasks, interval, buffer, pending, sent, changed, dropped>>

TypeOK ==
  /\ posted \in [Executions -> Seq(Lines)]
  /\ tasks \in [Executions -> Seq(Lines)]
  /\ interval \in {"zero", "positive"}
  /\ buffer \in [Executions -> Seq(Lines)]
  /\ pending \subseteq Executions
  /\ sent \in [Executions -> Seq(Lines)]
  /\ changed \in BOOLEAN
  /\ dropped \subseteq Lines

Init ==
  /\ posted = [e \in Executions |-> <<>>]
  /\ tasks = [e \in Executions |-> <<>>]
  /\ interval \in {"zero", "positive"}
  /\ buffer = [e \in Executions |-> <<>>]
  /\ pending = {}
  /\ sent = [e \in Executions |-> <<>>]
  /\ changed = FALSE
  /\ dropped = {}

-----------------------------------------------------------------------------
\* schedule_append: run_coroutine_threadsafe from a handler's thread.
ScheduleAppend(l) ==
  LET e == ExecOf[l]
  IN  /\ l \notin ToSet(posted[e])
      /\ posted' = [posted EXCEPT ![e] = Append(posted[e], l)]
      /\ tasks' = [tasks EXCEPT ![e] = Append(tasks[e], l)]
      /\ UNCHANGED <<interval, buffer, pending, sent, changed, dropped>>

\* manager.broadcast of one event: the lines are out, or the call raised (a
\* lost backplane) and the task ends with them.
Broadcast(e, lines) ==
  \/ sent' = [sent EXCEPT ![e] = sent[e] \o lines] /\ UNCHANGED dropped
  \/ dropped' = dropped \cup ToSet(lines) /\ UNCHANGED sent

\* append with a flush interval of zero
AppendNow(e) ==
  /\ tasks[e] # <<>>
  /\ interval = "zero"
  /\ tasks' = [tasks EXCEPT ![e] = Tail(tasks[e])]
  /\ Broadcast(e, <<Head(tasks[e])>>)
  /\ UNCHANGED <<posted, interval, buffer, pending, changed>>

\* Mutant: the early return for a pending timer comes before the append.
AppendSkipsPending(e) ==
  /\ tasks[e] # <<>>
  /\ interval = "positive"
  /\ tasks' = [tasks EXCEPT ![e] = Tail(tasks[e])]
  /\ buffer' = IF e \in pending THEN buffer
               ELSE [buffer EXCEPT ![e] = Append(buffer[e], Head(tasks[e]))]
  /\ pending' = pending \cup {e}
  /\ UNCHANGED <<posted, interval, sent, changed, dropped>>

\* append with a positive interval; _pending gets a timer unless it has one
AppendBuffered(e) ==
  /\ tasks[e] # <<>>
  /\ interval = "positive"
  /\ tasks' = [tasks EXCEPT ![e] = Tail(tasks[e])]
  /\ buffer' = [buffer EXCEPT ![e] = Append(buffer[e], Head(tasks[e]))]
  /\ pending' = pending \cup {e}
  /\ UNCHANGED <<posted, interval, sent, changed, dropped>>

\* Mutant: the buffer is read, not popped.
DrainKeepsBuffer(e) ==
  /\ e \in pending
  /\ pending' = pending \ {e}
  /\ Broadcast(e, buffer[e])
  /\ UNCHANGED <<posted, tasks, interval, buffer, changed>>

\* Mutant: the timer stays in _pending after it fired.
DrainKeepsTimer(e) ==
  /\ e \in pending
  /\ buffer' = [buffer EXCEPT ![e] = <<>>]
  /\ Broadcast(e, buffer[e])
  /\ UNCHANGED <<posted, tasks, interval, pending, changed>>

\* _flush_after_delay wakes up and runs _drain
Drain(e) ==
  /\ e \in pending
  /\ pending' = pending \ {e}
  /\ buffer' = [buffer EXCEPT ![e] = <<>>]
  /\ IF buffer[e] = <<>> THEN UNCHANGED <<sent, dropped>> ELSE Broadcast(e, buffer[e])
  /\ UNCHANGED <<posted, tasks, interval, changed>>

\* PUT /settings -> configure_from_settings
Configure ==
  /\ interval' \in {"zero", "positive"} \ {interval}
  /\ changed' = TRUE
  /\ UNCHANGED <<posted, tasks, buffer, pending, sent, dropped>>

-----------------------------------------------------------------------------
Loop(e) == AppendNow(e) \/ AppendBuffered(e) \/ Drain(e)

Next ==
  \/ \E l \in Lines : ScheduleAppend(l)
  \/ \E e \in Executions : Loop(e)
  \/ Configure

Spec == Init /\ [][Next]_vars
-----------------------------------------------------------------------------
(* Properties.                                                             *)

\* append returns early when a timer is pending, and _drain pops buffer and
\* timer together: an execution has lines buffered exactly while a timer for
\* it runs, so no line is left behind without one.
NothingStuck == \A e \in Executions : buffer[e] # <<>> <=> e \in pending

\* The interval has been left alone, and no line of e was lost.
Undisturbed(e) == ~changed /\ \A l \in dropped : ExecOf[l] # e

\* While the interval is left alone and no broadcast of it fails, the lines of an
\* execution are broadcast in the order the handlers scheduled them, none
\* missing and none twice.  An interval that becomes zero lets a line overtake
\* those in the buffer: then order is not kept, and Stream is what remains.
InOrder ==
  \A e \in Executions :
    Undisturbed(e) => sent[e] \o buffer[e] \o tasks[e] = posted[e]

\* However the interval changes and broadcasts fail, the flusher is a log
\* stream: each line leaves it once, and does.
Stream == INSTANCE LogStream WITH
  accepted <- UNION {ToSet(posted[e]) : e \in Executions},
  waiting <- UNION {ToSet(buffer[e]) \cup ToSet(tasks[e]) : e \in Executions},
  delivered <- UNION {ToSet(sent[e]) : e \in Executions}

StreamSpec == Stream!FairSpec
=============================================================================
