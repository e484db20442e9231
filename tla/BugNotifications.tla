-------------------------- MODULE BugNotifications --------------------------
(***************************************************************************)
(* Who is told of what happens to a bug: its watchers                      *)
(* (services/bug_watchers.py), the users that comments mention             *)
(* (services/mention_notify.py) and its assignee, through the handlers of  *)
(* services/bug_events.py and notify (services/notifications.py).  Mail is *)
(* left out: its preference does not bear on the rows.                     *)
(*                                                                         *)
(* Handlers run in worker threads and overlap; a row inserted by one is    *)
(* seen by the others once it is committed.  Users are notified in any     *)
(* order: those to tell are a set.                                         *)
(***************************************************************************)
EXTENDS Naturals, FiniteSets

CONSTANTS
  Workers,       \* the threads that serve requests
  Users,
  Members,       \* the users that are active and have a role in the project
  Nobody,        \* no assignee
  MaxRequests,   \* bound: requests served in all
  MaxWindows     \* bound: how often the time of a duplicate runs out

Bodies == {m \in SUBSET Users : Cardinality(m) \in {0, 2}}   \* whom a comment mentions
Muted == {"bug_commented", "mention_in_comment"}   \* events that users set preferences for

NotificationEvent == {"bug_assigned", "bug_resolved", "bug_status_changed", "bug_commented",
                      "mention_in_comment"}

VARIABLES
  watchers,     \* table bug_watchers
  assignee,     \* column assigned_to_id of the bug
  comment,      \* whom its comment mentions
  preference,   \* table user_notification_preferences: rows <<user, event, in_app>>
  rows,         \* table notifications: rows [user, event, window, by, request]
  window,       \* rows of this window are not older than DEDUPE_WINDOW_SECONDS
  req,          \* what each worker is doing
  requests,     \* requests begun so far
  raced         \* history: <<user, event>> that two handlers were notifying at once

vars == <<watchers, assignee, comment, preference, rows, window, req, requests, raced>>

Idle == [op |-> "none", actor |-> Nobody, event |-> "bug_commented", todo |-> {}, pending |-> {},
         defaults |-> {}, mentioned |-> {}, before |-> Nobody, held |-> Nobody,
         owed |-> {}, no |-> 0]

Does(w, op) == req[w].op = op
Becomes(w, r) == req' = [req EXCEPT ![w] = r]
Known(u, e) == \E p \in preference : p[1] = u /\ p[2] = e
Mutes(u, e) == <<u, e, FALSE>> \in preference
Fresh == {r \in rows : r.window = window}

TypeOK ==
  /\ watchers \subseteq Users /\ assignee \in Users \union {Nobody}
  /\ preference \subseteq Users \X NotificationEvent \X BOOLEAN
  /\ \A p, q \in preference : p[1] = q[1] /\ p[2] = q[2] => p = q
  /\ rows \subseteq [user : Users, event : NotificationEvent, window : 0 .. MaxWindows,
                     by : Users, request : 1 .. MaxRequests]
  /\ \A w \in Workers : req[w].todo \subseteq Users

\* on_bug_created has made its creator watch it.
Init ==
  /\ \E u \in Members : watchers = {u}
  /\ assignee = Nobody /\ comment = {} /\ preference = {} /\ rows = {}
  /\ window = 0
  /\ req = [w \in Workers |-> Idle] /\ requests = 0
  /\ raced = {}

Serve(w, r) ==
  /\ Does(w, "none") /\ requests < MaxRequests
  /\ requests' = requests + 1
  /\ Becomes(w, [r EXCEPT !.no = requests + 1])

\* Who is to be told of it: the watchers there are, until they leave or set a preference.
Owed(actor, event) == {u \in watchers \ {actor} : ~Mutes(u, event)}

-----------------------------------------------------------------------------
(* The handlers, up to the commit of what they change.                     *)
\* mention_notify.py, _resolve_recipients
Recipients(mentions, actor) == (mentions \intersect Members) \ {actor}

\* add_comment
AddComment(w, actor, mentions) ==
  /\ Serve(w, [Idle EXCEPT !.op = "mention", !.actor = actor, !.event = "mention_in_comment",
                           !.todo = Recipients(mentions, actor),
                           !.mentioned = Recipients(mentions, actor),
                           !.owed = Owed(actor, "bug_commented")])
  /\ comment' = mentions
  /\ UNCHANGED <<watchers, assignee, preference, rows, window, raced>>

\* update_comment: only mentions that the body did not have; watchers are not told.
UpdateComment(w, actor, mentions) ==
  /\ mentions # comment
  /\ Serve(w, [Idle EXCEPT !.op = "edit", !.actor = actor, !.event = "mention_in_comment",
                           !.todo = Recipients(mentions \ comment, actor)])
  /\ comment' = mentions
  /\ UNCHANGED <<watchers, assignee, preference, rows, window, raced>>

\* change_bug_status
ChangeStatus(w, actor, event) ==
  /\ event \in {"bug_resolved", "bug_status_changed"}
  /\ Serve(w, [Idle EXCEPT !.op = "recipients", !.actor = actor, !.event = event,
                           !.owed = Owed(actor, event)])
  /\ UNCHANGED <<watchers, assignee, comment, preference, rows, window, raced>>

\* update_bug with another assignee
Assign(w, actor, to) ==
  /\ to # assignee
  /\ Serve(w, [Idle EXCEPT !.op = IF to = Nobody THEN "assignee" ELSE "watch assignee",
                           !.actor = actor, !.event = "bug_assigned", !.before = assignee])
  /\ assignee' = to
  /\ UNCHANGED <<watchers, comment, preference, rows, window, raced>>

-----------------------------------------------------------------------------
(* bug_watchers.py                                                         *)
Watcher(w) == IF req[w].event = "bug_assigned" THEN assignee ELSE req[w].actor
Watched(w) == IF req[w].event = "bug_assigned" THEN "assignee" ELSE "recipients"

\* auto_watch looks for the row,
LookForWatcher(w) ==
  /\ Does(w, "watch") \/ Does(w, "watch assignee")
  /\ IF Watcher(w) \in watchers \union {Nobody} THEN Becomes(w, [req[w] EXCEPT !.op = Watched(w)])
     ELSE Becomes(w, [req[w] EXCEPT !.op = "insert watcher", !.todo = {Watcher(w)}])
  /\ UNCHANGED <<watchers, assignee, comment, preference, rows, window, requests, raced>>

\* and the primary key refuses one that was inserted since, with an error.
InsertWatcher(w) ==
  /\ Does(w, "insert watcher")
  /\ IF req[w].todo \subseteq watchers THEN Becomes(w, Idle) /\ UNCHANGED watchers
     ELSE /\ watchers' = watchers \union req[w].todo
          /\ Becomes(w, [req[w] EXCEPT !.op = Watched(w), !.todo = {}])
  /\ UNCHANGED <<assignee, comment, preference, rows, window, requests, raced>>

\* watch_bug and unwatch_bug
Watch(w, u) ==
  /\ Does(w, "none")
  /\ u \notin watchers /\ requests < MaxRequests
  /\ watchers' = watchers \union {u} /\ requests' = requests + 1
  /\ UNCHANGED <<assignee, comment, preference, rows, window, req, raced>>

Unwatch(w, u) ==
  /\ Does(w, "none")
  /\ u \in watchers /\ requests < MaxRequests
  /\ watchers' = watchers \ {u} /\ requests' = requests + 1
  /\ req' = [v \in Workers |-> [req[v] EXCEPT !.owed = @ \ {u}]]
  /\ UNCHANGED <<assignee, comment, preference, rows, window, raced>>

-----------------------------------------------------------------------------
(* bug_events.py: who is told.                                             *)
\* on_bug_comment_added and on_bug_status_changed
ReadWatchers(w) ==
  /\ Does(w, "recipients")
  /\ Becomes(w, [req[w] EXCEPT !.op = "notify",
                   !.event = IF @ = "mention_in_comment" THEN "bug_commented" ELSE @,
                   !.todo = watchers \ ({req[w].actor} \union req[w].mentioned)])
  /\ UNCHANGED <<watchers, assignee, comment, preference, rows, window, requests, raced>>

\* on_bug_assigned reads the bug again, and tells whom it finds there.
ReadAssignee(w) ==
  /\ Does(w, "assignee")
  /\ Becomes(w, [req[w] EXCEPT !.op = "notify",
                   !.todo = {assignee} \ {Nobody, req[w].before, req[w].actor}])
  /\ UNCHANGED <<watchers, assignee, comment, preference, rows, window, requests, raced>>

-----------------------------------------------------------------------------
(* notifications.py                                                        *)
Notifying(w) == req[w].op \in {"mention", "edit", "notify"} /\ req[w].held = Nobody

\* Mutant: a duplicate is a row of the same user and link, whatever its event.
AnyRecentRow(w, u) == \E r \in Fresh \union req[w].pending : r.user = u

\* _recent_duplicate_exists
RecentDuplicate(w, u) ==
  \E r \in Fresh \union req[w].pending : r.user = u /\ r.event = req[w].event

\* Another handler has inserted the preference and not committed it.
HeldBack(w, u) == \E v \in Workers \ {w} : <<u, req[w].event>> \in req[v].defaults

\* notify: preferences are created when they are first needed, with in_app on.
Notify(w, u) ==
  LET r == req[w]
      e == r.event
      rival == \E v \in Workers \ {w} : \E p \in req[v].pending : p.user = u /\ p.event = e
      new == ~Known(u, e) /\ <<u, e>> \notin r.defaults
  IN
  /\ Notifying(w) /\ u \in r.todo
  /\ IF RecentDuplicate(w, u) THEN Becomes(w, [r EXCEPT !.todo = @ \ {u}]) /\ UNCHANGED raced
     ELSE IF new /\ HeldBack(w, u)
     THEN Becomes(w, [r EXCEPT !.held = u]) /\ UNCHANGED raced
     ELSE /\ Becomes(w, [r EXCEPT !.todo = @ \ {u},
                          !.defaults = IF new THEN @ \union {<<u, e>>} ELSE @,
                          !.pending = IF Mutes(u, e) THEN @
                                      ELSE @ \union {[user |-> u, event |-> e, window |-> window,
                                                      by |-> r.actor, request |-> r.no]}])
          /\ raced' = IF rival THEN raced \union {<<u, e>>} ELSE raced
  /\ UNCHANGED <<watchers, assignee, comment, preference, rows, window, requests>>

\* Two inserts that wait for each other, with users in another order: PostgreSQL refuses one.
Deadlocked(w) ==
  \E v \in Workers \ {w} : /\ <<req[w].held, req[w].event>> \in req[v].defaults
                          /\ <<req[v].held, req[v].event>> \in req[w].defaults

\* The insert that waited is refused, as the other one was committed: the handler answers
\* with an error, and its rows are gone, although they were pushed.
Refused(w) ==
  /\ req[w].held # Nobody
  /\ Known(req[w].held, req[w].event) \/ Deadlocked(w)
  /\ Becomes(w, Idle)
  /\ UNCHANGED <<watchers, assignee, comment, preference, rows, window, requests, raced>>

\* The other one was rolled back: the insert that waited goes on.  Nobody can have made a
\* row of that user and event meanwhile, so that Notify finds what it had found.
Released(w) ==
  LET u == req[w].held IN
  /\ u # Nobody /\ ~Known(u, req[w].event) /\ ~HeldBack(w, u)
  /\ Becomes(w, [req[w] EXCEPT !.held = Nobody])
  /\ UNCHANGED <<watchers, assignee, comment, preference, rows, window, requests, raced>>

Commit(w) ==
  LET r == req[w] IN
  /\ Notifying(w) /\ r.todo = {}
  /\ rows' = rows \union r.pending
  /\ preference' = preference \union {<<d[1], d[2], TRUE>> : d \in r.defaults}
  /\ Becomes(w, [r EXCEPT !.op = IF @ = "mention" THEN "watch" ELSE "answered",
                          !.pending = {}, !.defaults = {}])
  /\ UNCHANGED <<watchers, assignee, comment, window, requests, raced>>

Answer(w) ==
  /\ Does(w, "answered")
  /\ Becomes(w, Idle)
  /\ UNCHANGED <<watchers, assignee, comment, preference, rows, window, requests, raced>>

\* set_preference, in_app turned off or on again
SetPreference(w, u, e) ==
  /\ Does(w, "none") /\ requests < MaxRequests
  /\ \A v \in Workers : <<u, e>> \notin req[v].defaults
  /\ preference' = {p \in preference : p[1] # u \/ p[2] # e} \union {<<u, e, Mutes(u, e)>>}
  /\ requests' = requests + 1
  /\ req' = [v \in Workers |-> [req[v] EXCEPT !.owed = @ \ {u}]]
  /\ UNCHANGED <<watchers, assignee, comment, rows, window, raced>>

\* Time passes; a request takes less of it than the window.
WindowEnds ==
  /\ window < MaxWindows /\ \A w \in Workers : Does(w, "none")
  /\ window' = window + 1
  /\ UNCHANGED <<watchers, assignee, comment, preference, rows, req, requests, raced>>

Next ==
  \/ \E w \in Workers :
       \/ \E a \in Members :
            \/ \E m \in Bodies : AddComment(w, a, m) \/ UpdateComment(w, a, m)
            \/ \E e \in NotificationEvent : ChangeStatus(w, a, e)
            \/ \E u \in Members \union {Nobody} : Assign(w, a, u)
            \/ Watch(w, a) \/ Unwatch(w, a)
       \/ \E u \in Members : \E e \in Muted : SetPreference(w, u, e)
       \/ \E u \in Users : Notify(w, u)
       \/ LookForWatcher(w) \/ InsertWatcher(w) \/ ReadWatchers(w) \/ ReadAssignee(w)
       \/ Refused(w) \/ Released(w) \/ Commit(w) \/ Answer(w)
  \/ WindowEnds

Spec == Init /\ [][Next]_vars

-----------------------------------------------------------------------------
\* Once a comment or a change of status is answered, who has watched the bug all the time
\* has a recent row of that event, or of a mention in the comment.  A user who mutes
\* mentions and is mentioned hears of neither.
WatchersTold ==
  \A w \in Workers : Does(w, "answered") =>
    \A u \in req[w].owed :
      \/ \E r \in Fresh : r.user = u /\ r.event = req[w].event
      \/ u \in req[w].mentioned
           /\ (Mutes(u, "mention_in_comment")
                 \/ \E r \in Fresh : r.user = u /\ r.event = "mention_in_comment")

\* Within the window nobody has two rows of one event, unless two handlers were at it.
ToldOnce ==
  \A r, s \in rows :
    r.user = s.user /\ r.event = s.event /\ r.window = s.window /\ r # s => <<r.user, r.event>> \in raced

\* Nobody is told of what they do themselves.
ActorsSpared == \A r \in rows : r.user # r.by

NotificationsAgree == TypeOK /\ WatchersTold /\ ToldOnce /\ ActorsSpared
=============================================================================
