------------------------------ MODULE Backplane ------------------------------
(***************************************************************************)
(* The fan-out of broadcasts between the processes of the API              *)
(* (realtime_backplane.py, the broadcast of realtime.py, the lifespan of   *)
(* main.py).  Each process subscribes to one pattern of channels in Redis, *)
(* publishes its broadcasts there, and has a consumer that hands what      *)
(* arrives, one message after the other, to the sockets of the process.    *)
(*                                                                         *)
(* Messages are numbered as broadcasts are scheduled.  What the sockets of *)
(* a process make of a message is left to ConnectionManager.               *)
(***************************************************************************)
EXTENDS Naturals, SequencesExt

CONSTANTS
  Processes,
  MaxMessages,   \* bound: broadcasts scheduled in all
  MaxLost        \* bound: connections lost and processes killed, in all

VARIABLES
  place,      \* lifespan of a process: "down", "serving" or "closing"
  consumer,   \* its consumer: "listening", "delivering", "failed" or "cancelled"
  since,      \* how many messages Redis had when it subscribed
  inbox,      \* what its subscription has received and its consumer has not
  shown,      \* what its sockets were shown from Redis since it subscribed
  local,      \* what its sockets were shown without Redis
  begun,      \* history: broadcasts it has begun since it subscribed, and not failed to publish
  tasks,      \* broadcasts it has scheduled and not begun
  log,        \* Redis: the messages published, in order
  made,       \* broadcasts scheduled so far
  lost        \* connections lost and processes killed so far

vars == <<place, consumer, since, inbox, shown, local, begun, tasks, log, made, lost>>

Messages == 1 .. MaxMessages

TypeOK ==
  /\ place \in [Processes -> {"down", "serving", "closing"}]
  /\ consumer \in [Processes -> {"listening", "delivering", "failed", "cancelled"}]
  /\ since \in [Processes -> 0 .. Len(log)]
  /\ \A p \in Processes : tasks[p] \subseteq Messages /\ local[p] \subseteq Messages
  /\ made \in 0 .. MaxMessages

Init ==
  /\ place = [p \in Processes |-> "down"]
  /\ consumer = [p \in Processes |-> "cancelled"]
  /\ since = [p \in Processes |-> 0]
  /\ inbox = [p \in Processes |-> <<>>]
  /\ shown = [p \in Processes |-> <<>>]
  /\ local = [p \in Processes |-> {}]
  /\ begun = [p \in Processes |-> {}]
  /\ tasks = [p \in Processes |-> {}]
  /\ log = <<>> /\ made = 0 /\ lost = 0

Subscribed(p) == consumer[p] \in {"listening", "delivering"}

\* A new subscription gets what is published from now on.
Subscribe(p) ==
  /\ consumer' = [consumer EXCEPT ![p] = "listening"]
  /\ since' = [since EXCEPT ![p] = Len(log)]
  /\ inbox' = [inbox EXCEPT ![p] = <<>>]
  /\ shown' = [shown EXCEPT ![p] = <<>>]
  /\ begun' = [begun EXCEPT ![p] = {}]

\* The lifespan serves no request before start is done and the backplane is set.
Start(p) ==
  /\ place[p] = "down"
  /\ place' = [place EXCEPT ![p] = "serving"]
  /\ Subscribe(p)
  /\ UNCHANGED <<local, tasks, log, made, lost>>

\* _schedule, from a handler, or from a timer of the log flusher, which runs on
\* while the lifespan closes.
Schedule(p) ==
  /\ place[p] # "down" /\ made < MaxMessages
  /\ made' = made + 1
  /\ tasks' = [tasks EXCEPT ![p] = @ \cup {made + 1}]
  /\ UNCHANGED <<place, consumer, since, inbox, shown, local, begun, log, lost>>

\* publish.  Tasks use a connection each, so that Redis has their messages in any
\* order; one that fails is not tried again here, but the client of Redis may, so
\* that it is carried out twice.
Publish(p, m) ==
  \/ UNCHANGED <<inbox, log, begun>>
  \/ \E times \in {<<m>>, <<m, m>>} :
       /\ log' = log \o times
       /\ inbox' = [q \in Processes |-> IF Subscribed(q) THEN inbox[q] \o times ELSE inbox[q]]
       /\ begun' = [begun EXCEPT ![p] = @ \cup {m}]

\* broadcast: to Redis, or to the own sockets once the lifespan has unset the backplane.
Broadcast(p, m) ==
  /\ m \in tasks[p]
  /\ tasks' = [tasks EXCEPT ![p] = @ \ {m}]
  /\ IF place[p] = "serving"
       THEN Publish(p, m) /\ UNCHANGED local
       ELSE /\ local' = [local EXCEPT ![p] = @ \cup {m}]
            /\ begun' = [begun EXCEPT ![p] = @ \cup {m}]
            /\ UNCHANGED <<inbox, log>>
  /\ UNCHANGED <<place, consumer, since, shown, made, lost>>

\* _consume takes a message, and takes no other before its delivery is over.
Take(p) ==
  /\ consumer[p] = "listening" /\ inbox[p] # <<>>
  /\ consumer' = [consumer EXCEPT ![p] = "delivering"]
  /\ UNCHANGED <<place, since, inbox, shown, local, begun, tasks, log, made, lost>>

\* The delivery is over, or has failed, which is logged.
Delivered(p) ==
  /\ consumer[p] = "delivering"
  /\ consumer' = [consumer EXCEPT ![p] = "listening"]
  /\ shown' = [shown EXCEPT ![p] = Append(@, Head(inbox[p]))]
  /\ inbox' = [inbox EXCEPT ![p] = Tail(@)]
  /\ UNCHANGED <<place, since, local, begun, tasks, log, made, lost>>

\* The connection of a subscription is lost, which listen finds out when it is
\* asked for the next message: it subscribes again, or raises, and the consumer
\* ends, while the backplane stays enabled.
Disconnect(p) ==
  /\ place[p] = "serving" /\ consumer[p] = "listening" /\ lost < MaxLost
  /\ lost' = lost + 1
  /\ \/ Subscribe(p)
     \/ consumer' = [consumer EXCEPT ![p] = "failed"] /\ UNCHANGED <<since, inbox, shown, begun>>
  /\ UNCHANGED <<place, local, tasks, log, made>>

\* Mutant: the backplane is unset only after it was stopped.
StopsWhileSet(p) ==
  /\ place[p] = "serving" /\ Subscribed(p)
  /\ consumer' = [consumer EXCEPT ![p] = "cancelled"]
  /\ UNCHANGED <<place, since, inbox, shown, local, begun, tasks, log, made, lost>>

\* The end of the lifespan: the backplane is unset and its consumer cancelled, in the
\* middle of a delivery if it is in one; the loop runs on while the connections are
\* closed.
Stop(p) ==
  /\ place[p] = "serving"
  /\ place' = [place EXCEPT ![p] = "closing"]
  /\ consumer' = [consumer EXCEPT ![p] = IF Subscribed(p) THEN "cancelled" ELSE @]
  /\ UNCHANGED <<since, inbox, shown, local, begun, tasks, log, made, lost>>

\* The process ends, after its lifespan or at any time.
End(p) ==
  /\ place[p] # "down"
  /\ IF place[p] = "closing"
       THEN UNCHANGED lost ELSE lost < MaxLost /\ lost' = lost + 1
  /\ place' = [place EXCEPT ![p] = "down"]
  /\ consumer' = [consumer EXCEPT ![p] = "cancelled"]
  /\ since' = [since EXCEPT ![p] = 0]
  /\ inbox' = [inbox EXCEPT ![p] = <<>>]
  /\ shown' = [shown EXCEPT ![p] = <<>>]
  /\ local' = [local EXCEPT ![p] = {}]
  /\ begun' = [begun EXCEPT ![p] = {}]
  /\ tasks' = [tasks EXCEPT ![p] = {}]
  /\ UNCHANGED <<log, made>>

Next ==
  \E p \in Processes :
    \/ Start(p) \/ Schedule(p) \/ Take(p) \/ Delivered(p)
    \/ Disconnect(p) \/ Stop(p) \/ End(p)
    \/ \E m \in tasks[p] : Broadcast(p, m)

Spec == Init /\ [][Next]_vars

-----------------------------------------------------------------------------
\* What the sockets of a process were shown from Redis, and the consumer is still to
\* show them, is all that Redis got since the process subscribed, in that order:
\* processes that are there see the same messages in the same order.
NothingSkipped ==
  \A p \in Processes :
    /\ IsPrefix(shown[p], SubSeq(log, since[p] + 1, Len(log)))
    /\ Subscribed(p) => shown[p] \o inbox[p] = SubSeq(log, since[p] + 1, Len(log))

\* What a process broadcasts reaches its own sockets too, also while it closes, unless
\* its consumer had failed (README, section 4) or is cancelled with the message unread.
OwnServed ==
  \A p \in Processes : place[p] # "down" /\ consumer[p] # "failed" =>
    begun[p] \subseteq local[p] \cup ToSet(shown[p] \o inbox[p])

\* What is shown without Redis is shown in one process only, and once.
OneWay == \A p \in Processes : local[p] \cap ToSet(log) = {}

BackplaneAgrees == TypeOK /\ NothingSkipped /\ OwnServed /\ OneWay
=============================================================================
