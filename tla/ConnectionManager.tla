-------------------------- MODULE ConnectionManager --------------------------
(***************************************************************************)
(* The WebSocket registry of one worker process (realtime.py) and the      *)
(* endpoint that feeds it (routers/ws.py).                                 *)
(*                                                                         *)
(* All of it runs on one event loop.  ConnectionManager._lock is never     *)
(* held across an await, so each locked block is one step.  A broadcast    *)
(* copies the subscribers of its topic under the lock and sends to them    *)
(* one by one without it; other broadcasts, subscriptions and departures   *)
(* happen between two sends.                                               *)
(***************************************************************************)
CONSTANTS
  Sockets,
  Topics,
  Casts  \* calls of deliver_local, each made at most once

VARIABLES
  byTopic,   \* _by_topic
  wsTopics,  \* _ws_topics
  link,      \* link[ws]: TRUE while the client is connected
  endpoint,  \* endpoint[ws]: TRUE until ws_endpoint has run its finally block
  told,      \* told[ws]: topics the client was told it is subscribed to
  acks,      \* acks[ws]: subscriptions whose ack is on its way
  cast,      \* cast[c]: broadcast c
  got,       \* got[c]: sockets that were sent c
  owed       \* owed[c]: clients that believed they were subscribed at its start

vars == <<byTopic, wsTopics, link, endpoint, told, acks, cast, got, owed>>

NotStarted == [pc |-> "idle", left |-> {}, dead |-> {}]

TypeOK ==
  /\ byTopic \in [Topics -> SUBSET Sockets]
  /\ wsTopics \in [Sockets -> SUBSET Topics]
  /\ link \in [Sockets -> BOOLEAN]
  /\ endpoint \in [Sockets -> BOOLEAN]
  /\ told \in [Sockets -> SUBSET Topics]
  /\ acks \in [Sockets -> SUBSET Topics]
  /\ cast \in [Casts -> [pc : {"idle", "sending", "done"},
                         left : SUBSET Sockets,     \* not sent to yet
                         dead : SUBSET Sockets]]    \* whose send raised
  /\ got \in [Casts -> SUBSET Sockets]
  /\ owed \in [Casts -> SUBSET Sockets]

Init ==
  /\ byTopic = [t \in Topics |-> {}]
  /\ wsTopics = [ws \in Sockets |-> {}]
  /\ link = [ws \in Sockets |-> TRUE]
  /\ endpoint = [ws \in Sockets |-> TRUE]
  /\ told = [ws \in Sockets |-> {}]
  /\ acks = [ws \in Sockets |-> {}]
  /\ cast = [c \in Casts |-> NotStarted]
  /\ got = [c \in Casts |-> {}]
  /\ owed = [c \in Casts |-> {}]

-----------------------------------------------------------------------------
\* Mutant: only the topic index is cleaned.
DiscardFromTopics(W) ==
  /\ byTopic' = [t \in Topics |-> byTopic[t] \ {ws \in W : t \in wsTopics[ws]}]
  /\ UNCHANGED wsTopics

\* _discard_locked for every topic that _ws_topics lists for a socket of W
DiscardAll(W) ==
  /\ byTopic' = [t \in Topics |-> byTopic[t] \ {ws \in W : t \in wsTopics[ws]}]
  /\ wsTopics' = [ws \in Sockets |-> IF ws \in W THEN {} ELSE wsTopics[ws]]

\* A subscribe message of an authorised topic; its ack follows.
Subscribe(ws, t) ==
  /\ endpoint[ws]
  /\ acks[ws] = {}
  /\ t \notin told[ws]
  /\ byTopic' = [byTopic EXCEPT ![t] = @ \cup {ws}]
  /\ wsTopics' = [wsTopics EXCEPT ![ws] = @ \cup {t}]
  /\ acks' = [acks EXCEPT ![ws] = {t}]
  /\ UNCHANGED <<link, endpoint, told, cast, got, owed>>

\* The "subscribed" ack arrives.
Subscribed(ws) ==
  /\ endpoint[ws] /\ link[ws]
  /\ acks[ws] # {}
  /\ told' = [told EXCEPT ![ws] = @ \cup acks[ws]]
  /\ acks' = [acks EXCEPT ![ws] = {}]
  /\ UNCHANGED <<byTopic, wsTopics, link, endpoint, cast, got, owed>>

\* An unsubscribe message; the client stops expecting the topic.
Unsubscribe(ws, t) ==
  /\ endpoint[ws]
  /\ acks[ws] = {}
  /\ t \in told[ws]
  /\ byTopic' = [byTopic EXCEPT ![t] = @ \ {ws}]
  /\ wsTopics' = [wsTopics EXCEPT ![ws] = @ \ {t}]
  /\ told' = [told EXCEPT ![ws] = @ \ {t}]
  /\ UNCHANGED <<link, endpoint, acks, cast, got, owed>>

\* The client leaves or its connection breaks.
Leave(ws) ==
  /\ link[ws]
  /\ link' = [link EXCEPT ![ws] = FALSE]
  /\ told' = [told EXCEPT ![ws] = {}]
  /\ UNCHANGED <<byTopic, wsTopics, endpoint, acks, cast, got, owed>>

\* Mutant: the endpoint trusts the broadcasts to drop a dead socket.
EndpointLeavesRegistry(ws) ==
  /\ endpoint[ws]
  /\ endpoint' = [endpoint EXCEPT ![ws] = FALSE]
  /\ link' = [link EXCEPT ![ws] = FALSE]
  /\ told' = [told EXCEPT ![ws] = {}]
  /\ acks' = [acks EXCEPT ![ws] = {}]
  /\ UNCHANGED <<byTopic, wsTopics, cast, got, owed>>

\* A receive or an ack of ws_endpoint raises, as the client has gone, or handling its
\* message does, while it is there; finally: unsubscribe_all.  The server closes the
\* connection of an endpoint that is over, which is part of the step.
EndpointEnds(ws) ==
  /\ endpoint[ws]
  /\ endpoint' = [endpoint EXCEPT ![ws] = FALSE]
  /\ link' = [link EXCEPT ![ws] = FALSE]
  /\ told' = [told EXCEPT ![ws] = {}]
  /\ acks' = [acks EXCEPT ![ws] = {}]
  /\ DiscardAll({ws})
  /\ UNCHANGED <<cast, got, owed>>

\* deliver_local copies the subscribers.
Broadcast(c, t) ==
  /\ cast[c] = NotStarted
  /\ cast' = [cast EXCEPT ![c] = [pc |-> "sending", left |-> byTopic[t], dead |-> {}]]
  /\ owed' = [owed EXCEPT ![c] = {ws \in Sockets : t \in told[ws]}]
  /\ UNCHANGED <<byTopic, wsTopics, link, endpoint, told, acks, got>>

\* Mutant: the first failed send ends the loop.
SendStopsAtDead(c, ws) ==
  /\ cast[c].pc = "sending"
  /\ ws \in cast[c].left
  /\ cast' = [cast EXCEPT ![c] =
       [pc |-> "sending", left |-> IF link[ws] THEN @.left \ {ws} ELSE {},
        dead |-> IF link[ws] THEN @.dead ELSE @.dead \cup {ws}]]
  /\ got' = [got EXCEPT ![c] = IF link[ws] THEN @ \cup {ws} ELSE @]
  /\ UNCHANGED <<byTopic, wsTopics, link, endpoint, told, acks, owed>>

\* One send_json.  To a client that has gone it raises.
Send(c, ws) ==
  /\ cast[c].pc = "sending"
  /\ ws \in cast[c].left
  /\ cast' = [cast EXCEPT ![c] =
       [pc |-> "sending", left |-> @.left \ {ws},
        dead |-> IF link[ws] THEN @.dead ELSE @.dead \cup {ws}]]
  /\ got' = [got EXCEPT ![c] = IF link[ws] THEN @ \cup {ws} ELSE @]
  /\ UNCHANGED <<byTopic, wsTopics, link, endpoint, told, acks, owed>>

\* Mutant: one dead socket and every socket of its topics is dropped.
DropsNeighbours(c) ==
  /\ cast[c].pc = "sending"
  /\ cast[c].left = {}
  /\ cast' = [cast EXCEPT ![c] = [pc |-> "done", left |-> {}, dead |-> {}]]
  /\ DiscardAll({ws \in Sockets : \E d \in cast[c].dead :
                                    wsTopics[ws] \cap wsTopics[d] # {}})
  /\ UNCHANGED <<link, endpoint, told, acks, got, owed>>

\* The loop is over: the sockets that raised are dropped from every topic.
DropDead(c) ==
  /\ cast[c].pc = "sending"
  /\ cast[c].left = {}
  /\ cast' = [cast EXCEPT ![c] = [pc |-> "done", left |-> {}, dead |-> {}]]
  /\ DiscardAll(cast[c].dead)
  /\ UNCHANGED <<link, endpoint, told, acks, got, owed>>

-----------------------------------------------------------------------------
Client(ws) ==
  \/ \E t \in Topics : Subscribe(ws, t) \/ Unsubscribe(ws, t)
  \/ Subscribed(ws)
  \/ Leave(ws)

Deliver(c) == DropDead(c) \/ \E ws \in Sockets : Send(c, ws)

Next ==
  \/ \E ws \in Sockets : Client(ws) \/ EndpointEnds(ws)
  \/ \E c \in Casts : Deliver(c) \/ \E t \in Topics : Broadcast(c, t)

Spec == Init /\ [][Next]_vars
-----------------------------------------------------------------------------
(* Properties.                                                             *)

\* The two indexes are changed by subscribe, unsubscribe, unsubscribe_all and
\* every broadcast that met a dead socket; they always mirror each other, so
\* what unsubscribe_all looks up in one is what it must remove from the other.
IndexesMirror ==
  \A ws \in Sockets, t \in Topics : ws \in byTopic[t] <=> t \in wsTopics[ws]

\* Once its endpoint has ended, nothing puts a socket back into the registry.
GoneIsForgotten ==
  \A ws \in Sockets : ~endpoint[ws] => \A t \in Topics : ws \notin byTopic[t]

\* A client that was told it is subscribed, and is still there, is registered:
\* no broadcast that found some other socket dead takes it out.
ToldIsRegistered ==
  \A ws \in Sockets : \A t \in told[ws] : ws \in byTopic[t]

\* A finished broadcast was sent to every client that was told of its
\* subscription before the broadcast began, unless that client has gone.
OwedIsSent ==
  \A c \in Casts : cast[c].pc = "done" =>
    \A ws \in owed[c] : ws \in got[c] \/ ~link[ws]
=============================================================================
