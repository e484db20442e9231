------------------------- MODULE MCConnectionManager -------------------------
(* The registry of one process, the fan-out between two, and the socket of a  *)
(* page: each behaviour is one of them, and the others stay as they start.    *)
EXTENDS ConnectionManager, Naturals, TLC

CONSTANTS Processes, MaxMessages, MaxLost, NoTopics, MaxRuns

ASSUME BoundsAssumption == MaxMessages \in Nat /\ MaxRuns \in Nat

VARIABLES part,
  place, consumer, since, inbox, shown, local, begun, tasks, log, made, lost,
  run, live, socket, closeOnOpen, timer, watchdog, connected, topicsRef, asked, crossed

backplaneVars == <<place, consumer, since, inbox, shown, local, begun, tasks, log, made, lost>>
pageVars ==
  <<run, live, socket, closeOnOpen, timer, watchdog, connected, topicsRef, asked, crossed>>

B == INSTANCE Backplane
P == INSTANCE TopicSocket

MCInit == part \in {"registry", "backplane", "page"} /\ Init /\ B!Init /\ P!Init

RegistryStep == part = "registry" /\ Next /\ UNCHANGED <<part, backplaneVars, pageVars>>
BackplaneStep == part = "backplane" /\ B!Next /\ UNCHANGED <<part, vars, pageVars>>
PageStep == part = "page" /\ P!Next /\ UNCHANGED <<part, vars, backplaneVars>>
MCNext == RegistryStep \/ BackplaneStep \/ PageStep

MCSpec == MCInit /\ [][MCNext]_<<part, vars, backplaneVars, pageVars>>

\* Sockets, topics, broadcasts and processes have no order.
Symmetry ==
  UNION {Permutations(s) : s \in {Sockets, Topics, Casts, Processes}}

-----------------------------------------------------------------------------
\* Processes that stay subscribed show the same messages in the same order, and none
\* misses its own; a page keeps one socket going, for its topics, and shows whether it is up.
LiveUpdatesHold == B!BackplaneAgrees /\ P!SocketsAgree
=============================================================================
