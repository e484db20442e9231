------------------------------ MODULE TopicSocket ------------------------------
(***************************************************************************)
(* The socket of a live page (frontend/src/hooks/useTopicSocket.js).       *)
(*                                                                         *)
(* Each run of the hook's effect has a socket, a timer to reconnect and a  *)
(* watchdog of its own, in variables that its callbacks close over; the    *)
(* runs share topicsRef and the state connected.  The cleanup of a run     *)
(* only asks its socket to close: its callbacks come later, when the next  *)
(* run has begun.                                                          *)
(***************************************************************************)
EXTENDS Naturals

CONSTANTS
  Topics,    \* the topics of a page, one list after the other
  NoTopics,  \* what a socket that has not opened has subscribed to
  MaxRuns    \* bound: runs of the effect

Runs == 1 .. MaxRuns

VARIABLES
  run,         \* runs so far
  live,        \* the run that is not over, or 0
  socket,      \* of each run: "none", or the readyState of its last socket
  closeOnOpen, \* the listener of closeSocket waits for the socket to open
  timer,       \* reconnectTimer is running
  watchdog,    \* heartbeatWatchdog is running
  connected,   \* the state of the hook
  topicsRef,   \* the topics of the last render
  asked,       \* the topics each socket has subscribed to
  crossed      \* history: a socket of an earlier run has set connected last

vars == <<run, live, socket, closeOnOpen, timer, watchdog, connected, topicsRef, asked, crossed>>

TypeOK ==
  /\ run \in 0 .. MaxRuns /\ live \in 0 .. run
  /\ socket \in [Runs -> {"none", "connecting", "open", "closing", "closed"}]
  /\ closeOnOpen \in [Runs -> BOOLEAN]
  /\ timer \in [Runs -> BOOLEAN] /\ watchdog \in [Runs -> BOOLEAN]
  /\ connected \in BOOLEAN /\ topicsRef \in Topics
  /\ asked \in [Runs -> Topics \union {NoTopics}]

Init ==
  /\ run = 0 /\ live = 0
  /\ socket = [e \in Runs |-> "none"]
  /\ closeOnOpen = [e \in Runs |-> FALSE]
  /\ timer = [e \in Runs |-> FALSE] /\ watchdog = [e \in Runs |-> FALSE]
  /\ connected = FALSE /\ topicsRef \in Topics
  /\ asked = [e \in Runs |-> NoTopics] /\ crossed = FALSE

\* The cleanup of the run that is over; nothing, if there is none.
Cleared(flags) == [e \in Runs |-> flags[e] /\ e # live]
Cleanup ==
  /\ timer' = Cleared(timer) /\ watchdog' = Cleared(watchdog)
  /\ closeOnOpen' = [e \in Runs |-> closeOnOpen[e] \/ (e = live /\ socket[e] = "connecting")]

\* closeSocket, of a socket that may be on its way.
Closing(state) == IF state = "open" THEN "closing" ELSE state

\* The page is shown, or its topics, its token or enabled change: the effect runs again.
Run(topics, enabled) ==
  /\ run < MaxRuns
  /\ run' = run + 1 /\ live' = (IF enabled THEN run + 1 ELSE 0)
  /\ Cleanup
  /\ socket' = [e \in Runs |-> IF e = run + 1 /\ enabled THEN "connecting"
                               ELSE IF e = live THEN Closing(socket[e]) ELSE socket[e]]
  /\ connected' = FALSE /\ crossed' = FALSE
  /\ topicsRef' = topics
  /\ UNCHANGED asked

\* The page goes.
Unmount ==
  /\ live # 0
  /\ live' = 0
  /\ Cleanup
  /\ socket' = [socket EXCEPT ![live] = Closing(@)]
  /\ connected' = FALSE /\ crossed' = FALSE
  /\ UNCHANGED <<run, topicsRef, asked>>

\* onOpen, and after it the listener that closes the socket.
Open(e) ==
  /\ socket[e] = "connecting"
  /\ connected' = TRUE /\ crossed' = (e # live)
  /\ watchdog' = [watchdog EXCEPT ![e] = TRUE]
  /\ asked' = [asked EXCEPT ![e] = topicsRef]
  /\ socket' = [socket EXCEPT ![e] = IF closeOnOpen[e] THEN "closing" ELSE "open"]
  /\ UNCHANGED <<run, live, closeOnOpen, timer, topicsRef>>

\* Mutant: the socket of a run that is over connects again.
ClosedAgain(e) ==
  /\ socket[e] \in {"connecting", "open", "closing"}
  /\ socket' = [socket EXCEPT ![e] = "closed"]
  /\ connected' = FALSE /\ crossed' = (e # live)
  /\ watchdog' = [watchdog EXCEPT ![e] = FALSE]
  /\ timer' = [timer EXCEPT ![e] = TRUE]
  /\ UNCHANGED <<run, live, closeOnOpen, topicsRef, asked>>

\* onClose: the server, the network or the hook has ended the connection, or it was
\* not made.
Closed(e) ==
  /\ socket[e] \in {"connecting", "open", "closing"}
  /\ socket' = [socket EXCEPT ![e] = "closed"]
  /\ connected' = FALSE /\ crossed' = (e # live)
  /\ watchdog' = [watchdog EXCEPT ![e] = FALSE]
  /\ timer' = [timer EXCEPT ![e] = (e = live)]
  /\ UNCHANGED <<run, live, closeOnOpen, topicsRef, asked>>

\* The delay of nextBackoff has passed: connect.
Reconnect(e) ==
  /\ timer[e]
  /\ timer' = [timer EXCEPT ![e] = FALSE]
  /\ IF e = live
       THEN /\ socket' = [socket EXCEPT ![e] = "connecting"]
            /\ asked' = [asked EXCEPT ![e] = NoTopics]
       ELSE UNCHANGED <<socket, asked>>
  /\ UNCHANGED <<run, live, closeOnOpen, watchdog, connected, topicsRef, crossed>>

\* A minute without a ping.  A ping arms the watchdog again, which runs already.
Expire(e) ==
  /\ watchdog[e]
  /\ watchdog' = [watchdog EXCEPT ![e] = FALSE]
  /\ socket' = [socket EXCEPT ![e] = Closing(@)]
  /\ UNCHANGED <<run, live, closeOnOpen, timer, connected, topicsRef, asked, crossed>>

Next ==
  \/ \E topics \in Topics, enabled \in BOOLEAN : Run(topics, enabled)
  \/ Unmount
  \/ \E e \in Runs : Open(e) \/ Closed(e) \/ Reconnect(e) \/ Expire(e)

Spec == Init /\ [][Next]_vars

-----------------------------------------------------------------------------
\* A page that is shown has a socket or a timer that will make one, never both, and
\* an open socket has subscribed to the topics of the page and has its watchdog.
KeepsTrying ==
  live # 0 =>
    /\ timer[live] <=> socket[live] = "closed"
    /\ socket[live] = "open" => watchdog[live] /\ asked[live] = topicsRef

\* A run that is over comes to nothing: its socket is closed or closes as soon as it
\* opens, and no timer makes another.
RunsEnd ==
  \A e \in Runs \ {live} :
    /\ ~timer[e] /\ socket[e] # "open"
    /\ socket[e] = "connecting" => closeOnOpen[e]

\* The indicator of the page tells whether its socket is up, unless the socket of an
\* earlier run, which opened or closed late, was the last to set it (README, section 4).
IndicatorIsRight ==
  ~crossed => (connected <=> live # 0 /\ socket[live] \in {"open", "closing"})

SocketsAgree == TypeOK /\ KeepsTrying /\ RunsEnd /\ IndicatorIsRight
=============================================================================
