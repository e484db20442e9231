----------------------------- MODULE LogStream -----------------------------
(***************************************************************************)
(* What the log flusher promises: every line it accepts leaves it once, in *)
(* a batch handed to the broadcast or lost with it, and no line leaves it  *)
(* twice or comes back.                                                    *)
(***************************************************************************)
CONSTANT
  Lines  \* log lines, each posted at most once

VARIABLES
  accepted,  \* lines the flusher was given
  waiting,   \* those it still holds
  delivered  \* those handed to the broadcast

vars == <<accepted, waiting, delivered>>

Init ==
  /\ accepted = {}
  /\ waiting = {}
  /\ delivered = {}

Accept(l) ==
  /\ l \notin accepted
  /\ accepted' = accepted \cup {l}
  /\ waiting' = waiting \cup {l}
  /\ UNCHANGED delivered

\* A hand-off may fail, and loses its batch.
HandOff(S) ==
  /\ S # {}
  /\ S \subseteq waiting
  /\ waiting' = waiting \ S
  /\ \/ delivered' = delivered \cup S
     \/ UNCHANGED delivered
  /\ UNCHANGED accepted

Next ==
  \/ \E l \in Lines : Accept(l)
  \/ \E S \in SUBSET Lines : HandOff(S)

Spec == Init /\ [][Next]_vars

\* No line waits for ever.
FairSpec ==
  Spec /\ \A l \in Lines : WF_vars(\E S \in SUBSET Lines : l \in S /\ HandOff(S))
=============================================================================
