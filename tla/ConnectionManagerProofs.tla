----------------------- MODULE ConnectionManagerProofs -----------------------
(***************************************************************************)
(* Theorems about ConnectionManager (its indexes mirror each other, a      *)
(* socket that has gone is forgotten, and a client that was told it is     *)
(* subscribed gets every broadcast) and about the fan-out of Backplane and *)
(* the pages of TopicSocket, which MCConnectionManager puts next to it.    *)
(***************************************************************************)
EXTENDS MCConnectionManager, SequenceTheorems, TLAPS

\* A socket is dropped only after its link broke: the sockets a broadcast
\* holds dead have no link, and a link that is up has its endpoint.
DeadAreGone ==
  /\ \A ws \in Sockets : link[ws] => endpoint[ws]
  /\ \A c \in Casts : cast[c].pc # "idle" => \A ws \in cast[c].dead : ~link[ws]

\* Clients that are up are registered for what they were told and for what they
\* are about to be told.
UpIsRegistered ==
  \A ws \in Sockets :
    /\ told[ws] # {} => link[ws]
    /\ told[ws] \subseteq wsTopics[ws]
    /\ link[ws] => acks[ws] \subseteq wsTopics[ws]

\* Whom a broadcast owes its message, and who is still there, has got it or is
\* still on its list.
OwedIsPending ==
  \A c \in Casts : \A ws \in owed[c] :
    /\ cast[c].pc # "idle"
    /\ link[ws] => ws \in got[c] \cup cast[c].left

Safe ==
  /\ TypeOK
  /\ IndexesMirror
  /\ GoneIsForgotten
  /\ DeadAreGone
  /\ UpIsRegistered
  /\ OwedIsPending
  /\ \A c \in Casts : cast[c].pc = "done" => cast[c].left = {}

-----------------------------------------------------------------------------
\* The locked block of unsubscribe_all and of a broadcast that met dead sockets.
LEMMA Discarding ==
  ASSUME TypeOK, IndexesMirror, NEW W \in SUBSET Sockets, DiscardAll(W)
  PROVE  /\ byTopic' \in [Topics -> SUBSET Sockets]
         /\ wsTopics' \in [Sockets -> SUBSET Topics]
         /\ IndexesMirror'
         /\ \A ws \in Sockets : wsTopics'[ws] = IF ws \in W THEN {} ELSE wsTopics[ws]
         /\ \A t \in Topics : byTopic'[t] = byTopic[t] \ W
BY DEF TypeOK, IndexesMirror, DiscardAll

LEMMA SafeInvariant == Spec => []Safe
<1>1. Init => Safe
  BY DEF Init, Safe, TypeOK, NotStarted, IndexesMirror, GoneIsForgotten, DeadAreGone,
         UpIsRegistered, OwedIsPending
<1>2. Safe /\ [Next]_vars => Safe'
  <2> SUFFICES ASSUME Safe, [Next]_vars PROVE Safe'
    OBVIOUS
  <2> USE DEF Safe
  <2>1. ASSUME NEW ws \in Sockets, NEW t \in Topics, Subscribe(ws, t) PROVE Safe'
    <3> USE <2>1 DEF Subscribe
    <3>1. TypeOK'
      BY DEF TypeOK
    <3>2. IndexesMirror'
      BY DEF TypeOK, IndexesMirror
    <3>3. GoneIsForgotten'
      BY DEF TypeOK, GoneIsForgotten
    <3>4. DeadAreGone' /\ OwedIsPending'
      BY DEF DeadAreGone, OwedIsPending
    <3>5. UpIsRegistered'
      BY DEF TypeOK, UpIsRegistered
    <3> QED
      BY <3>1, <3>2, <3>3, <3>4, <3>5
  <2>2. ASSUME NEW ws \in Sockets, Subscribed(ws) PROVE Safe'
    <3> USE <2>2 DEF Subscribed
    <3>1. TypeOK'
      BY DEF TypeOK
    <3>2. IndexesMirror' /\ GoneIsForgotten'
      BY DEF IndexesMirror, GoneIsForgotten
    <3>3. DeadAreGone' /\ OwedIsPending'
      BY DEF DeadAreGone, OwedIsPending
    <3>4. UpIsRegistered'
      BY DEF TypeOK, UpIsRegistered
    <3> QED
      BY <3>1, <3>2, <3>3, <3>4
  <2>3. ASSUME NEW ws \in Sockets, NEW t \in Topics, Unsubscribe(ws, t) PROVE Safe'
    <3> USE <2>3 DEF Unsubscribe
    <3>1. TypeOK'
      BY DEF TypeOK
    <3>2. IndexesMirror'
      BY DEF TypeOK, IndexesMirror
    <3>3. GoneIsForgotten'
      BY DEF TypeOK, GoneIsForgotten
    <3>4. DeadAreGone' /\ OwedIsPending'
      BY DEF DeadAreGone, OwedIsPending
    <3>5. UpIsRegistered'
      BY DEF TypeOK, UpIsRegistered
    <3> QED
      BY <3>1, <3>2, <3>3, <3>4, <3>5
  <2>4. ASSUME NEW ws \in Sockets, Leave(ws) PROVE Safe'
    <3> USE <2>4 DEF Leave
    <3>1. TypeOK'
      BY DEF TypeOK
    <3>2. IndexesMirror' /\ GoneIsForgotten'
      BY DEF IndexesMirror, GoneIsForgotten
    <3>3. DeadAreGone' /\ OwedIsPending'
      BY DEF TypeOK, DeadAreGone, OwedIsPending
    <3>4. UpIsRegistered'
      BY DEF TypeOK, UpIsRegistered
    <3> QED
      BY <3>1, <3>2, <3>3, <3>4
  <2>5. ASSUME NEW ws \in Sockets, EndpointEnds(ws) PROVE Safe'
    <3>1. /\ endpoint[ws]
          /\ endpoint' = [endpoint EXCEPT ![ws] = FALSE]
          /\ link' = [link EXCEPT ![ws] = FALSE]
          /\ told' = [told EXCEPT ![ws] = {}]
          /\ acks' = [acks EXCEPT ![ws] = {}]
          /\ DiscardAll({ws})
          /\ UNCHANGED <<cast, got, owed>>
      BY <2>5 DEF EndpointEnds
    <3>2. /\ byTopic' \in [Topics -> SUBSET Sockets]
          /\ wsTopics' \in [Sockets -> SUBSET Topics]
          /\ IndexesMirror'
          /\ \A v \in Sockets : wsTopics'[v] = IF v \in {ws} THEN {} ELSE wsTopics[v]
          /\ \A t \in Topics : byTopic'[t] = byTopic[t] \ {ws}
      BY <3>1, Discarding
    <3>3. TypeOK'
      BY <3>1, <3>2 DEF TypeOK
    <3>4. GoneIsForgotten'
      BY <3>1, <3>2 DEF TypeOK, GoneIsForgotten
    <3>5. DeadAreGone' /\ OwedIsPending'
      BY <3>1 DEF TypeOK, DeadAreGone, OwedIsPending
    <3>6. UpIsRegistered'
      BY <3>1, <3>2 DEF TypeOK, UpIsRegistered
    <3> QED
      BY <3>1, <3>2, <3>3, <3>4, <3>5, <3>6
  <2>6. ASSUME NEW c \in Casts, NEW t \in Topics, Broadcast(c, t) PROVE Safe'
    <3> USE <2>6 DEF Broadcast
    <3>1. TypeOK'
      BY DEF TypeOK
    <3>2. IndexesMirror' /\ GoneIsForgotten' /\ UpIsRegistered'
      BY DEF IndexesMirror, GoneIsForgotten, UpIsRegistered
    <3>3. DeadAreGone'
      BY DEF TypeOK, DeadAreGone
    <3>4. OwedIsPending'
      BY DEF TypeOK, OwedIsPending, UpIsRegistered, IndexesMirror
    <3>5. \A d \in Casts : cast'[d].pc = "done" => cast'[d].left = {}
      BY DEF TypeOK
    <3> QED
      BY <3>1, <3>2, <3>3, <3>4, <3>5
  <2>7. ASSUME NEW c \in Casts, NEW ws \in Sockets, Send(c, ws) PROVE Safe'
    <3>1. /\ cast[c].pc = "sending"
          /\ ws \in cast[c].left
          /\ UNCHANGED <<byTopic, wsTopics, link, endpoint, told, acks, owed>>
      BY <2>7 DEF Send
    <3>2. IndexesMirror' /\ GoneIsForgotten' /\ UpIsRegistered'
      BY <3>1 DEF IndexesMirror, GoneIsForgotten, UpIsRegistered
    <3>3. cast' = [cast EXCEPT ![c] =
                    [pc |-> "sending", left |-> @.left \ {ws},
                     dead |-> IF link[ws] THEN @.dead ELSE @.dead \cup {ws}]]
      BY <2>7 DEF Send
    <3>4. got' = [got EXCEPT ![c] = IF link[ws] THEN @ \cup {ws} ELSE @]
      BY <2>7 DEF Send
    <3>5. cast' \in [Casts -> [pc : {"idle", "sending", "done"},
                              left : SUBSET Sockets, dead : SUBSET Sockets]]
      BY <3>3 DEF TypeOK
    <3>6. TypeOK'
      BY <3>1, <3>4, <3>5 DEF TypeOK
    <3>7. DeadAreGone'
      BY <3>1, <3>3 DEF TypeOK, DeadAreGone
    <3>8. OwedIsPending'
      BY <3>1, <3>3, <3>4 DEF TypeOK, OwedIsPending
    <3>9. \A d \in Casts : cast'[d].pc = "done" => cast'[d].left = {}
      BY <3>3 DEF TypeOK
    <3> QED
      BY <3>2, <3>6, <3>7, <3>8, <3>9
  <2>8. ASSUME NEW c \in Casts, DropDead(c) PROVE Safe'
    <3>1. /\ cast[c].pc = "sending" /\ cast[c].left = {}
          /\ cast' = [cast EXCEPT ![c] = [pc |-> "done", left |-> {}, dead |-> {}]]
          /\ DiscardAll(cast[c].dead)
          /\ UNCHANGED <<link, endpoint, told, acks, got, owed>>
      BY <2>8 DEF DropDead
    <3>2. cast[c].dead \in SUBSET Sockets /\ \A ws \in cast[c].dead : ~link[ws]
      BY <3>1 DEF TypeOK, DeadAreGone
    <3>3. /\ byTopic' \in [Topics -> SUBSET Sockets]
          /\ wsTopics' \in [Sockets -> SUBSET Topics]
          /\ IndexesMirror'
          /\ \A ws \in Sockets :
               wsTopics'[ws] = IF ws \in cast[c].dead THEN {} ELSE wsTopics[ws]
          /\ \A t \in Topics : byTopic'[t] = byTopic[t] \ cast[c].dead
      BY <3>1, <3>2, Discarding
    <3>4. TypeOK'
      BY <3>1, <3>3 DEF TypeOK
    <3>5. GoneIsForgotten'
      BY <3>1, <3>3 DEF GoneIsForgotten
    <3>6. DeadAreGone' /\ OwedIsPending'
      BY <3>1 DEF TypeOK, DeadAreGone, OwedIsPending
    <3>7. UpIsRegistered'
      BY <3>1, <3>2, <3>3 DEF UpIsRegistered
    <3>8. \A d \in Casts : cast'[d].pc = "done" => cast'[d].left = {}
      BY <3>1 DEF TypeOK
    <3> QED
      BY <3>3, <3>4, <3>5, <3>6, <3>7, <3>8
  <2>9. CASE UNCHANGED vars
    BY <2>9 DEF vars, TypeOK, IndexesMirror, GoneIsForgotten, DeadAreGone,
                UpIsRegistered, OwedIsPending
  <2> QED
    BY <2>1, <2>2, <2>3, <2>4, <2>5, <2>6, <2>7, <2>8, <2>9
       DEF Next, Client, Deliver
<1> QED
  BY <1>1, <1>2, PTL DEF Spec

\* The two indexes of the registry mirror each other.
THEOREM IndexesAgree == Spec => []IndexesMirror
<1>1. Safe => IndexesMirror
  BY DEF Safe
<1> QED
  BY <1>1, SafeInvariant, PTL

\* Once its endpoint has ended, a socket is in no bucket, and stays out.
THEOREM NothingLeaks == Spec => []GoneIsForgotten
<1>1. Safe => GoneIsForgotten
  BY DEF Safe
<1> QED
  BY <1>1, SafeInvariant, PTL

\* A client that was told it is subscribed is registered while it is there.
THEOREM SubscribersStay == Spec => []ToldIsRegistered
<1>1. Safe => ToldIsRegistered
  BY DEF Safe, TypeOK, UpIsRegistered, IndexesMirror, ToldIsRegistered
<1> QED
  BY <1>1, SafeInvariant, PTL

\* A finished broadcast has reached every client that was told of its
\* subscription before it began and is still there.
THEOREM SubscribersAreServed == Spec => []OwedIsSent
<1>1. Safe => OwedIsSent
  BY DEF Safe, TypeOK, OwedIsPending, OwedIsSent
<1> QED
  BY <1>1, SafeInvariant, PTL

-----------------------------------------------------------------------------
(* The socket of a page.  Its properties are an invariant as they stand.   *)

LEMMA PageInit == P!Init => P!SocketsAgree
<1> SUFFICES ASSUME P!Init PROVE P!SocketsAgree
  OBVIOUS
<1> USE BoundsAssumption DEF P!Init, P!Runs
<1>1. P!TypeOK
  <2>1. run \in 0 .. MaxRuns /\ live \in 0 .. run
    OBVIOUS
  <2>2. /\ closeOnOpen \in [1 .. MaxRuns -> BOOLEAN]
        /\ timer \in [1 .. MaxRuns -> BOOLEAN] /\ watchdog \in [1 .. MaxRuns -> BOOLEAN]
    BY Zenon
  <2>3. /\ socket \in [1 .. MaxRuns -> {"none", "connecting", "open", "closing", "closed"}]
        /\ connected \in BOOLEAN /\ topicsRef \in Topics
        /\ asked \in [1 .. MaxRuns -> Topics \union {NoTopics}]
    OBVIOUS
  <2> QED
    BY <2>1, <2>2, <2>3 DEF P!TypeOK
<1>2. P!KeepsTrying /\ P!RunsEnd
  BY DEF P!KeepsTrying, P!RunsEnd
<1>3. P!IndicatorIsRight
  BY DEF P!IndicatorIsRight
<1> QED
  BY <1>1, <1>2, <1>3 DEF P!SocketsAgree

LEMMA PageNext == P!SocketsAgree /\ [P!Next]_pageVars => P!SocketsAgree'
<1> SUFFICES ASSUME P!TypeOK, P!KeepsTrying, P!RunsEnd, P!IndicatorIsRight, [P!Next]_pageVars
             PROVE  P!TypeOK' /\ P!KeepsTrying' /\ P!RunsEnd' /\ P!IndicatorIsRight'
  BY DEF P!SocketsAgree
<1> USE BoundsAssumption DEF P!TypeOK, P!Runs
<1>1. ASSUME NEW topics \in Topics, NEW enabled \in BOOLEAN, P!Run(topics, enabled)
      PROVE  P!TypeOK' /\ P!KeepsTrying' /\ P!RunsEnd' /\ P!IndicatorIsRight'
  <2> USE <1>1 DEF P!Run, P!Cleanup, P!Cleared, P!Closing
  <2>1. P!TypeOK'
    <3>1. run' \in 0 .. MaxRuns /\ live' \in 0 .. run'
      OBVIOUS
    <3>2. /\ connected' \in BOOLEAN /\ topicsRef' \in Topics
          /\ closeOnOpen' \in [1 .. MaxRuns -> BOOLEAN]
          /\ timer' \in [1 .. MaxRuns -> BOOLEAN] /\ watchdog' \in [1 .. MaxRuns -> BOOLEAN]
      BY Zenon
    <3>3. /\ socket' \in [1 .. MaxRuns -> {"none", "connecting", "open", "closing", "closed"}]
          /\ asked' \in [1 .. MaxRuns -> Topics \union {NoTopics}]
      OBVIOUS
    <3> QED
      BY <3>1, <3>2, <3>3
  <2>2. P!KeepsTrying'
    BY DEF P!KeepsTrying, P!RunsEnd
  <2>3. P!RunsEnd'
    BY DEF P!RunsEnd
  <2>4. P!IndicatorIsRight'
    BY DEF P!IndicatorIsRight
  <2> QED
    BY <2>1, <2>2, <2>3, <2>4
<1>2. CASE P!Unmount
  <2> USE <1>2 DEF P!Unmount, P!Cleanup, P!Cleared, P!Closing
  <2>1. P!TypeOK'
    <3>1. run' \in 0 .. MaxRuns /\ live' \in 0 .. run'
      OBVIOUS
    <3>2. /\ connected' \in BOOLEAN /\ topicsRef' \in Topics
          /\ closeOnOpen' \in [1 .. MaxRuns -> BOOLEAN]
          /\ timer' \in [1 .. MaxRuns -> BOOLEAN] /\ watchdog' \in [1 .. MaxRuns -> BOOLEAN]
      BY Zenon
    <3>3. /\ socket' \in [1 .. MaxRuns -> {"none", "connecting", "open", "closing", "closed"}]
          /\ asked' \in [1 .. MaxRuns -> Topics \union {NoTopics}]
      OBVIOUS
    <3> QED
      BY <3>1, <3>2, <3>3
  <2>2. P!KeepsTrying' /\ P!IndicatorIsRight'
    BY DEF P!KeepsTrying, P!IndicatorIsRight
  <2>3. P!RunsEnd'
    BY DEF P!RunsEnd
  <2> QED
    BY <2>1, <2>2, <2>3
<1>3. ASSUME NEW e \in P!Runs, P!Open(e)
      PROVE  P!TypeOK' /\ P!KeepsTrying' /\ P!RunsEnd' /\ P!IndicatorIsRight'
  <2> USE <1>3 DEF P!Open
  <2>1. P!TypeOK'
    OBVIOUS
  <2>2. P!KeepsTrying' /\ P!RunsEnd'
    BY DEF P!KeepsTrying, P!RunsEnd
  <2>3. P!IndicatorIsRight'
    <3>1. CASE e = live
      BY <3>1 DEF P!IndicatorIsRight
    <3>2. CASE e # live
      BY <3>2 DEF P!IndicatorIsRight
    <3> QED
      BY <3>1, <3>2
  <2> QED
    BY <2>1, <2>2, <2>3
<1>4. ASSUME NEW e \in P!Runs, P!Closed(e)
      PROVE  P!TypeOK' /\ P!KeepsTrying' /\ P!RunsEnd' /\ P!IndicatorIsRight'
  <2> USE <1>4 DEF P!Closed
  <2>1. P!TypeOK'
    OBVIOUS
  <2>2. P!KeepsTrying' /\ P!RunsEnd'
    <3>1. CASE e = live
      BY <3>1 DEF P!KeepsTrying, P!RunsEnd
    <3>2. CASE e # live
      BY <3>2 DEF P!KeepsTrying, P!RunsEnd
    <3> QED
      BY <3>1, <3>2
  <2>3. P!IndicatorIsRight'
    <3>1. CASE e = live
      BY <3>1 DEF P!IndicatorIsRight
    <3>2. CASE e # live
      BY <3>2 DEF P!IndicatorIsRight
    <3> QED
      BY <3>1, <3>2
  <2> QED
    BY <2>1, <2>2, <2>3
<1>5. ASSUME NEW e \in P!Runs, P!Reconnect(e)
      PROVE  P!TypeOK' /\ P!KeepsTrying' /\ P!RunsEnd' /\ P!IndicatorIsRight'
  <2> USE <1>5 DEF P!Reconnect
  <2>1. P!TypeOK'
    OBVIOUS
  <2>2. e = live
    BY DEF P!RunsEnd
  <2>3. P!KeepsTrying' /\ P!RunsEnd'
    BY <2>2 DEF P!KeepsTrying, P!RunsEnd
  <2>4. P!IndicatorIsRight'
    BY <2>2 DEF P!KeepsTrying, P!IndicatorIsRight
  <2> QED
    BY <2>1, <2>3, <2>4
<1>6. ASSUME NEW e \in P!Runs, P!Expire(e)
      PROVE  P!TypeOK' /\ P!KeepsTrying' /\ P!RunsEnd' /\ P!IndicatorIsRight'
  BY <1>6 DEF P!Expire, P!Closing, P!KeepsTrying, P!RunsEnd, P!IndicatorIsRight
<1>7. CASE UNCHANGED pageVars
  BY <1>7 DEF pageVars, P!KeepsTrying, P!RunsEnd, P!IndicatorIsRight
<1> QED
  BY <1>1, <1>2, <1>3, <1>4, <1>5, <1>6, <1>7 DEF P!Next

-----------------------------------------------------------------------------
(* Sequences of messages.                                                  *)

\* A prefix, element by element.
LEMMA PrefixElements ==
  \A s, t \in Seq(Nat) :
    B!IsPrefix(s, t) <=> Len(s) <= Len(t) /\ \A i \in 1 .. Len(s) : s[i] = t[i]
<1> SUFFICES ASSUME NEW s \in Seq(Nat), NEW t \in Seq(Nat)
             PROVE  B!IsPrefix(s, t) <=> Len(s) <= Len(t) /\ \A i \in 1 .. Len(s) : s[i] = t[i]
  OBVIOUS
<1>1. Len(s) \in Nat /\ Len(t) \in Nat
  BY LenProperties
<1>2. SubSeq(s, 1, Len(s)) = s
  BY SubSeqFull
<1>3. ASSUME Len(s) <= Len(t)
      PROVE  /\ SubSeq(t, 1, Len(s)) \in Seq(Nat)
             /\ Len(SubSeq(t, 1, Len(s))) = Len(s)
             /\ \A i \in 1 .. Len(s) : SubSeq(t, 1, Len(s))[i] = t[i]
  <2>1. \A i \in 1 .. Len(s) : t[i] \in Nat
    BY <1>1, <1>3, ElementOfSeq
  <2> QED
    BY <1>1, <2>1, SubSeqProperties
<1>4. ASSUME Len(s) <= Len(t), \A i \in 1 .. Len(s) : s[i] = t[i]
      PROVE  s = SubSeq(t, 1, Len(s))
  BY <1>3, <1>4, SeqEqual
<1> QED
  BY <1>1, <1>2, <1>3, <1>4 DEF B!IsPrefix

LEMMA PrefixOfConcat ==
  \A s, t, u \in Seq(Nat) :
    /\ B!IsPrefix(s, s \o t)
    /\ B!IsPrefix(s, t) => B!IsPrefix(s, t \o u)
<1> SUFFICES ASSUME NEW s \in Seq(Nat), NEW t \in Seq(Nat), NEW u \in Seq(Nat)
             PROVE  /\ B!IsPrefix(s, s \o t)
                    /\ B!IsPrefix(s, t) => B!IsPrefix(s, t \o u)
  OBVIOUS
<1>1. Len(s) \in Nat /\ Len(t) \in Nat /\ Len(u) \in Nat
  BY LenProperties
<1>2. /\ s \o t \in Seq(Nat) /\ Len(s \o t) = Len(s) + Len(t)
      /\ \A i \in 1 .. Len(s) : (s \o t)[i] = s[i]
  BY <1>1, ConcatProperties
<1>3. /\ t \o u \in Seq(Nat) /\ Len(t \o u) = Len(t) + Len(u)
      /\ \A i \in 1 .. Len(t) : (t \o u)[i] = t[i]
  BY <1>1, ConcatProperties
<1>4. B!IsPrefix(s, s \o t)
  <2> DEFINE v == s \o t
  <2>1. v \in Seq(Nat) /\ Len(s) <= Len(v) /\ \A i \in 1 .. Len(s) : s[i] = v[i]
    BY <1>1, <1>2
  <2> HIDE DEF v
  <2>2. B!IsPrefix(s, v)
    BY <2>1, PrefixElements
  <2> QED
    BY <2>2 DEF v
<1>5. ASSUME B!IsPrefix(s, t) PROVE B!IsPrefix(s, t \o u)
  <2> DEFINE v == t \o u
  <2>1. /\ v \in Seq(Nat) /\ Len(t) <= Len(v)
        /\ \A i \in 1 .. Len(t) : v[i] = t[i]
    BY <1>1, <1>3
  <2>2. Len(s) <= Len(t) /\ \A i \in 1 .. Len(s) : s[i] = t[i]
    BY <1>5, PrefixElements
  <2> HIDE DEF v
  <2>3. Len(v) \in Nat
    BY <2>1, LenProperties
  <2>4. Len(s) <= Len(v) /\ \A i \in 1 .. Len(s) : s[i] = v[i]
    BY <1>1, <2>1, <2>2, <2>3
  <2>5. B!IsPrefix(s, v)
    BY <2>1, <2>4, PrefixElements
  <2> QED
    BY <2>5 DEF v
<1> QED
  BY <1>4, <1>5

\* What comes after the first k messages of a log grows as the log does.
LEMMA RestOfLog ==
  \A s, t \in Seq(Nat), k \in Nat : k <= Len(s) =>
    /\ SubSeq(s, k + 1, Len(s)) \in Seq(Nat)
    /\ SubSeq(s \o t, k + 1, Len(s \o t)) = SubSeq(s, k + 1, Len(s)) \o t
<1> SUFFICES ASSUME NEW s \in Seq(Nat), NEW t \in Seq(Nat), NEW k \in Nat, k <= Len(s)
             PROVE  /\ SubSeq(s, k + 1, Len(s)) \in Seq(Nat)
                    /\ SubSeq(s \o t, k + 1, Len(s \o t)) = SubSeq(s, k + 1, Len(s)) \o t
  OBVIOUS
<1>1. Len(s) \in Nat /\ Len(t) \in Nat
  BY LenProperties
<1>2. /\ s \o t \in Seq(Nat) /\ Len(s \o t) = Len(s) + Len(t)
      /\ \A i \in 1 .. Len(s) + Len(t) : (s \o t)[i] = IF i <= Len(s) THEN s[i] ELSE t[i - Len(s)]
  BY ConcatProperties
<1> DEFINE u == SubSeq(s, k + 1, Len(s))
           v == SubSeq(s \o t, k + 1, Len(s \o t))
<1>3. /\ u \in Seq(Nat) /\ Len(u) = Len(s) - k
      /\ \A i \in 1 .. Len(s) - k : u[i] = s[k + i]
  <2>1. \A i \in k + 1 .. Len(s) : s[i] \in Nat
    BY <1>1, ElementOfSeq
  <2>2. k + 1 \in Int /\ Len(s) \in Int
    BY <1>1
  <2>3. /\ u \in Seq(Nat) /\ Len(u) = IF k + 1 <= Len(s) THEN Len(s) - (k + 1) + 1 ELSE 0
        /\ \A i \in 1 .. Len(s) - (k + 1) + 1 : u[i] = s[k + 1 + i - 1]
    BY <2>1, <2>2, SubSeqProperties
  <2> QED
    BY <1>1, <2>3
<1>4. /\ v \in Seq(Nat) /\ Len(v) = Len(s) + Len(t) - k
      /\ \A i \in 1 .. Len(s) + Len(t) - k : v[i] = (s \o t)[k + i]
  <2>1. \A i \in k + 1 .. Len(s \o t) : (s \o t)[i] \in Nat
    BY <1>1, <1>2, ElementOfSeq
  <2>2. k + 1 \in Int /\ Len(s \o t) \in Int
    BY <1>1, <1>2
  <2> DEFINE w == s \o t
  <2>3. w \in Seq(Nat) /\ Len(w) = Len(s) + Len(t)
    BY <1>2
  <2> HIDE DEF w
  <2>4. /\ SubSeq(w, k + 1, Len(w)) \in Seq(Nat)
        /\ Len(SubSeq(w, k + 1, Len(w))) = IF k + 1 <= Len(w) THEN Len(w) - (k + 1) + 1 ELSE 0
        /\ \A i \in 1 .. Len(w) - (k + 1) + 1 : SubSeq(w, k + 1, Len(w))[i] = w[k + 1 + i - 1]
    BY <2>1, <2>2, SubSeqProperties DEF w
  <2> HIDE DEF v
  <2>5. SubSeq(w, k + 1, Len(w)) = v
    BY DEF w, v
  <2>6. v \in Seq(Nat) /\ Len(v) = Len(s) + Len(t) - k
    <3>1. v \in Seq(Nat) /\ Len(v) = IF k + 1 <= Len(w) THEN Len(w) - (k + 1) + 1 ELSE 0
      BY <2>4, <2>5, Zenon
    <3> QED
      BY <1>1, <2>3, <3>1
  <2>7. ASSUME NEW i \in 1 .. Len(s) + Len(t) - k PROVE v[i] = w[k + i]
    <3>1. i \in 1 .. Len(w) - (k + 1) + 1 /\ k + 1 + i - 1 = k + i
      BY <1>1, <2>3
    <3> QED
      BY <2>4, <2>5, <3>1
  <2> QED
    BY <2>6, <2>7 DEF w
<1> HIDE DEF u, v
<1>5. /\ u \o t \in Seq(Nat) /\ Len(u \o t) = Len(s) - k + Len(t)
      /\ \A i \in 1 .. Len(u) + Len(t) : (u \o t)[i] = IF i <= Len(u) THEN u[i] ELSE t[i - Len(u)]
  BY <1>1, <1>3, ConcatProperties
<1>6. ASSUME NEW i \in 1 .. Len(v) PROVE v[i] = (u \o t)[i]
  <2>1. v[i] = IF k + i <= Len(s) THEN s[k + i] ELSE t[k + i - Len(s)]
    BY <1>1, <1>2, <1>4
  <2>2. CASE k + i <= Len(s)
    BY <1>1, <1>3, <1>4, <1>5, <2>1, <2>2
  <2>3. CASE ~(k + i <= Len(s))
    <3>1. (u \o t)[i] = t[i - Len(u)]
      <4>1. i \in 1 .. Len(u) + Len(t) /\ ~(i <= Len(u))
        BY <1>1, <1>3, <1>4, <2>3
      <4> QED
        BY <1>5, <4>1
    <3>2. i - Len(u) = k + i - Len(s)
      BY <1>1, <1>3
    <3> QED
      BY <1>1, <2>1, <2>3, <3>1, <3>2
  <2> QED
    BY <2>2, <2>3, Zenon
<1>7. v = u \o t
  <2> DEFINE x == u \o t
  <2>1. x \in Seq(Nat) /\ Len(x) = Len(v) /\ \A i \in 1 .. Len(v) : v[i] = x[i]
    <3>1. Len(x) = Len(s) - k + Len(t) /\ Len(v) = Len(s) + Len(t) - k
      BY <1>4, <1>5, Zenon
    <3>2. Len(x) = Len(v)
      BY <1>1, <3>1
    <3> QED
      BY <1>5, <1>6, <3>2, Zenon
  <2> HIDE DEF x
  <2>2. v = x
    BY <1>4, <2>1, SeqEqual
  <2> QED
    BY <2>2 DEF x
<1> QED
  BY <1>3, <1>7 DEF u, v

LEMMA MessagesOfConcat ==
  \A s, t \in Seq(Nat) : B!ToSet(s \o t) = B!ToSet(s) \union B!ToSet(t)
<1> SUFFICES ASSUME NEW s \in Seq(Nat), NEW t \in Seq(Nat)
             PROVE  B!ToSet(s \o t) = B!ToSet(s) \union B!ToSet(t)
  OBVIOUS
<1>1. Range(s \o t) = Range(s) \union Range(t)
  BY RangeConcatenation
<1> QED
  BY <1>1 DEF B!ToSet, Range

LEMMA MessagesAssociate ==
  \A s, t, u \in Seq(Nat) : (s \o t) \o u = s \o (t \o u)
<1> SUFFICES ASSUME NEW s \in Seq(Nat), NEW t \in Seq(Nat), NEW u \in Seq(Nat)
             PROVE  (s \o t) \o u = s \o (t \o u)
  OBVIOUS
<1> QED
  BY ConcatAssociative, SMTT(20)

\* The first message of t moves to the end of s.
LEMMA MessageMoves ==
  \A s, t \in Seq(Nat) : t # <<>> =>
    /\ Append(s, Head(t)) \in Seq(Nat) /\ Tail(t) \in Seq(Nat)
    /\ Append(s, Head(t)) \o Tail(t) = s \o t
<1> SUFFICES ASSUME NEW s \in Seq(Nat), NEW t \in Seq(Nat), t # <<>>
             PROVE  /\ Append(s, Head(t)) \in Seq(Nat) /\ Tail(t) \in Seq(Nat)
                    /\ Append(s, Head(t)) \o Tail(t) = s \o t
  OBVIOUS
<1> DEFINE h == <<Head(t)>>
           v == Tail(t)
<1>1. Head(t) \in Nat /\ h \in Seq(Nat) /\ v \in Seq(Nat)
  <2>1. Head(t) \in Nat /\ v \in Seq(Nat)
    BY HeadTailProperties
  <2> QED
    BY <2>1
<1>2. h \o v = t
  <2>1. Len(t) \in Nat \ {0}
    BY EmptySeq
  <2>2. SubSeq(t, 1, Len(t)) = <<t[1]>> \o SubSeq(t, 2, Len(t))
    BY <2>1, SubSeqRecursiveFirst
  <2>3. SubSeq(t, 1, Len(t)) = t /\ SubSeq(t, 2, Len(t)) = Tail(t) /\ Head(t) = t[1]
    BY <2>1, SubSeqFull, TailIsSubSeq
  <2> QED
    BY <2>2, <2>3
<1>3. Append(s, Head(t)) = s \o h /\ Append(s, Head(t)) \in Seq(Nat)
  BY <1>1, AppendIsConcat, AppendProperties
<1> HIDE DEF h, v
<1>4. (s \o h) \o v = s \o (h \o v)
  BY <1>1, MessagesAssociate
<1> QED
  BY <1>1, <1>2, <1>3, <1>4 DEF v

-----------------------------------------------------------------------------
(* The backplane.  A broadcast is in one place at a time: scheduled by one *)
(* process, in the log of Redis, or shown by one process by itself.        *)

MessagesTyped ==
  /\ log \in Seq(Nat)
  /\ inbox \in [Processes -> Seq(Nat)] /\ shown \in [Processes -> Seq(Nat)]
  /\ local \in [Processes -> SUBSET Nat] /\ begun \in [Processes -> SUBSET Nat]
  /\ tasks \in [Processes -> SUBSET Nat]

\* A process that serves has not cancelled its consumer, which delivers what it received.
ServingListens ==
  \A p \in Processes :
    /\ place[p] = "serving" => consumer[p] # "cancelled"
    /\ consumer[p] = "delivering" => inbox[p] # <<>>

MadeOnce ==
  /\ B!ToSet(log) \subseteq 1 .. made
  /\ \A p \in Processes :
       /\ tasks[p] \subseteq 1 .. made /\ local[p] \subseteq 1 .. made
       /\ tasks[p] \intersect B!ToSet(log) = {}
       /\ \A q \in Processes :
            /\ tasks[p] \intersect local[q] = {}
            /\ p # q => tasks[p] \intersect tasks[q] = {}

FanOut == B!BackplaneAgrees /\ MessagesTyped /\ ServingListens /\ MadeOnce

\* A subscription that begins has nothing to show yet.
LEMMA NothingYet ==
  \A s \in Seq(Nat) :
    /\ SubSeq(s, Len(s) + 1, Len(s)) = <<>>
    /\ <<>> \o <<>> = <<>> /\ B!IsPrefix(<<>>, <<>>)
<1> SUFFICES ASSUME NEW s \in Seq(Nat)
             PROVE  /\ SubSeq(s, Len(s) + 1, Len(s)) = <<>>
                    /\ <<>> \o <<>> = <<>> /\ B!IsPrefix(<<>>, <<>>)
  OBVIOUS
<1>1. Len(s) \in Nat
  BY LenProperties
<1>2. SubSeq(s, Len(s) + 1, Len(s)) = <<>>
  BY <1>1, SubSeqEmpty
<1>3. <<>> \in Seq(Nat) /\ <<>> \o <<>> = <<>>
  <2>1. <<>> \in Seq(Nat)
    BY EmptySeq
  <2> QED
    BY <2>1, ConcatEmptySeq
<1>4. B!IsPrefix(<<>>, <<>> \o <<>>)
  BY <1>3, PrefixOfConcat
<1> QED
  BY <1>2, <1>3, <1>4

LEMMA FanOutInit == B!Init => FanOut
<1> SUFFICES ASSUME B!Init PROVE FanOut
  OBVIOUS
<1> USE DEF B!Init
<1>1. <<>> \in Seq(Nat) /\ Len(<<>>) = 0
  BY EmptySeq
<1>2. B!TypeOK
  BY <1>1, BoundsAssumption DEF B!TypeOK, B!Messages
<1>3. B!NothingSkipped
  BY <1>1, NothingYet DEF B!NothingSkipped, B!Subscribed
<1>4. B!OwnServed /\ B!OneWay /\ ServingListens
  BY DEF B!OwnServed, B!OneWay, ServingListens
<1>5. MessagesTyped
  BY <1>1 DEF MessagesTyped
<1>6. MadeOnce
  BY DEF MadeOnce, B!ToSet
<1> QED
  BY <1>2, <1>3, <1>4, <1>5, <1>6 DEF FanOut, B!BackplaneAgrees

\* A process subscribes, when it starts or after it lost its connection.
LEMMA SubscribeFans ==
  ASSUME FanOut, NEW p \in Processes, B!Subscribe(p),
         \/ place[p] = "serving" /\ UNCHANGED place
         \/ place' = [place EXCEPT ![p] = "serving"],
         UNCHANGED <<local, tasks, log, made>>
  PROVE  FanOut'
<1> USE DEF FanOut, B!BackplaneAgrees, B!Subscribe
<1>0. Len(log) \in Nat
  BY LenProperties DEF MessagesTyped
<1>1. B!TypeOK'
  <2>1. /\ place \in [Processes -> {"down", "serving", "closing"}]
        /\ consumer \in [Processes -> {"listening", "delivering", "failed", "cancelled"}]
        /\ since \in [Processes -> 0 .. Len(log)]
    BY DEF B!TypeOK
  <2>2. log' = log /\ Len(log) \in 0 .. Len(log)
    BY <1>0
  <2>3. since' \in [Processes -> 0 .. Len(log')]
    BY <2>1, <2>2
  <2>4. place' \in [Processes -> {"down", "serving", "closing"}]
    BY <2>1
  <2>5. consumer' \in [Processes -> {"listening", "delivering", "failed", "cancelled"}]
    BY <2>1
  <2> QED
    BY <2>3, <2>4, <2>5 DEF B!TypeOK
<1>2. MessagesTyped'
  <2>1. <<>> \in Seq(Nat)
    BY EmptySeq
  <2> QED
    BY <2>1 DEF MessagesTyped
<1>3. B!NothingSkipped'
  BY NothingYet DEF B!NothingSkipped, B!Subscribed, B!TypeOK, MessagesTyped
<1>4. B!OwnServed'
  BY DEF B!OwnServed, B!TypeOK, MessagesTyped
<1>5. B!OneWay' /\ ServingListens' /\ MadeOnce'
  BY DEF B!OneWay, ServingListens, MadeOnce, B!TypeOK
<1> QED
  BY <1>1, <1>2, <1>3, <1>4, <1>5

LEMMA ScheduleFans == ASSUME FanOut, NEW p \in Processes, B!Schedule(p) PROVE FanOut'
<1> USE DEF FanOut, B!BackplaneAgrees, B!Schedule
<1>0. made \in Nat /\ made + 1 \in B!Messages /\ made' \in 0 .. MaxMessages
  BY BoundsAssumption DEF B!TypeOK, B!Messages
<1>1. B!TypeOK' /\ MessagesTyped'
  BY <1>0 DEF B!TypeOK, MessagesTyped
<1>2. B!NothingSkipped' /\ B!OwnServed' /\ B!OneWay' /\ ServingListens'
  BY DEF B!NothingSkipped, B!Subscribed, B!OwnServed, B!OneWay, ServingListens
<1>3. MadeOnce'
  <2>1. /\ made + 1 \notin B!ToSet(log)
        /\ \A q \in Processes : made + 1 \notin tasks[q] /\ made + 1 \notin local[q]
    BY <1>0 DEF MadeOnce
  <2>2. \A q \in Processes : tasks'[q] = IF q = p THEN tasks[q] \union {made + 1} ELSE tasks[q]
    BY DEF MessagesTyped
  <2>3. 1 .. made \subseteq 1 .. made'  /\ made + 1 \in 1 .. made'
    BY <1>0
  <2>4. local' = local /\ log' = log
    OBVIOUS
  <2> QED
    BY <2>1, <2>2, <2>3, <2>4 DEF MadeOnce
<1> QED
  BY <1>1, <1>2, <1>3

\* A broadcast reaches Redis, once or twice.
LEMMA PublishFans ==
  ASSUME FanOut, NEW p \in Processes, place[p] = "serving", NEW m \in tasks[p],
         NEW times, times \in {<<m>>, <<m, m>>},
         log' = log \o times,
         inbox' = [q \in Processes |-> IF B!Subscribed(q) THEN inbox[q] \o times ELSE inbox[q]],
         begun' = [begun EXCEPT ![p] = @ \cup {m}],
         tasks' = [tasks EXCEPT ![p] = @ \ {m}],
         UNCHANGED <<place, consumer, since, shown, local, made, lost>>
  PROVE  FanOut'
<1> USE DEF FanOut, B!BackplaneAgrees
<1>1. m \in Nat /\ times \in Seq(Nat) /\ B!ToSet(times) = {m}
  <2>1. m \in Nat
    BY DEF MessagesTyped
  <2>2. CASE times = <<m>>
    <3>1. times \in Seq(Nat) /\ Len(times) = 1 /\ times[1] = m
      BY <2>1, <2>2
    <3> QED
      BY <2>1, <3>1 DEF B!ToSet
  <2>3. CASE times = <<m, m>>
    <3>1. times \in Seq(Nat) /\ Len(times) = 2 /\ times[1] = m /\ times[2] = m
      BY <2>1, <2>3
    <3> QED
      BY <2>1, <3>1 DEF B!ToSet
  <2> QED
    BY <2>2, <2>3
<1>2. /\ log \in Seq(Nat) /\ log' \in Seq(Nat) /\ Len(log) \in Nat
      /\ Len(log') \in Nat /\ Len(log) <= Len(log')
      /\ B!ToSet(log') = B!ToSet(log) \union {m}
  <2>1. log \in Seq(Nat) /\ Len(log) \in Nat /\ Len(times) \in Nat
    BY <1>1, LenProperties DEF MessagesTyped
  <2>2. log \o times \in Seq(Nat) /\ Len(log \o times) = Len(log) + Len(times)
    BY <1>1, <2>1, ConcatProperties
  <2>3. B!ToSet(log \o times) = B!ToSet(log) \union {m}
    BY <1>1, <2>1, MessagesOfConcat
  <2> DEFINE v == log \o times
  <2> HIDE DEF v
  <2>4. v \in Seq(Nat) /\ Len(v) = Len(log) + Len(times) /\ B!ToSet(v) = B!ToSet(log) \union {m}
    BY <2>2, <2>3 DEF v
  <2>5. log' = v
    BY DEF v
  <2>6. B!ToSet(v) = B!ToSet(log')
    BY <2>5 DEF B!ToSet
  <2> QED
    BY <2>1, <2>4, <2>5, <2>6
<1>3. ASSUME NEW q \in Processes
      PROVE  /\ inbox[q] \in Seq(Nat) /\ shown[q] \in Seq(Nat) /\ inbox'[q] \in Seq(Nat)
             /\ B!Subscribed(q) => inbox'[q] = inbox[q] \o times
             /\ ~B!Subscribed(q) => inbox'[q] = inbox[q]
             /\ since[q] \in 0 .. Len(log)
             /\ inbox[q] # <<>> => inbox'[q] # <<>>
  <2>1. inbox[q] \in Seq(Nat) /\ shown[q] \in Seq(Nat)
    BY DEF MessagesTyped
  <2>2. inbox[q] \o times \in Seq(Nat) /\ (inbox[q] # <<>> => inbox[q] \o times # <<>>)
    <3>1. /\ inbox[q] \o times \in Seq(Nat)
          /\ Len(inbox[q] \o times) = Len(inbox[q]) + Len(times)
      BY <1>1, <2>1, ConcatProperties
    <3>2. Len(inbox[q]) \in Nat /\ Len(times) \in Nat
      BY <1>1, <2>1, LenProperties
    <3>3. inbox[q] # <<>> => Len(inbox[q]) # 0
      BY <2>1, EmptySeq
    <3>4. Len(<<>>) = 0
      BY EmptySeq
    <3> QED
      BY <3>1, <3>2, <3>3, <3>4
  <2> QED
    BY <2>1, <2>2 DEF B!TypeOK
<1>4. B!TypeOK' /\ MessagesTyped'
  <2>1. ASSUME NEW q \in Processes PROVE tasks'[q] \subseteq tasks[q]
    BY DEF MessagesTyped
  <2>2. since' \in [Processes -> 0 .. Len(log)']
    BY <1>2 DEF B!TypeOK
  <2>3. inbox' \in [Processes -> Seq(Nat)]
    BY <1>3
  <2> QED
    BY <1>1, <1>2, <2>1, <2>2, <2>3 DEF B!TypeOK, MessagesTyped, B!Messages
<1>5. B!NothingSkipped'
  <2> SUFFICES ASSUME NEW q \in Processes
               PROVE  /\ B!IsPrefix(shown[q], SubSeq(log', since[q] + 1, Len(log')))
                      /\ B!Subscribed(q) =>
                           shown[q] \o inbox'[q] = SubSeq(log', since[q] + 1, Len(log'))
    BY DEF B!NothingSkipped, B!Subscribed
  <2> DEFINE rest == SubSeq(log, since[q] + 1, Len(log))
             rest2 == SubSeq(log', since[q] + 1, Len(log'))
  <2>1. since[q] \in Nat /\ since[q] <= Len(log)
    BY <1>2, <1>3
  <2>2. rest \in Seq(Nat) /\ rest2 = rest \o times
    BY <1>1, <1>2, <2>1, RestOfLog
  <2>3. /\ B!IsPrefix(shown[q], rest)
        /\ B!Subscribed(q) => shown[q] \o inbox[q] = rest
    BY DEF B!NothingSkipped
  <2> HIDE DEF rest, rest2
  <2>4. B!IsPrefix(shown[q], rest \o times)
    BY <1>1, <1>3, <2>2, <2>3, PrefixOfConcat
  <2>5. ASSUME B!Subscribed(q) PROVE shown[q] \o inbox'[q] = rest \o times
    <3> DEFINE a == shown[q]
               b == inbox[q]
    <3>1. a \in Seq(Nat) /\ b \in Seq(Nat) /\ inbox'[q] = b \o times /\ a \o b = rest
      BY <1>3, <2>3, <2>5
    <3> HIDE DEF a, b
    <3>2. (a \o b) \o times = a \o (b \o times)
      BY <1>1, <3>1, MessagesAssociate
    <3>3. a \o inbox'[q] = rest \o times
      BY <3>1, <3>2
    <3> QED
      BY <3>3 DEF a
  <2> QED
    BY <2>2, <2>4, <2>5 DEF rest2
<1>6. B!OwnServed'
  <2> SUFFICES ASSUME NEW q \in Processes, place[q] # "down", consumer[q] # "failed"
               PROVE  begun'[q] \subseteq local[q] \cup B!ToSet(shown[q] \o inbox[q])'
    <3>1. place' = place /\ consumer' = consumer /\ local' = local
      OBVIOUS
    <3> QED
      BY <3>1, Zenon DEF B!OwnServed
  <2>0. B!ToSet(shown[q] \o inbox[q])' = B!ToSet(shown[q] \o inbox'[q])
    <3>1. (shown[q] \o inbox[q])' = shown[q] \o inbox'[q]
      OBVIOUS
    <3> QED
      BY <3>1, Zenon DEF B!ToSet
  <2>1. begun[q] \subseteq local[q] \cup B!ToSet(shown[q]) \cup B!ToSet(inbox[q])
    <3>1. B!ToSet(shown[q] \o inbox[q]) = B!ToSet(shown[q]) \union B!ToSet(inbox[q])
      BY <1>3, MessagesOfConcat
    <3>2. begun[q] \subseteq local[q] \cup B!ToSet(shown[q] \o inbox[q])
      BY Zenon DEF B!OwnServed
    <3> QED
      BY <3>1, <3>2, Zenon
  <2>2. B!ToSet(inbox'[q]) = IF B!Subscribed(q) THEN B!ToSet(inbox[q]) \union {m} ELSE B!ToSet(inbox[q])
    <3>1. B!ToSet(inbox[q] \o times) = B!ToSet(inbox[q]) \union {m}
      BY <1>1, <1>3, MessagesOfConcat
    <3> QED
      BY <1>3, <3>1
  <2>3. B!ToSet(shown[q] \o inbox'[q]) = B!ToSet(shown[q]) \union B!ToSet(inbox'[q])
    BY <1>3, MessagesOfConcat
  <2>4. CASE q = p
    <3>1. B!Subscribed(q)
      BY <2>4 DEF B!Subscribed, B!TypeOK, ServingListens
    <3>2. begun'[q] = begun[q] \union {m}
      BY <2>4 DEF MessagesTyped
    <3> QED
      BY <2>0, <2>1, <2>2, <2>3, <3>1, <3>2, Zenon
  <2>5. CASE q # p
    <3>1. begun'[q] = begun[q]
      BY <2>5 DEF MessagesTyped
    <3> QED
      BY <2>0, <2>1, <2>2, <2>3, <3>1, Zenon
  <2> QED
    BY <2>4, <2>5
<1>7. ServingListens'
  BY <1>3 DEF ServingListens
<1>8. B!OneWay' /\ MadeOnce'
  <2>1. \A q \in Processes : m \notin local[q] /\ (q # p => m \notin tasks[q])
    BY DEF MadeOnce
  <2>2. \A q \in Processes : tasks'[q] = IF q = p THEN tasks[q] \ {m} ELSE tasks[q]
    BY DEF MessagesTyped
  <2>3. m \in 1 .. made /\ made' = made /\ local' = local
    BY DEF MadeOnce
  <2>4. B!OneWay'
    <3> SUFFICES ASSUME NEW q \in Processes PROVE local[q] \cap B!ToSet(log)' = {}
      BY <2>3 DEF B!OneWay
    <3>1. B!ToSet(log)' = B!ToSet(log) \union {m}
      BY <1>2 DEF B!ToSet
    <3> QED
      BY <2>1, <3>1 DEF B!OneWay
  <2>5. MadeOnce'
    <3>1. B!ToSet(log)' = B!ToSet(log) \union {m}
      BY <1>2 DEF B!ToSet
    <3>2. ASSUME NEW q \in Processes
          PROVE  /\ tasks'[q] \subseteq tasks[q] /\ tasks'[q] \intersect (B!ToSet(log) \union {m}) = {}
                 /\ tasks[q] \subseteq 1 .. made /\ local[q] \subseteq 1 .. made
                 /\ \A r \in Processes :
                      /\ tasks'[q] \intersect local[r] = {}
                      /\ q # r => tasks'[q] \intersect tasks'[r] = {}
      <4>1. /\ tasks[q] \subseteq 1 .. made /\ local[q] \subseteq 1 .. made
            /\ tasks[q] \intersect B!ToSet(log) = {}
            /\ \A r \in Processes :
                 tasks[q] \intersect local[r] = {} /\ (q # r => tasks[q] \intersect tasks[r] = {})
        BY Zenon DEF MadeOnce
      <4>2. ASSUME NEW r \in Processes PROVE tasks'[r] \subseteq tasks[r] /\ m \notin tasks'[r]
        <5>1. CASE r = p
          <6>1. tasks'[r] = tasks[r] \ {m}
            BY <2>2, <5>1
          <6> QED
            BY <6>1, Zenon
        <5>2. CASE r # p
          BY <2>1, <2>2, <5>2
        <5> QED
          BY <5>1, <5>2
      <4> HIDE DEF FanOut
      <4> QED
        BY <4>1, <4>2
    <3>3. B!ToSet(log) \union {m} \subseteq 1 .. made
      BY <2>3 DEF MadeOnce
    <3> HIDE DEF FanOut
    <3> QED
      BY <2>3, <3>1, <3>2, <3>3, Zenon DEF MadeOnce
  <2> QED
    BY <2>4, <2>5
<1> QED
  BY <1>4, <1>5, <1>6, <1>7, <1>8

\* A broadcast is published, or fails to be, or is shown by the process itself.
LEMMA BroadcastFans ==
  ASSUME FanOut, NEW p \in Processes, NEW m \in tasks[p], B!Broadcast(p, m) PROVE FanOut'
<1> USE DEF FanOut, B!BackplaneAgrees
<1>1. \A q \in Processes : tasks'[q] = IF q = p THEN tasks[q] \ {m} ELSE tasks[q]
  BY DEF B!Broadcast, MessagesTyped
<1>2. CASE place[p] = "serving" /\ UNCHANGED <<inbox, log, begun>>
  <2>1. UNCHANGED <<place, consumer, since, inbox, shown, local, begun, log, made, lost>>
    BY <1>2 DEF B!Broadcast
  <2>2. \A q \in Processes : tasks'[q] \subseteq tasks[q]
    BY <1>1
  <2>3. tasks' \in [Processes -> SUBSET Nat]
    BY DEF B!Broadcast, MessagesTyped
  <2>4. B!TypeOK' /\ MessagesTyped'
    BY <2>1, <2>2, <2>3 DEF B!TypeOK, MessagesTyped, B!Messages
  <2>5. B!NothingSkipped' /\ B!OwnServed' /\ B!OneWay' /\ ServingListens'
    BY <2>1 DEF B!NothingSkipped, B!Subscribed, B!OwnServed, B!OneWay, ServingListens
  <2>6. MadeOnce'
    BY <2>1, <2>2 DEF MadeOnce
  <2> QED
    BY <2>4, <2>5, <2>6
<1>3. CASE place[p] = "serving" /\ ~UNCHANGED <<inbox, log, begun>>
  <2>1. /\ UNCHANGED <<place, consumer, since, shown, local, made, lost>>
        /\ tasks' = [tasks EXCEPT ![p] = @ \ {m}]
        /\ \E times \in {<<m>>, <<m, m>>} :
             /\ log' = log \o times
             /\ inbox' = [q \in Processes |->
                            IF B!Subscribed(q) THEN inbox[q] \o times ELSE inbox[q]]
             /\ begun' = [begun EXCEPT ![p] = @ \cup {m}]
    BY <1>3 DEF B!Broadcast, B!Publish
  <2>2. PICK times \in {<<m>>, <<m, m>>} :
          /\ log' = log \o times
          /\ inbox' = [q \in Processes |->
                         IF B!Subscribed(q) THEN inbox[q] \o times ELSE inbox[q]]
          /\ begun' = [begun EXCEPT ![p] = @ \cup {m}]
    BY <2>1
  <2> HIDE DEF FanOut
  <2> QED
    BY <1>3, <2>1, <2>2, PublishFans
<1>4. CASE place[p] # "serving"
  <2>1. /\ UNCHANGED <<place, consumer, since, inbox, shown, log, made, lost>>
        /\ tasks' = [tasks EXCEPT ![p] = @ \ {m}]
        /\ local' = [local EXCEPT ![p] = @ \cup {m}]
        /\ begun' = [begun EXCEPT ![p] = @ \cup {m}]
    BY <1>4 DEF B!Broadcast
  <2>2. /\ \A q \in Processes : local'[q] = IF q = p THEN local[q] \union {m} ELSE local[q]
        /\ \A q \in Processes : begun'[q] = IF q = p THEN begun[q] \union {m} ELSE begun[q]
    BY <2>1 DEF MessagesTyped
  <2>3. m \in Nat /\ m \in B!Messages /\ m \in 1 .. made
    BY DEF MessagesTyped, B!TypeOK, MadeOnce
  <2>4. B!TypeOK' /\ MessagesTyped'
    <3>1. ASSUME NEW q \in Processes PROVE tasks'[q] \subseteq B!Messages /\ local'[q] \subseteq B!Messages
      <4>1. tasks[q] \subseteq B!Messages /\ local[q] \subseteq B!Messages
        BY Zenon DEF B!TypeOK
      <4>2. m \in B!Messages /\ tasks'[q] \subseteq tasks[q] /\ local'[q] \subseteq local[q] \union {m}
        BY <1>1, <2>2, <2>3
      <4> QED
        BY <4>1, <4>2, Zenon
    <3>2. /\ tasks' \in [Processes -> SUBSET Nat] /\ local' \in [Processes -> SUBSET Nat]
          /\ begun' \in [Processes -> SUBSET Nat]
      BY <2>1, <2>3 DEF MessagesTyped
    <3> QED
      BY <2>1, <3>1, <3>2 DEF B!TypeOK, MessagesTyped, B!Messages
  <2>5. B!NothingSkipped' /\ ServingListens'
    BY <2>1 DEF B!NothingSkipped, B!Subscribed, ServingListens
  <2>6. B!OwnServed'
    BY <2>1, <2>2 DEF B!OwnServed
  <2>7. /\ \A q \in Processes : tasks'[q] \subseteq tasks[q] /\ m \notin tasks'[q]
        /\ m \notin B!ToSet(log)
    BY <1>1 DEF MadeOnce
  <2>8. B!OneWay'
    BY <2>1, <2>2, <2>7 DEF B!OneWay
  <2>9. MadeOnce'
    <3>1. ASSUME NEW q \in Processes
          PROVE  /\ tasks'[q] \subseteq 1 .. made /\ local'[q] \subseteq 1 .. made
                 /\ tasks'[q] \intersect B!ToSet(log) = {}
                 /\ \A r \in Processes :
                      /\ tasks'[q] \intersect local'[r] = {}
                      /\ q # r => tasks'[q] \intersect tasks'[r] = {}
      <4>1. /\ tasks[q] \subseteq 1 .. made /\ local[q] \subseteq 1 .. made
            /\ tasks[q] \intersect B!ToSet(log) = {}
            /\ \A r \in Processes :
                 tasks[q] \intersect local[r] = {} /\ (q # r => tasks[q] \intersect tasks[r] = {})
        BY Zenon DEF MadeOnce
      <4>2. /\ m \in 1 .. made /\ tasks'[q] \subseteq tasks[q] /\ m \notin tasks'[q]
            /\ \A r \in Processes :
                 tasks'[r] \subseteq tasks[r] /\ local'[r] \subseteq local[r] \union {m}
        BY <2>2, <2>3, <2>7
      <4> HIDE DEF FanOut
      <4>3. tasks'[q] \subseteq 1 .. made /\ local'[q] \subseteq 1 .. made
        BY <4>1, <4>2
      <4>4. tasks'[q] \intersect B!ToSet(log) = {}
        BY <4>1, <4>2
      <4>5. ASSUME NEW r \in Processes
            PROVE  /\ tasks'[q] \intersect local'[r] = {}
                   /\ q # r => tasks'[q] \intersect tasks'[r] = {}
        BY <4>1, <4>2
      <4> QED
        BY <4>3, <4>4, <4>5
    <3>2. B!ToSet(log) \subseteq 1 .. made
      BY DEF MadeOnce
    <3>3. made' = made /\ log' = log
      BY <2>1
    <3> HIDE DEF FanOut
    <3> QED
      BY <3>1, <3>2, <3>3, Zenon DEF MadeOnce
  <2> QED
    BY <2>4, <2>5, <2>6, <2>8, <2>9
<1> QED
  BY <1>2, <1>3, <1>4

\* A message goes from the subscription to the sockets.
LEMMA DeliveryFans ==
  ASSUME FanOut, NEW p \in Processes, B!Take(p) \/ B!Delivered(p) PROVE FanOut'
<1> USE DEF FanOut, B!BackplaneAgrees
<1>1. /\ UNCHANGED <<place, since, local, begun, tasks, log, made, lost>>
      /\ consumer' \in [Processes -> {"listening", "delivering", "failed", "cancelled"}]
      /\ consumer[p] \in {"listening", "delivering"} /\ consumer'[p] \in {"listening", "delivering"}
      /\ consumer'[p] = "delivering" => inbox'[p] # <<>>
      /\ \A q \in Processes \ {p} : consumer'[q] = consumer[q]
  BY DEF B!Take, B!Delivered, B!TypeOK
<1>2. ASSUME NEW q \in Processes
      PROVE  /\ shown'[q] \in Seq(Nat) /\ inbox'[q] \in Seq(Nat)
             /\ shown'[q] \o inbox'[q] = shown[q] \o inbox[q]
             /\ q # p => shown'[q] = shown[q] /\ inbox'[q] = inbox[q]
  <2>1. shown[q] \in Seq(Nat) /\ inbox[q] \in Seq(Nat)
    BY DEF MessagesTyped
  <2>2. CASE shown'[q] = shown[q] /\ inbox'[q] = inbox[q]
    BY <2>1, <2>2
  <2>3. CASE ~(shown'[q] = shown[q] /\ inbox'[q] = inbox[q])
    <3>1. B!Delivered(p)
      BY <2>3 DEF B!Take
    <3>2. q = p
      BY <2>3, <3>1 DEF B!Delivered, MessagesTyped
    <3>3. inbox[q] # <<>>
      BY <3>1, <3>2 DEF B!Delivered, ServingListens
    <3>4. shown'[q] = Append(shown[q], Head(inbox[q])) /\ inbox'[q] = Tail(inbox[q])
      BY <3>1, <3>2 DEF B!Delivered, MessagesTyped
    <3> DEFINE a == shown[q]
               b == inbox[q]
    <3>5. a \in Seq(Nat) /\ b \in Seq(Nat) /\ b # <<>>
      BY <2>1, <3>3
    <3>6. shown'[q] = Append(a, Head(b)) /\ inbox'[q] = Tail(b)
      BY <3>4
    <3> HIDE DEF a, b
    <3>7. /\ Append(a, Head(b)) \in Seq(Nat) /\ Tail(b) \in Seq(Nat)
          /\ Append(a, Head(b)) \o Tail(b) = a \o b
      BY <3>5, MessageMoves
    <3> QED
      BY <3>2, <3>6, <3>7, Zenon DEF a, b
  <2> QED
    BY <2>2, <2>3
<1>3. B!TypeOK' /\ MessagesTyped'
  <2>1. inbox' \in [Processes -> Seq(Nat)] /\ shown' \in [Processes -> Seq(Nat)]
    <3>1. inbox' = [q \in Processes |-> inbox'[q]] /\ shown' = [q \in Processes |-> shown'[q]]
      <4>1. CASE B!Take(p)
        BY <4>1 DEF B!Take, MessagesTyped
      <4>2. CASE B!Delivered(p)
        BY <4>2 DEF B!Delivered, MessagesTyped
      <4> QED
        BY <4>1, <4>2
    <3> QED
      BY <1>2, <3>1
  <2> QED
    BY <1>1, <2>1 DEF B!TypeOK, MessagesTyped, B!Messages
<1>4. B!NothingSkipped'
  <2> SUFFICES ASSUME NEW q \in Processes
               PROVE  /\ B!IsPrefix(shown'[q], SubSeq(log, since[q] + 1, Len(log)))
                      /\ B!Subscribed(q)' =>
                           shown'[q] \o inbox'[q] = SubSeq(log, since[q] + 1, Len(log))
    BY <1>1 DEF B!NothingSkipped
  <2>1. B!Subscribed(q)' <=> B!Subscribed(q)
    BY <1>1 DEF B!Subscribed
  <2>2. CASE q = p
    <3> DEFINE rest == SubSeq(log, since[q] + 1, Len(log))
    <3>1. shown'[q] \o inbox'[q] = rest
      BY <1>1, <1>2, <2>2 DEF B!NothingSkipped, B!Subscribed
    <3> HIDE DEF rest
    <3>2. B!IsPrefix(shown'[q], shown'[q] \o inbox'[q])
      BY <1>2, PrefixOfConcat
    <3>3. B!IsPrefix(shown'[q], rest)
      BY <3>1, <3>2
    <3> QED
      BY <3>1, <3>3 DEF rest
  <2>3. CASE q # p
    BY <1>2, <2>1, <2>3 DEF B!NothingSkipped
  <2> QED
    BY <2>2, <2>3
<1>5. B!OwnServed'
  <2>1. ASSUME NEW q \in Processes
        PROVE  /\ B!ToSet(shown[q] \o inbox[q])' = B!ToSet(shown[q] \o inbox[q])
               /\ consumer'[q] # "failed" => consumer[q] # "failed"
    <3>1. (shown[q] \o inbox[q])' = shown[q] \o inbox[q]
      BY <1>2
    <3>2. consumer'[q] # "failed" => consumer[q] # "failed"
      BY <1>1
    <3> QED
      BY <3>1, <3>2, Zenon DEF B!ToSet
  <2>2. place' = place /\ begun' = begun /\ local' = local
    BY <1>1
  <2> QED
    BY <2>1, <2>2, Zenon DEF B!OwnServed
<1>6. B!OneWay' /\ ServingListens' /\ MadeOnce'
  <2>1. B!ToSet(log)' = B!ToSet(log)
    BY <1>1 DEF B!ToSet
  <2>2. ServingListens'
    BY <1>1, <1>2 DEF ServingListens
  <2> QED
    BY <1>1, <2>1, <2>2 DEF B!OneWay, MadeOnce
<1> QED
  BY <1>3, <1>4, <1>5, <1>6

\* A connection is lost for good, or the lifespan closes.
LEMMA CancelFans ==
  ASSUME FanOut, NEW p \in Processes,
         \/ consumer' = [consumer EXCEPT ![p] = "failed"] /\ place' = place
         \/ B!Stop(p),
         UNCHANGED <<since, inbox, shown, local, begun, tasks, log, made>>
  PROVE  FanOut'
<1> USE DEF FanOut, B!BackplaneAgrees
<1>1. /\ place' \in [Processes -> {"down", "serving", "closing"}]
      /\ consumer' \in [Processes -> {"listening", "delivering", "failed", "cancelled"}]
  BY DEF B!Stop, B!TypeOK
<1>2. ASSUME NEW q \in Processes
      PROVE  /\ B!Subscribed(q)' => B!Subscribed(q)
             /\ place'[q] # "down" => place[q] # "down"
             /\ consumer'[q] # "failed" => consumer[q] # "failed"
             /\ place'[q] = "serving" => place[q] = "serving" /\ consumer'[q] # "cancelled"
             /\ consumer'[q] = "delivering" => consumer[q] = "delivering"
  BY DEF B!Stop, B!TypeOK, B!Subscribed, ServingListens
<1>3. B!TypeOK' /\ MessagesTyped'
  BY <1>1 DEF B!TypeOK, MessagesTyped
<1>4. B!NothingSkipped' /\ B!OwnServed' /\ B!OneWay' /\ ServingListens' /\ MadeOnce'
  BY <1>2 DEF B!NothingSkipped, B!OwnServed, B!OneWay, ServingListens, MadeOnce
<1> QED
  BY <1>3, <1>4

LEMMA EndFans == ASSUME FanOut, NEW p \in Processes, B!End(p) PROVE FanOut'
<1> USE DEF FanOut, B!BackplaneAgrees, B!End
<1>1. <<>> \in Seq(Nat) /\ Len(log) \in Nat
  BY EmptySeq, LenProperties DEF MessagesTyped
<1>2. B!TypeOK' /\ MessagesTyped'
  BY <1>1 DEF B!TypeOK, MessagesTyped, B!Messages
<1>3. B!NothingSkipped'
  <2> SUFFICES ASSUME NEW q \in Processes
               PROVE  /\ B!IsPrefix(shown'[q], SubSeq(log, since'[q] + 1, Len(log)))
                      /\ B!Subscribed(q)' =>
                           shown'[q] \o inbox'[q] = SubSeq(log, since'[q] + 1, Len(log))
    BY DEF B!NothingSkipped
  <2>1. CASE q = p
    <3>1. shown'[q] = <<>> /\ since'[q] = 0 /\ ~B!Subscribed(q)'
      BY <2>1 DEF B!TypeOK, MessagesTyped, B!Subscribed
    <3>2. SubSeq(log, 0 + 1, Len(log)) = log
      <4>1. SubSeq(log, 1, Len(log)) = log /\ 0 + 1 = 1
        BY SubSeqFull DEF MessagesTyped
      <4> QED
        BY <4>1, Zenon
    <3>3. B!IsPrefix(<<>>, <<>> \o log) /\ <<>> \o log = log
      BY <1>1, PrefixOfConcat, ConcatEmptySeq DEF MessagesTyped
    <3>4. B!IsPrefix(<<>>, log)
      BY <3>3, Zenon
    <3> QED
      BY <3>1, <3>2, <3>4, Zenon
  <2>2. CASE q # p
    <3>1. /\ shown'[q] = shown[q] /\ inbox'[q] = inbox[q] /\ since'[q] = since[q]
          /\ B!Subscribed(q)' <=> B!Subscribed(q)
      BY <2>2 DEF B!TypeOK, MessagesTyped, B!Subscribed
    <3> QED
      BY <3>1 DEF B!NothingSkipped
  <2> QED
    BY <2>1, <2>2
<1>4. B!OwnServed'
  BY DEF B!OwnServed, B!TypeOK, MessagesTyped
<1>5. B!OneWay' /\ ServingListens' /\ MadeOnce'
  BY DEF B!OneWay, ServingListens, MadeOnce, B!TypeOK, MessagesTyped
<1> QED
  BY <1>2, <1>3, <1>4, <1>5

LEMMA FanOutNext == FanOut /\ [B!Next]_backplaneVars => FanOut'
<1> SUFFICES ASSUME FanOut, [B!Next]_backplaneVars PROVE FanOut'
  OBVIOUS
<1>1. CASE UNCHANGED backplaneVars
  BY <1>1 DEF backplaneVars, FanOut, B!BackplaneAgrees, B!TypeOK, B!NothingSkipped, B!Subscribed,
    B!OwnServed, B!OneWay, MessagesTyped, ServingListens, MadeOnce
<1>2. ASSUME NEW p \in Processes, B!Start(p) PROVE FanOut'
  BY <1>2, SubscribeFans DEF B!Start
<1>3. ASSUME NEW p \in Processes, B!Disconnect(p) PROVE FanOut'
  <2>1. CASE B!Subscribe(p)
    BY <1>3, <2>1, SubscribeFans DEF B!Disconnect
  <2>2. CASE ~B!Subscribe(p)
    BY <1>3, <2>2, CancelFans DEF B!Disconnect
  <2> QED
    BY <2>1, <2>2
<1>4. ASSUME NEW p \in Processes, B!Stop(p) PROVE FanOut'
  BY <1>4, CancelFans DEF B!Stop
<1> QED
  BY <1>1, <1>2, <1>3, <1>4, ScheduleFans, BroadcastFans, DeliveryFans, EndFans DEF B!Next

-----------------------------------------------------------------------------
(* The registry, the backplane and the page take their steps one by one.   *)

\* Whatever the processes and pages, messages and failures: processes that stay subscribed
\* show the same messages in the same order and none misses its own, and a page keeps one
\* socket going, for its topics, and shows whether it is up.
THEOREM LiveUpdatesReach == MCSpec => []LiveUpdatesHold
<1> DEFINE Holds == FanOut /\ P!SocketsAgree
<1>1. MCInit => Holds
  BY FanOutInit, PageInit DEF MCInit
<1>2. Holds /\ [MCNext]_<<part, vars, backplaneVars, pageVars>> => Holds'
  <2> SUFFICES ASSUME Holds, [MCNext]_<<part, vars, backplaneVars, pageVars>> PROVE Holds'
    OBVIOUS
  <2>1. [B!Next]_backplaneVars /\ [P!Next]_pageVars
    BY DEF MCNext, RegistryStep, BackplaneStep, PageStep
  <2> QED
    BY <2>1, FanOutNext, PageNext
<1>3. Holds => LiveUpdatesHold
  BY DEF FanOut, LiveUpdatesHold
<1> QED
  BY <1>1, <1>2, <1>3, PTL DEF MCSpec
=============================================================================
