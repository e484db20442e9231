------------------------- MODULE RobotListenerProofs -------------------------
(***************************************************************************)
(* Theorems about the Robot Framework listener, for any run of Robot.      *)
(***************************************************************************)
EXTENDS MCRobotListener, SequenceTheorems, TLAPS

-----------------------------------------------------------------------------
(* Where Robot and the listener are.                                       *)

Names == {Script[k].name : k \in {j \in DOMAIN Script : Script[j].kind = "start_suite"}}
Paths == Seq(Names)
Places == [suites : Seq(Paths), test : Tests \union {"none"}, item : Steps \union {0}, depth : Nat]
Here == Place[at]

\* The place of Robot, as far into the run as it is.
RobotHolds ==
  /\ at \in 1 .. Len(Script) + 1
  /\ Here \in Places /\ Here.depth < at
  /\ Here.test = "none" => Here.item = 0 /\ Here.depth = 0
  /\ Here.test # "none" => Here.item + 2 <= at /\ at > 1
  /\ Here.depth > 0 => Here.item # 0

Chained ==
  {"find_case", "stamp_case", "unarchive_case", "create_case", "find_created_case",
   "refresh_case", "sync_steps", "create_result", "mark_running"}
Called ==
  Chained \union {"find_or_create_suite", "start_step", "append_log", "end_step", "end_test", "batch"}

\* What the call a handler is in says of the event and of the listener.
CallHolds ==
  /\ pc \in Called \union {"robot"}
  /\ pc # "robot" => at \in DOMAIN Script
  /\ pc = "find_or_create_suite" => Event.kind = "start_suite"
  /\ pc \in Chained => Event.kind = "start_test" /\ test = NoTest
  /\ pc = "start_step" =>
       Event.kind = "start_item" /\ test # NoTest /\ Here.depth = 0
  /\ pc = "append_log" => Event.kind = "log" /\ step # NoStep
  /\ pc = "end_step" => Event.kind = "end_item" /\ step # NoStep /\ Here.depth = 1
  /\ pc \in {"end_test", "batch"} => Event.kind = "end_test" /\ test # NoTest

\* The listener is in the test and in the item Robot is in, if it follows the test.
PositionHolds ==
  /\ followed \subseteq Tests
  /\ \A t \in followed : \E j \in 1 .. at - 1 : Script[j].kind = "start_test" /\ Script[j].name = t
  /\ test = [id |-> test.id, cursor |-> test.cursor, pending |-> test.pending]
  /\ step = [item |-> step.item, hasRow |-> step.hasRow, buffer |-> step.buffer]
  /\ test = NoTest \/ (test.id = Here.test /\ test.id \in followed)
  /\ test = NoTest => Here.test \notin followed
  /\ step # NoStep <=> test # NoTest /\ Here.depth > 0
  /\ step # NoStep => step.item = Here.item
  /\ test # NoTest => test.cursor = IF Here.depth > 0 THEN Here.item ELSE Here.item + 1
  /\ depth = CASE pc = "start_step" -> 1 [] pc = "end_step" -> 0 [] OTHER -> Here.depth

WhereHolds == RobotHolds /\ CallHolds /\ PositionHolds

-----------------------------------------------------------------------------
(* Suites and cases.                                                       *)

SuitesHold ==
  /\ stack \in Seq(Paths \union {NoId}) /\ home = [t \in Tests |-> home[t]]
  /\ isRoot => at = 1
  /\ at = 1 /\ pc = "robot" => isRoot
  /\ pc = "find_or_create_suite" =>
       (stack = <<>> \/ SuiteId # NoId) /\ ~(at = 1 /\ Event.directory) /\ ~isRoot
  /\ pc \in Chained => SuiteId # NoId
  /\ ~escaped =>
       /\ Len(stack) = Len(Here.suites)
       /\ \A j \in 1 .. Len(stack) : stack[j] \in {Here.suites[j], NoId}
  /\ TestsInTheirSuite

CasesHold ==
  /\ case \in [Tests -> CaseStates]
  /\ CaseIsPutRight
  /\ pc = "create_case" => case[Event.name] \in {"none", "active", "foreign"}
  /\ pc \in {"find_created_case", "refresh_case", "sync_steps", "create_result", "mark_running"} =>
       case[Event.name] \in {"active", "foreign"}

-----------------------------------------------------------------------------
(* Steps.                                                                  *)

LinesOf(i, n) == [k \in 1 .. n |-> <<i, k>>]
InOrder(log, i, n) ==
  /\ log \in Seq({i} \X (1 .. n))
  /\ \A j, k \in 1 .. Len(log) : j < k => log[j][2] < log[k][2]

\* The lines of item i of test t, but for the one that is being sent.
Sent(t, i) ==
  IF pc = "append_log" /\ t = test.id /\ i = step.item THEN said[t][i] - 1 ELSE said[t][i]

\* The listener still has something to report of item i of test t.
Keeps(t, i) ==
  test.id = t /\ (step.item = i \/ \E k \in 1 .. Len(test.pending) : test.pending[k].item = i)

Logs == Seq(Steps \X Nat)
TypesHold ==
  /\ verdict \in [Tests -> [Steps -> Verdicts \union {"none"}]]
  /\ said \in [Tests -> [Steps -> Nat]] /\ failed \in [Tests -> [Steps -> BOOLEAN]]
  /\ row \in [Tests -> [Steps -> [status : RowStatuses, log : Logs]]]
  /\ hit \subseteq Tests /\ streaming \in BOOLEAN
  /\ test \in [id : Tests \union {"none"}, cursor : Nat \ {0},
               pending : Seq([item : Steps, status : Verdicts, log : Logs])]
  /\ step \in [item : Steps \union {0}, hasRow : BOOLEAN, buffer : Logs]
  /\ test.id = "none" => test = NoTest
  /\ step.item = 0 => step = NoStep
  /\ \A t \in Tests, i \in Steps : said[t][i] < at \/ (pc = "append_log" /\ said[t][i] <= at)

Started == {Script[j].name : j \in {k \in 1 .. at - 1 : Script[k].kind = "start_test"}}

ItemHolds(t, i) ==
  /\ InOrder(row[t][i].log, i, Sent(t, i))
  /\ t \notin followed \/ (t = test.id /\ i >= test.cursor /\ i # step.item) =>
       row[t][i] = NoRow /\ said[t][i] = 0 /\ ~failed[t][i]
  /\ t \notin Started => verdict[t][i] = "none"
  /\ t = test.id /\ verdict[t][i] # "none" =>
       i < test.cursor \/ (i = step.item /\ pc = "end_step")
  /\ t \in followed /\ verdict[t][i] # "none" /\ ~Keeps(t, i) =>
       /\ t \notin hit => row[t][i].status = verdict[t][i]
       /\ ~failed[t][i] =>
            row[t][i].status = verdict[t][i] /\ row[t][i].log = LinesOf(i, said[t][i])

\* The item the listener is in.
StepHolds ==
  LET t == test.id
      i == step.item
  IN
  /\ InOrder(step.buffer, i, Sent(t, i))
  /\ streaming /\ ~step.hasRow => t \in hit
  /\ ~failed[t][i] =>
       IF step.hasRow THEN streaming /\ step.buffer = <<>> /\ row[t][i].log = LinesOf(i, Sent(t, i))
       ELSE ~streaming /\ step.buffer = LinesOf(i, said[t][i])
  /\ pc = "append_log" => step.hasRow /\ said[t][i] > 0
  /\ pc = "end_step" => step.hasRow /\ verdict[t][i] # "none"

\* What waits for the batch.
PendingHolds ==
  /\ streaming /\ test.pending # <<>> => test.id \in hit
  /\ \A k \in 1 .. Len(test.pending) :
       LET r == test.pending[k] IN
       /\ r.status = verdict[test.id][r.item] /\ r.item < test.cursor
       /\ InOrder(r.log, r.item, said[test.id][r.item])
       /\ ~failed[test.id][r.item] => ~streaming /\ r.log = LinesOf(r.item, said[test.id][r.item])
       /\ \A j \in 1 .. Len(test.pending) : j # k => test.pending[j].item # r.item

StepsHold ==
  /\ TypesHold
  /\ \A t \in Tests, i \in Steps : ItemHolds(t, i)
  /\ step # NoStep => StepHolds
  /\ PendingHolds
  /\ pc = "batch" => ~streaming
  /\ pc = "start_step" => streaming

\* The calls of the listener wait for at most one timeout per failure that is allowed.
WaitHolds ==
  /\ AdapterTypeOK /\ WaitIsBounded
  /\ failures < MaxFailures => waited <= failures
  /\ ~cooling => waited = 0

-----------------------------------------------------------------------------
(* Robot goes on.                                                          *)

LEMMA ScriptFacts ==
  /\ Len(Script) \in Nat \ {0} /\ DOMAIN Script = 1 .. Len(Script)
  /\ Place[1] = Nowhere
  /\ \A k \in DOMAIN Script : May(Place[k], k) /\ Place[k + 1] = Leads(Place[k], k)
  BY ScriptAssumption

LEMMA LastOf ==
  ASSUME NEW S, NEW s \in Seq(S), s # <<>>
  PROVE  Last(s) \in S /\ Front(s) \in Seq(S) /\ Len(Front(s)) = Len(s) - 1 /\ Last(s) = s[Len(s)]
         /\ Len(s) \in Nat \ {0} /\ \A j \in 1 .. Len(s) - 1 : Front(s)[j] = s[j]
<1>1. Len(s) \in Nat \ {0} /\ \A j \in 1 .. Len(s) : s[j] \in S
  BY EmptySeq, LenProperties, ElementOfSeq
<1>2. /\ SubSeq(s, 1, Len(s) - 1) \in Seq(S) /\ Len(SubSeq(s, 1, Len(s) - 1)) = Len(s) - 1
      /\ \A j \in 1 .. Len(s) - 1 : SubSeq(s, 1, Len(s) - 1)[j] = s[j]
  <2> DEFINE n == Len(s) - 1
  <2>1. n \in Int /\ 1 \in Int /\ \A j \in 1 .. n : s[j] \in S
    BY <1>1
  <2>2. n = Len(s) - 1 /\ n \in Nat
    BY <1>1
  <2> HIDE DEF n
  <2>3. /\ SubSeq(s, 1, n) \in Seq(S) /\ Len(SubSeq(s, 1, n)) = IF 1 <= n THEN n - 1 + 1 ELSE 0
        /\ \A j \in 1 .. n - 1 + 1 : SubSeq(s, 1, n)[j] = s[1 + j - 1]
    BY <2>1, SubSeqProperties
  <2>4. Len(SubSeq(s, 1, n)) = n /\ \A j \in 1 .. n : SubSeq(s, 1, n)[j] = s[j]
    BY <2>2, <2>3
  <2> QED
    BY <2>2, <2>3, <2>4
<1> QED
  BY <1>1, <1>2 DEF Last, Front

LEMMA PathsAre ==
  ASSUME NEW suites \in Seq(Paths), NEW name \in Names
  PROVE  PathIn(suites, name) \in Paths
<1>1. CASE suites = <<>>
  <2>1. <<name>> \in Seq(Names)
    OBVIOUS
  <2> QED
    BY <1>1, <2>1 DEF PathIn, Paths
<1>2. CASE suites # <<>>
  <2>1. Last(suites) \in Paths
    BY <1>2, LastOf
  <2> DEFINE s == Last(suites)
  <2> HIDE DEF s
  <2>2. s \in Seq(Names) => Append(s, name) \in Seq(Names)
    OBVIOUS
  <2> QED
    BY <1>2, <2>1, <2>2 DEF PathIn, Paths, s
<1> QED
  BY <1>1, <1>2

LEMMA RobotMoves == ASSUME RobotHolds, at \in DOMAIN Script, at' = at + 1 PROVE RobotHolds'
<1> DEFINE p == Place[at]
           q == Place[at + 1]
           e == Script[at]
<1>1. /\ Len(Script) \in Nat /\ DOMAIN Script = 1 .. Len(Script) /\ at \in Nat \ {0}
      /\ May(p, at) /\ q = Leads(p, at) /\ at' \in 1 .. Len(Script) + 1
  BY ScriptFacts
<1>2. /\ p \in Places /\ p.depth < at
      /\ p.test = "none" => p.item = 0 /\ p.depth = 0
      /\ p.test # "none" => p.item + 2 <= at /\ at > 1
      /\ p.depth > 0 => p.item # 0
  BY DEF RobotHolds, Here
<1>n. Steps \subseteq Nat \ {0} /\ "none" \notin Tests
  BY NamesAssumption
<1> SUFFICES /\ q \in Places /\ q.depth < at'
             /\ q.test = "none" => q.item = 0 /\ q.depth = 0
             /\ q.test # "none" => q.item + 2 <= at' /\ at' > 1
             /\ q.depth > 0 => q.item # 0
  BY <1>1 DEF RobotHolds, Here
<1>3. CASE p.test = "none" /\ e.kind = "start_suite"
  <2>1. q = p \/ q = [p EXCEPT !.suites = Append(@, PathIn(@, e.name))]
    BY <1>1, <1>3 DEF Leads
  <2>2. e.name \in Names
    BY <1>3 DEF Names
  <2> DEFINE x == PathIn(p.suites, e.name)
  <2>3. x \in Paths
    BY <1>2, <2>2, PathsAre DEF Places
  <2> HIDE DEF x
  <2>4. q = p \/ q = [p EXCEPT !.suites = Append(p.suites, x)]
    BY <2>1 DEF x
  <2>5. PICK y \in Seq(Paths) : q = p \/ q = [p EXCEPT !.suites = y]
    <3>1. p.suites \in Seq(Paths)
      BY <1>2 DEF Places
    <3> DEFINE z == Append(p.suites, x)
    <3>2. z \in Seq(Paths)
      BY <2>3, <3>1
    <3>3. q = p \/ q = [p EXCEPT !.suites = z]
      BY <2>4
    <3> HIDE DEF z, q, p
    <3> QED
      BY <3>2, <3>3
  <2> HIDE DEF q, p, e
  <2> QED
    BY <1>1, <1>2, <1>3, <2>5 DEF Places
<1>4. CASE p.test = "none" /\ e.kind = "end_suite"
  <2>1. q = p \/ (p.suites # <<>> /\ q = [p EXCEPT !.suites = Front(p.suites)])
    BY <1>1, <1>2, <1>4 DEF Leads, Places
  <2>2. p.suites # <<>> => Front(p.suites) \in Seq(Paths)
    BY <1>2, LastOf DEF Places
  <2> HIDE DEF q, p, e
  <2> QED
    BY <1>1, <1>2, <1>4, <2>1, <2>2 DEF Places
<1>5. CASE p.test = "none" /\ e.kind = "start_test"
  <2>1. q = [p EXCEPT !.test = e.name] /\ e.name \in Tests /\ at > 1
    BY <1>1, <1>5 DEF Leads, May
  <2> HIDE DEF q, p, e
  <2> QED
    BY <1>1, <1>2, <1>5, <1>n, <2>1 DEF Places
<1>6. CASE p.test # "none" /\ e.kind = "start_item"
  <2>1. /\ q = [p EXCEPT !.depth = p.depth + 1, !.item = IF p.depth = 0 THEN p.item + 1 ELSE p.item]
        /\ p.depth = 0 => p.item + 1 \in Steps
    BY <1>1, <1>6 DEF Leads, May
  <2> HIDE DEF q, p, e
  <2>2. q.test = p.test /\ q.depth = p.depth + 1 /\ q.suites = p.suites
        /\ q.item = IF p.depth = 0 THEN p.item + 1 ELSE p.item
    BY <1>2, <2>1 DEF Places
  <2>3. q \in Places
    <3>1. q = [suites |-> q.suites, test |-> q.test, item |-> q.item, depth |-> q.depth]
      BY <1>2, <2>1 DEF Places
    <3>2. q.suites \in Seq(Paths) /\ q.test \in Tests /\ q.item \in Steps \union {0} /\ q.depth \in Nat
      BY <1>2, <1>6, <2>1, <2>2 DEF Places
    <3> QED
      BY <3>1, <3>2 DEF Places
  <2> QED
    BY <1>1, <1>2, <1>6, <1>n, <2>1, <2>2, <2>3 DEF Places
<1>7. CASE p.test # "none" /\ e.kind \in {"log", "end_item"} /\ p.depth > 0
  <2>1. q = p \/ q = [p EXCEPT !.depth = p.depth - 1]
    BY <1>1, <1>7 DEF Leads
  <2> HIDE DEF q, p, e
  <2> QED
    BY <1>1, <1>2, <1>7, <1>n, <2>1 DEF Places
<1>8. CASE p.test # "none" /\ e.kind = "end_test" /\ p.depth = 0
  <2>1. q = [p EXCEPT !.test = "none", !.item = 0]
    BY <1>1, <1>8 DEF Leads
  <2> HIDE DEF q, p, e
  <2>2. q = [suites |-> p.suites, test |-> "none", item |-> 0, depth |-> p.depth]
    BY <1>2, <2>1 DEF Places
  <2> QED
    BY <1>1, <1>2, <1>8, <2>2 DEF Places
<1> QED
  BY <1>1, <1>3, <1>4, <1>5, <1>6, <1>7, <1>8 DEF May

LEMMA NextPlace ==
  ASSUME RobotHolds, at \in DOMAIN Script
  PROVE  LET p == Place[at]
             q == Place[at + 1]
             e == Script[at]
         IN
         /\ e.kind \in {"start_suite", "end_suite"} =>
              p.test = "none" /\ q.test = "none" /\ q.item = 0 /\ q.depth = 0
         /\ e.kind = "start_test" =>
              /\ p.test = "none" /\ q.test = e.name /\ e.name \in Tests /\ q.item = 0 /\ q.depth = 0
              /\ p.suites # <<>> /\ q.suites = p.suites
              /\ \A j \in DOMAIN Script :
                   Script[j].kind = "start_test" /\ Script[j].name = e.name => j = at
         /\ e.kind = "start_item" =>
              /\ p.test # "none" /\ q.test = p.test /\ q.depth = p.depth + 1
              /\ q.item = IF p.depth = 0 THEN p.item + 1 ELSE p.item
              /\ p.depth = 0 => p.item + 1 \in Steps
         /\ e.kind = "log" => p.test # "none" /\ q = p /\ p.depth > 0
         /\ e.kind = "end_item" =>
              /\ p.test # "none" /\ q.test = p.test /\ q.item = p.item
              /\ q.depth = p.depth - 1 /\ p.depth > 0
         /\ e.kind = "end_test" =>
              p.test # "none" /\ q.test = "none" /\ q.item = 0 /\ q.depth = 0 /\ p.depth = 0
         /\ e.kind \notin {"start_suite", "end_suite"} => q.suites = p.suites
<1> DEFINE p == Place[at]
           q == Place[at + 1]
           e == Script[at]
<1>1. May(p, at) /\ q = Leads(p, at)
  BY ScriptFacts
<1>2. p \in Places /\ (p.test = "none" => p.item = 0 /\ p.depth = 0)
  BY DEF RobotHolds, Here
<1>3. e.kind \in {"start_suite", "end_suite"} =>
        p.test = "none" /\ q.test = "none" /\ q.item = 0 /\ q.depth = 0
  <2>1. CASE e.kind = "start_suite"
    <3>1. PICK y : q = p \/ q = [p EXCEPT !.suites = y]
      BY <1>1, <2>1 DEF Leads
    <3> QED
      BY <1>1, <1>2, <2>1, <3>1 DEF May, Places
  <2>2. CASE e.kind = "end_suite"
    <3>1. PICK y : q = [p EXCEPT !.suites = y]
      BY <1>1, <2>2 DEF Leads
    <3> QED
      BY <1>1, <1>2, <2>2, <3>1 DEF May, Places
  <2> QED
    BY <2>1, <2>2
<1>4. e.kind = "start_test" =>
        /\ p.test = "none" /\ q.test = e.name /\ e.name \in Tests /\ q.item = 0 /\ q.depth = 0
        /\ p.suites # <<>> /\ q.suites = p.suites
        /\ \A j \in DOMAIN Script :
             Script[j].kind = "start_test" /\ Script[j].name = e.name => j = at
  BY <1>1, <1>2 DEF May, Leads, Places
<1>5. e.kind = "start_item" =>
        /\ p.test # "none" /\ q.test = p.test /\ q.depth = p.depth + 1 /\ q.suites = p.suites
        /\ q.item = IF p.depth = 0 THEN p.item + 1 ELSE p.item
        /\ p.depth = 0 => p.item + 1 \in Steps
  BY <1>1, <1>2 DEF May, Leads, Places
<1>6. e.kind = "log" => p.test # "none" /\ q = p /\ p.depth > 0
  BY <1>1, <1>2 DEF May, Leads, Places
<1>7. e.kind = "end_item" =>
        /\ p.test # "none" /\ q.test = p.test /\ q.item = p.item /\ q.suites = p.suites
        /\ q.depth = p.depth - 1 /\ p.depth > 0
  BY <1>1, <1>2 DEF May, Leads, Places
<1>8. e.kind = "end_test" =>
        /\ p.test # "none" /\ q.test = "none" /\ q.item = 0 /\ q.depth = 0 /\ p.depth = 0
        /\ q.suites = p.suites
  BY <1>1, <1>2 DEF May, Leads, Places
<1>9. e.kind \in {"start_suite", "end_suite", "start_test", "start_item", "log", "end_item", "end_test"}
  BY <1>1 DEF May
<1> QED
  BY <1>3, <1>4, <1>5, <1>6, <1>7, <1>8, <1>9

-----------------------------------------------------------------------------
(* The listener is where Robot is.                                         *)

placeVars == <<test, step, depth, followed>>

LEMMA WhereFacts ==
  ASSUME WhereHolds
  PROVE  /\ at \in Nat \ {0} /\ Here \in Places /\ "none" \notin Tests
         /\ Here.test = "none" => test = NoTest
         /\ test = NoTest => step = NoStep
         /\ at <= Len(Script) => at \in DOMAIN Script
  BY ScriptFacts, NamesAssumption DEF WhereHolds, RobotHolds, PositionHolds

LEMMA WhereStays == ASSUME WhereHolds, UNCHANGED <<at, pc, placeVars>> PROVE WhereHolds'
<1>1. RobotHolds'
  BY DEF WhereHolds, RobotHolds, Here
<1>2. CallHolds'
  BY DEF WhereHolds, CallHolds, Here, Event, placeVars
<1>3. PositionHolds'
  BY DEF WhereHolds, PositionHolds, Here, placeVars
<1> QED
  BY <1>1, <1>2, <1>3 DEF WhereHolds

\* A call is made, or the next one.
LEMMA WhereCalls ==
  ASSUME WhereHolds, UNCHANGED <<at, placeVars>>, CallHolds',
         {pc, pc'} \intersect {"start_step", "end_step"} = {}
  PROVE  WhereHolds'
<1>1. RobotHolds'
  BY DEF WhereHolds, RobotHolds, Here
<1>2. PositionHolds'
  BY DEF WhereHolds, PositionHolds, Here, placeVars
<1> QED
  BY <1>1, <1>2 DEF WhereHolds

\* Robot goes on, and the listener is where it then is.
LEMMA WhereGoes ==
  ASSUME WhereHolds, at \in DOMAIN Script, Returns, followed' \subseteq Tests,
         followed' \subseteq followed \union
           {t \in {Event.name} : Event.kind = "start_test"},
         LET q == Place[at + 1] IN
           /\ test' = [id |-> test'.id, cursor |-> test'.cursor, pending |-> test'.pending]
           /\ step' = [item |-> step'.item, hasRow |-> step'.hasRow, buffer |-> step'.buffer]
           /\ test' = NoTest \/ (test'.id = q.test /\ test'.id \in followed')
           /\ test' = NoTest => q.test \notin followed'
           /\ step' # NoStep <=> test' # NoTest /\ q.depth > 0
           /\ step' # NoStep => step'.item = q.item
           /\ test' # NoTest => test'.cursor = IF q.depth > 0 THEN q.item ELSE q.item + 1
           /\ depth' = q.depth
  PROVE  WhereHolds'
<1>1. at' = at + 1 /\ pc' = "robot" /\ Here' = Place[at + 1] /\ at \in Nat
  BY WhereFacts DEF Returns, Here
<1>2. RobotHolds'
  BY <1>1, RobotMoves DEF WhereHolds
<1>3. CallHolds'
  BY <1>1 DEF CallHolds, Chained
<1>4. \A t \in followed' : \E j \in 1 .. at' - 1 : Script[j].kind = "start_test" /\ Script[j].name = t
  <2> SUFFICES ASSUME NEW t \in followed'
               PROVE  \E j \in 1 .. at : Script[j].kind = "start_test" /\ Script[j].name = t
    BY <1>1
  <2>1. CASE t \in followed
    <3>1. PICK j \in 1 .. at - 1 : Script[j].kind = "start_test" /\ Script[j].name = t
      BY <2>1 DEF WhereHolds, PositionHolds
    <3> QED
      BY <1>1, <3>1
  <2>2. CASE t \notin followed
    <3>1. Script[at].kind = "start_test" /\ Script[at].name = t
      BY <2>2 DEF Event
    <3>2. at \in 1 .. at
      BY WhereFacts
    <3> QED
      BY <3>1, <3>2
  <2> QED
    BY <2>1, <2>2
<1>5. PositionHolds'
  BY <1>1, <1>4 DEF PositionHolds
<1> QED
  BY <1>2, <1>3, <1>5 DEF WhereHolds

\* A test that starts is not followed.
LEMMA NotFollowed ==
  ASSUME WhereHolds, at \in DOMAIN Script, Event.kind = "start_test"
  PROVE  Event.name \notin followed
<1>1. \A j \in DOMAIN Script : Script[j].kind = "start_test" /\ Script[j].name = Event.name => j = at
  BY NextPlace DEF WhereHolds, Event
<1>2. \A j \in 1 .. at - 1 : j \in DOMAIN Script /\ j # at
  BY WhereFacts, ScriptFacts
<1> QED
  BY <1>1, <1>2 DEF WhereHolds, PositionHolds

\* Robot goes on outside of tests, or starts one that is not followed.
LEMMA WhereGoesOn ==
  ASSUME WhereHolds, at \in DOMAIN Script, Returns, UNCHANGED placeVars,
         Event.kind \in {"start_suite", "end_suite", "start_test"}, pc \notin {"start_step", "end_step"}
  PROVE  WhereHolds'
<1> DEFINE q == Place[at + 1]
<1>1. /\ Here.test = "none" /\ q.item = 0 /\ q.depth = 0
      /\ q.test = "none" \/ (q.test = Event.name /\ Event.kind = "start_test")
  BY NextPlace DEF WhereHolds, Here, Event
<1>2. test = NoTest /\ step = NoStep /\ "none" \notin Tests /\ followed \subseteq Tests
  BY <1>1, WhereFacts DEF WhereHolds, PositionHolds
<1>3. depth = 0
  <2>1. Here.depth = 0
    BY <1>1 DEF WhereHolds, RobotHolds
  <2> QED
    BY <2>1 DEF WhereHolds, PositionHolds
<1>4. q.test \notin followed
  BY <1>1, <1>2, NotFollowed
<1>5. /\ test = [id |-> test.id, cursor |-> test.cursor, pending |-> test.pending]
      /\ step = [item |-> step.item, hasRow |-> step.hasRow, buffer |-> step.buffer]
  BY DEF WhereHolds, PositionHolds
<1> QED
  BY <1>1, <1>2, <1>3, <1>4, <1>5, WhereGoes DEF placeVars

LEMMA SuitesMove == ASSUME WhereHolds, StartSuite \/ FindOrCreateSuite \/ EndSuite PROVE WhereHolds'
<1>0. UNCHANGED placeVars
  BY DEF StartSuite, FindOrCreateSuite, EndSuite, testVars, history, placeVars
<1>1. CASE StartSuite
  <2>1. pc = "robot" /\ at \in DOMAIN Script /\ Event.kind = "start_suite"
    BY <1>1, WhereFacts DEF StartSuite, On
  <2>2. CASE Returns
    BY <1>0, <2>1, <2>2, WhereGoesOn
  <2>3. CASE Calls("find_or_create_suite")
    <3>1. at' = at /\ pc' = "find_or_create_suite"
      BY <1>1, <2>3 DEF StartSuite, Calls, Returns
    <3>2. CallHolds'
      BY <2>1, <3>1 DEF CallHolds, Called, Chained, Event
    <3> QED
      BY <1>0, <2>1, <3>1, <3>2, WhereCalls
  <2> QED
    BY <1>1, <2>2, <2>3 DEF StartSuite
<1>2. CASE FindOrCreateSuite
  <2>1. pc = "find_or_create_suite" /\ (Returns \/ UNCHANGED <<at, pc>>)
    BY <1>2 DEF FindOrCreateSuite, Renewing, Answered
  <2>2. at \in DOMAIN Script /\ Event.kind = "start_suite"
    BY <2>1 DEF WhereHolds, CallHolds
  <2> QED
    BY <1>0, <2>1, <2>2, WhereStays, WhereGoesOn
<1>3. CASE EndSuite
  <2>1. pc = "robot" /\ at \in DOMAIN Script /\ Event.kind = "end_suite" /\ Returns
    BY <1>3, WhereFacts DEF EndSuite, On
  <2> QED
    BY <1>0, <2>1, WhereGoesOn
<1> QED
  BY <1>1, <1>2, <1>3

ChainActions ==
  FindCase \/ StampCase \/ UnarchiveCase \/ CreateCase \/ FindCreatedCase \/ RefreshCase
    \/ SyncSteps \/ CreateResult

\* A call of the chain is repeated, leads to the next, or is the last.
LEMMA ChainMoves ==
  ASSUME ChainActions
  PROVE  /\ pc \in Chained /\ UNCHANGED <<robotVars, suiteVars, testVars, row, history>>
         /\ UNCHANGED <<at, pc>> \/ Returns \/ (pc' \in Chained /\ at' = at)
<1>1. ASSUME NEW name \in Chained, NEW next \in Chained, NEW becomes, Chain(name, becomes, next)
      PROVE  /\ pc \in Chained /\ UNCHANGED <<robotVars, suiteVars, testVars, row, history>>
             /\ UNCHANGED <<at, pc>> \/ Returns \/ (pc' \in Chained /\ at' = at)
  BY <1>1 DEF Chain, Renewing, Calls
<1>2. CASE FindCase
  <2>1. PICK next \in Chained : Chain("find_case", case[Event.name], next)
    BY <1>2 DEF FindCase, Chained
  <2> QED
    BY <1>1, <2>1 DEF Chained
<1>3. CASE StampCase \/ UnarchiveCase \/ FindCreatedCase \/ RefreshCase \/ SyncSteps
  BY <1>1, <1>3 DEF StampCase, UnarchiveCase, FindCreatedCase, RefreshCase, SyncSteps, Chained
<1>4. CASE CreateCase
  <2>1. CASE Chain("create_case", "active", "sync_steps")
    BY <1>1, <2>1 DEF Chained
  <2>2. CASE ~Chain("create_case", "active", "sync_steps")
    BY <1>4, <2>2 DEF CreateCase, Renewing, Calls, Chained, serverVars
  <2> QED
    BY <2>1, <2>2
<1>5. CASE CreateResult
  BY <1>5 DEF CreateResult, Renewing, Answered, Calls, Chained
<1> QED
  BY <1>2, <1>3, <1>4, <1>5 DEF ChainActions

LEMMA TestsStart == ASSUME WhereHolds, StartTest \/ ChainActions \/ MarkRunning PROVE WhereHolds'
<1>1. CASE StartTest
  <2>1. /\ pc = "robot" /\ at \in DOMAIN Script /\ Event.kind = "start_test"
        /\ Returns \/ Calls("find_case")
        /\ test' = NoTest /\ depth' = 0 /\ UNCHANGED <<step, followed>>
    BY <1>1, WhereFacts DEF StartTest, On, history
  <2>2. Here.test = "none" /\ Here.depth = 0 /\ test = NoTest /\ depth = 0
    BY <2>1, WhereFacts, NextPlace DEF WhereHolds, Here, Event, RobotHolds, PositionHolds
  <2>3. CASE Returns
    BY <2>1, <2>2, <2>3, WhereGoesOn DEF placeVars
  <2>4. CASE Calls("find_case")
    <3>1. CallHolds'
      BY <2>1, <2>4 DEF CallHolds, Called, Chained, Event, Calls
    <3> QED
      BY <2>1, <2>2, <2>4, <3>1, WhereCalls DEF Calls, placeVars
  <2> QED
    BY <2>1, <2>3, <2>4
<1>2. CASE ChainActions
  <2>1. /\ pc \in Chained /\ UNCHANGED placeVars
        /\ UNCHANGED <<at, pc>> \/ Returns \/ (pc' \in Chained /\ at' = at)
    BY <1>2, ChainMoves DEF testVars, history, placeVars
  <2>2. at \in DOMAIN Script /\ Event.kind = "start_test" /\ test = NoTest
    BY <2>1 DEF WhereHolds, CallHolds, Chained
  <2>3. CASE pc' \in Chained /\ at' = at
    <3>1. CallHolds'
      BY <2>1, <2>2, <2>3 DEF CallHolds, Called, Chained, Event, placeVars
    <3> QED
      BY <2>1, <2>3, <3>1, WhereCalls DEF Chained
  <2> QED
    BY <2>1, <2>2, <2>3, WhereStays, WhereGoesOn DEF Chained
<1>3. CASE MarkRunning
  <2>1. pc = "mark_running" /\ UNCHANGED <<step, depth>>
    BY <1>3 DEF MarkRunning, Renewing, Answered
  <2>2. at \in DOMAIN Script /\ Event.kind = "start_test" /\ test = NoTest
    BY <2>1 DEF WhereHolds, CallHolds, Chained
  <2>3. CASE UNCHANGED <<at, pc, test, followed>>
    BY <2>1, <2>3, WhereStays DEF placeVars
  <2>4. CASE Returns /\ test' = [id |-> Event.name, cursor |-> 1, pending |-> <<>>]
             /\ followed' = followed \union {Event.name}
    <3> DEFINE q == Place[at + 1]
    <3>1. q.test = Event.name /\ q.item = 0 /\ q.depth = 0 /\ Event.name \in Tests /\ Here.test = "none"
      BY <2>2, NextPlace DEF WhereHolds, Here, Event
    <3>2. step = NoStep /\ depth = 0 /\ "none" \notin Tests /\ followed \subseteq Tests
      BY <2>1, <2>2, <3>1, WhereFacts DEF WhereHolds, RobotHolds, PositionHolds
    <3>3. /\ test' # NoTest /\ test'.id = q.test /\ test'.id \in followed' /\ test'.cursor = 1
      BY <2>4, <3>1, <3>2 DEF NoTest
    <3>4. /\ test' = [id |-> test'.id, cursor |-> test'.cursor, pending |-> test'.pending]
          /\ step = [item |-> step.item, hasRow |-> step.hasRow, buffer |-> step.buffer]
      BY <2>4 DEF WhereHolds, PositionHolds
    <3> QED
      BY <2>1, <2>2, <2>4, <3>1, <3>2, <3>3, <3>4, WhereGoes
  <2> QED
    BY <1>3, <2>3, <2>4 DEF MarkRunning, Renewing
<1> QED
  BY <1>1, <1>2, <1>3

\* A handler begins a call that moves the depth.
LEMMA WhereDives ==
  ASSUME WhereHolds, UNCHANGED <<at, test, step, followed>>, CallHolds', pc = "robot",
         \/ pc' = "start_step" /\ depth' = 1
         \/ pc' = "end_step" /\ depth' = 0
  PROVE  WhereHolds'
<1>1. RobotHolds'
  BY DEF WhereHolds, RobotHolds, Here
<1>2. PositionHolds'
  BY DEF WhereHolds, PositionHolds, Here
<1> QED
  BY <1>1, <1>2 DEF WhereHolds

LEMMA ItemsStart == ASSUME WhereHolds, StartItem \/ StartStep PROVE WhereHolds'
<1> DEFINE q == Place[at + 1]
<1>1. CASE StartItem
  <2>1. /\ pc = "robot" /\ at \in DOMAIN Script /\ Event.kind = "start_item"
        /\ depth' = depth + 1 /\ UNCHANGED <<test, followed>>
    BY <1>1, WhereFacts DEF StartItem, BeginItem, On, history
  <2>2. /\ Here.test # "none" /\ q.test = Here.test /\ q.depth = Here.depth + 1 /\ Here.depth \in Nat
        /\ q.item = IF Here.depth = 0 THEN Here.item + 1 ELSE Here.item
        /\ Here.depth = 0 => Here.item + 1 \in Steps
    BY <2>1, WhereFacts, NextPlace DEF WhereHolds, Here, Event, Places
  <2>3. depth = Here.depth
    BY <2>1 DEF WhereHolds, PositionHolds
  <2>4. CASE depth # 0
    BY <1>1, <2>1, <2>2, <2>3, <2>4, WhereGoes DEF StartItem, BeginItem, WhereHolds, PositionHolds
  <2>5. CASE depth = 0 /\ (test = NoTest \/ test.cursor \notin Steps)
    <3>1. test = NoTest /\ step' = NoStep /\ Returns
      BY <1>1, <2>2, <2>3, <2>5 DEF StartItem, BeginItem, WhereHolds, PositionHolds
    <3> QED
      BY <2>1, <2>2, <2>3, <2>5, <3>1, WhereGoes DEF WhereHolds, PositionHolds
  <2>6. CASE depth = 0 /\ test # NoTest /\ test.cursor \in Steps /\ streaming
    <3>1. UNCHANGED <<step, at>> /\ pc' = "start_step" /\ depth' = 1
      BY <1>1, <2>1, <2>6 DEF StartItem, BeginItem, Calls
    <3>2. CallHolds'
      BY <2>1, <2>3, <2>6, <3>1 DEF CallHolds, Called, Chained, Event, Here
    <3> QED
      BY <2>1, <3>1, <3>2, WhereDives
  <2>7. CASE depth = 0 /\ test # NoTest /\ test.cursor \in Steps /\ ~streaming
    <3>1. step' = [item |-> test.cursor, hasRow |-> FALSE, buffer |-> <<>>] /\ Returns
      BY <1>1, <2>7 DEF StartItem, BeginItem
    <3>2. step'.item = test.cursor /\ step' # NoStep
      BY <2>7, <3>1, NamesAssumption DEF NoStep
    <3> QED
      BY <2>1, <2>2, <2>3, <2>7, <3>1, <3>2, WhereGoes DEF WhereHolds, PositionHolds
  <2> QED
    BY <2>4, <2>5, <2>6, <2>7
<1>2. CASE StartStep
  <2>1. /\ pc = "start_step" /\ UNCHANGED <<test, depth>>
        /\ \/ UNCHANGED <<at, pc, step, followed>>
           \/ /\ Returns /\ UNCHANGED followed
              /\ \E h \in BOOLEAN : step' = [item |-> test.cursor, hasRow |-> h, buffer |-> <<>>]
    BY <1>2 DEF StartStep, Renewing, Answered, Notices, history
  <2>2. at \in DOMAIN Script /\ Event.kind = "start_item" /\ test # NoTest /\ Here.depth = 0
    BY <2>1 DEF WhereHolds, CallHolds, Chained
  <2>3. /\ q.test = Here.test /\ q.depth = 1 /\ q.item = Here.item + 1 /\ q.item \in Steps
    BY <2>2, NextPlace DEF WhereHolds, Here, Event
  <2>4. CASE UNCHANGED <<at, pc, step, followed>>
    BY <2>1, <2>4, WhereStays DEF placeVars
  <2>5. CASE ~UNCHANGED <<at, pc, step, followed>>
    <3>1. PICK h \in BOOLEAN : step' = [item |-> test.cursor, hasRow |-> h, buffer |-> <<>>]
      BY <2>1, <2>5
    <3>2. test.cursor = q.item /\ step'.item = q.item /\ step' # NoStep
      BY <2>2, <2>3, <3>1, NamesAssumption DEF NoStep, WhereHolds, PositionHolds
    <3> QED
      BY <2>1, <2>2, <2>3, <2>5, <3>2, WhereGoes DEF WhereHolds, PositionHolds
  <2> QED
    BY <2>4, <2>5
<1> QED
  BY <1>1, <1>2

LEMMA LogsMove == ASSUME WhereHolds, Log \/ AppendLog PROVE WhereHolds'
<1> DEFINE q == Place[at + 1]
<1>1. /\ pc \in {"robot", "append_log"} /\ UNCHANGED <<test, depth, followed>>
      /\ at \in DOMAIN Script /\ Event.kind = "log"
  <2>1. CASE Log
    BY <2>1, WhereFacts DEF Log, On, history
  <2>2. CASE AppendLog
    BY <2>2 DEF AppendLog, Renewing, Answered, Notices, history, WhereHolds, CallHolds
  <2> QED
    BY <2>1, <2>2
<1>2. \/ step' = step /\ (Returns \/ UNCHANGED <<at, pc>> \/ (step # NoStep /\ Calls("append_log")))
      \/ step # NoStep /\ Returns /\ \E line : step' = Buffer(line)
  <2>1. CASE Log
    BY <2>1 DEF Log
  <2>2. CASE AppendLog
    <3>1. pc = "append_log" /\ step # NoStep
      BY <2>2 DEF AppendLog, Renewing, Answered, WhereHolds, CallHolds
    <3> QED
      BY <2>2, <3>1 DEF AppendLog, Renewing
  <2> QED
    BY <2>1, <2>2
<1>3. Here.test # "none" /\ q = Here /\ Here.depth > 0
  BY <1>1, NextPlace DEF WhereHolds, Here, Event
<1>4. CASE UNCHANGED <<at, pc, step>>
  BY <1>1, <1>4, WhereStays DEF placeVars
<1>5. CASE step' = step /\ step # NoStep /\ Calls("append_log")
  <2>1. CallHolds'
    BY <1>1, <1>5 DEF CallHolds, Called, Chained, Event, Calls
  <2> QED
    BY <1>1, <1>5, <2>1, WhereCalls DEF Calls, placeVars
<1>6. CASE Returns /\ (step' = step \/ (step # NoStep /\ \E line : step' = Buffer(line)))
  <2>1. /\ step' = [item |-> step'.item, hasRow |-> step'.hasRow, buffer |-> step'.buffer]
        /\ step'.item = step.item
    BY <1>6 DEF Buffer, WhereHolds, PositionHolds
  <2>2. step # NoStep => step.item # 0
    BY <1>1, <1>3 DEF WhereHolds, PositionHolds, RobotHolds
  <2>3. step' # NoStep <=> step # NoStep
    BY <1>6, <2>1, <2>2 DEF NoStep
  <2>4. depth = q.depth
    BY <1>1, <1>3 DEF WhereHolds, PositionHolds
  <2> QED
    BY <1>1, <1>3, <1>6, <2>1, <2>3, <2>4, WhereGoes DEF WhereHolds, PositionHolds
<1> QED
  BY <1>2, <1>4, <1>5, <1>6

LEMMA ItemsEnd == ASSUME WhereHolds, EndItem \/ EndStep PROVE WhereHolds'
<1> DEFINE q == Place[at + 1]
<1>1. CASE EndItem
  <2>1. pc = "robot" /\ at \in DOMAIN Script /\ Event.kind = "end_item" /\ UNCHANGED followed
    BY <1>1, WhereFacts DEF EndItem, On, history
  <2>2. /\ Here.test # "none" /\ q.test = Here.test /\ q.depth = Here.depth - 1 /\ Here.depth \in Nat
        /\ q.item = Here.item /\ Here.depth > 0
    BY <2>1, WhereFacts, NextPlace DEF WhereHolds, Here, Event, Places
  <2>3. depth = Here.depth
    BY <2>1 DEF WhereHolds, PositionHolds
  <2>4. CASE depth # 1
    BY <1>1, <2>1, <2>2, <2>3, <2>4, WhereGoes DEF EndItem, WhereHolds, PositionHolds
  <2>5. CASE depth = 1 /\ (test = NoTest \/ step = NoStep)
    <3>1. test = NoTest /\ step = NoStep
      BY <2>2, <2>3, <2>5 DEF WhereHolds, PositionHolds
    <3>2. UNCHANGED <<test, step>> /\ depth' = 0 /\ Returns
      BY <1>1, <2>5 DEF EndItem
    <3> QED
      BY <2>1, <2>2, <2>3, <2>5, <3>1, <3>2, WhereGoes DEF WhereHolds, PositionHolds
  <2>6. CASE depth = 1 /\ test # NoTest /\ step # NoStep
    <3>1. CASE UNCHANGED <<test, step>> /\ depth' = 0 /\ Calls("end_step")
      <4>1. CallHolds'
        BY <2>1, <2>3, <2>6, <3>1 DEF CallHolds, Called, Chained, Event, Calls, Here
      <4> QED
        BY <2>1, <3>1, <4>1, WhereDives DEF Calls
    <3>2. CASE \E v \in Verdicts : test' = Pend(v) /\ step' = NoStep /\ depth' = 0 /\ Returns
      <4>1. /\ test'.id = test.id /\ test'.cursor = test.cursor + 1 /\ step' = NoStep
            /\ test' = [id |-> test'.id, cursor |-> test'.cursor, pending |-> test'.pending]
        BY <3>2 DEF Pend
      <4>2. test' # NoTest
        BY <2>2, <2>6, <4>1 DEF NoTest, WhereHolds, PositionHolds
      <4> QED
        BY <2>1, <2>2, <2>3, <2>6, <3>2, <4>1, <4>2, WhereGoes DEF WhereHolds, PositionHolds, NoStep
    <3> QED
      BY <1>1, <2>6, <3>1, <3>2 DEF EndItem
  <2> QED
    BY <2>4, <2>5, <2>6
<1>2. CASE EndStep
  <2>1. /\ pc = "end_step" /\ UNCHANGED depth
        /\ \/ UNCHANGED <<at, pc, test, step, followed>>
           \/ /\ Returns /\ UNCHANGED followed /\ step' = NoStep
              /\ test' = MoveOn \/ \E v : test' = Pend(v)
    BY <1>2 DEF EndStep, Renewing, Answered, Notices, history, AfterUpdate
  <2>2. at \in DOMAIN Script /\ Event.kind = "end_item" /\ step # NoStep /\ Here.depth = 1
    BY <2>1 DEF WhereHolds, CallHolds, Chained
  <2>3. q.test = Here.test /\ q.depth = 0 /\ q.item = Here.item /\ Here.test # "none"
    BY <2>2, NextPlace DEF WhereHolds, Here, Event
  <2>4. CASE UNCHANGED <<at, pc, test, step, followed>>
    BY <2>1, <2>4, WhereStays DEF placeVars
  <2>5. CASE ~UNCHANGED <<at, pc, test, step, followed>>
    <3>1. /\ test'.id = test.id /\ test'.cursor = test.cursor + 1 /\ step' = NoStep
          /\ test' = [id |-> test'.id, cursor |-> test'.cursor, pending |-> test'.pending]
      BY <2>1, <2>5 DEF MoveOn, Pend, WhereHolds, PositionHolds
    <3>2. test # NoTest /\ test' # NoTest /\ depth = 0
      BY <2>1, <2>2, <2>3, <3>1 DEF NoTest, WhereHolds, PositionHolds
    <3> QED
      BY <2>1, <2>2, <2>3, <2>5, <3>1, <3>2, WhereGoes DEF WhereHolds, PositionHolds, NoStep
  <2> QED
    BY <2>4, <2>5
<1> QED
  BY <1>1, <1>2

LEMMA TestsEnd == ASSUME WhereHolds, EndTest \/ UpdateResult \/ Batch PROVE WhereHolds'
<1> DEFINE q == Place[at + 1]
<1>1. /\ pc \in {"robot", "end_test", "batch"} /\ UNCHANGED <<depth, followed>>
      /\ \/ UNCHANGED <<at, pc, test, step>>
         \/ UNCHANGED <<at, test, step>> /\ test # NoTest /\ pc' \in {"end_test", "batch"}
         \/ Returns /\ test' = NoTest /\ (step' = NoStep \/ (test = NoTest /\ step' = step))
  <2>1. CASE EndTest
    BY <2>1 DEF EndTest, On, Calls, testVars, history
  <2>2. CASE UpdateResult
    BY <2>2 DEF UpdateResult, Renewing, Answered, Calls, history, WhereHolds, CallHolds
  <2>3. CASE Batch
    BY <2>3 DEF Batch, Renewing, Answered
  <2> QED
    BY <2>1, <2>2, <2>3
<1>2. at \in DOMAIN Script /\ Event.kind = "end_test"
  BY WhereFacts DEF EndTest, On, UpdateResult, Batch, Renewing, Answered, WhereHolds, CallHolds
<1>3. q.test = "none" /\ q.item = 0 /\ q.depth = 0 /\ Here.depth = 0
  BY <1>2, NextPlace DEF WhereHolds, Here, Event
<1>4. CASE UNCHANGED <<at, pc, test, step>>
  BY <1>1, <1>4, WhereStays DEF placeVars
<1>5. CASE UNCHANGED <<at, test, step>> /\ test # NoTest /\ pc' \in {"end_test", "batch"}
  <2>1. CallHolds'
    BY <1>1, <1>2, <1>5 DEF CallHolds, Called, Chained, Event
  <2> QED
    BY <1>1, <1>5, <2>1, WhereCalls DEF placeVars
<1>6. CASE Returns /\ test' = NoTest /\ (step' = NoStep \/ (test = NoTest /\ step' = step))
  <2>1. step' = NoStep /\ followed \subseteq Tests /\ "none" \notin Tests /\ depth = 0
    BY <1>1, <1>3, <1>6, WhereFacts DEF WhereHolds, PositionHolds
  <2> QED
    BY <1>1, <1>2, <1>3, <1>6, <2>1, WhereGoes DEF NoStep, NoTest
<1> QED
  BY <1>1, <1>4, <1>5, <1>6

LEMMA WhereNext == WhereHolds /\ [Next]_vars => WhereHolds'
<1> SUFFICES ASSUME WhereHolds, [Next]_vars PROVE WhereHolds'
  OBVIOUS
<1>1. CASE UNCHANGED <<at, pc, placeVars>>
  BY <1>1, WhereStays
<1>2. CASE ~UNCHANGED <<at, pc, placeVars>>
  <2>1. Handlers
    BY <1>2 DEF Next, Clock, Ended, OtherCreatesCase, vars, testVars, history, placeVars
  <2> QED
    BY <2>1, SuitesMove, TestsStart, ItemsStart, LogsMove, ItemsEnd, TestsEnd DEF Handlers, ChainActions
<1> QED
  BY <1>1, <1>2

LEMMA WhereInit == Init => WhereHolds
<1> SUFFICES ASSUME Init PROVE WhereHolds
  OBVIOUS
<1>1. at = 1 /\ Here = Nowhere /\ Len(Script) \in Nat /\ pc = "robot"
  BY ScriptFacts DEF Init, Here
<1>2. RobotHolds
  <2>1. Nowhere \in Places
    BY EmptySeq DEF Nowhere, Places
  <2> QED
    BY <1>1, <2>1 DEF RobotHolds, Nowhere
<1>3. CallHolds
  BY <1>1 DEF CallHolds, Chained
<1>4. PositionHolds
  BY <1>1 DEF Init, PositionHolds, Nowhere, NoTest, NoStep
<1> QED
  BY <1>2, <1>3, <1>4 DEF WhereHolds

-----------------------------------------------------------------------------
(* The adapters.                                                           *)

\* Whatever the listener does, its adapters do what they do by themselves.
LEMMA AdapterSteps == [Next]_vars => [AdapterNext]_adapterVars
<1> SUFFICES ASSUME [Next]_vars, ~UNCHANGED adapterVars PROVE AdapterNext
  OBVIOUS
<1>1. Renew \/ (\E o \in Outcomes : Decide(o)) \/ Expire \/ CooldownEnds
  <2>1. CASE Clock
    BY <2>1 DEF Clock
  <2>2. CASE Handlers
    <3> USE DEF Renewing, Answered
    <3>1. CASE FindOrCreateSuite \/ CreateResult \/ MarkRunning \/ StartStep
      BY <3>1 DEF FindOrCreateSuite, CreateResult, MarkRunning, StartStep
    <3>2. CASE AppendLog \/ EndStep \/ UpdateResult \/ Batch
      BY <3>2 DEF AppendLog, EndStep, UpdateResult, Batch
    <3>3. ASSUME NEW name, NEW becomes, NEW next, Chain(name, becomes, next) PROVE AdapterNext
      BY <3>3 DEF Chain, AdapterNext
    <3>4. CASE FindCase \/ StampCase \/ UnarchiveCase \/ FindCreatedCase \/ RefreshCase \/ SyncSteps
      BY <3>3, <3>4
         DEF FindCase, StampCase, UnarchiveCase, FindCreatedCase, RefreshCase, SyncSteps, AdapterNext
    <3>5. CASE CreateCase
      BY <3>3, <3>5 DEF CreateCase, AdapterNext
    <3>6. CASE StartSuite \/ EndSuite \/ StartTest \/ StartItem \/ Log \/ EndItem \/ EndTest
      BY <3>6 DEF StartSuite, EndSuite, StartTest, StartItem, Log, EndItem, EndTest
    <3> QED
      BY <2>2, <3>1, <3>2, <3>4, <3>5, <3>6 DEF Handlers
  <2> QED
    BY <2>1, <2>2 DEF Next, OtherCreatesCase, Ended, vars
<1> QED
  BY <1>1 DEF AdapterNext

LEMMA WaitNext == WaitHolds /\ [AdapterNext]_adapterVars => WaitHolds'
<1> SUFFICES ASSUME WaitHolds, [AdapterNext]_adapterVars PROVE WaitHolds'
  OBVIOUS
<1> USE MaxFailuresAssumption DEF WaitHolds, AdapterTypeOK, WaitIsBounded
<1>1. ASSUME NEW answer \in Outcomes, Request(answer), phase' \in {"call", "login", "again"},
             session' \in {"valid", "expired"}
      PROVE  WaitHolds'
  <2>1. CASE UNCHANGED <<failures, cooling, waited>>
    <3>1. cooling' \in BOOLEAN
      BY <2>1, Zenon
    <3> QED
      BY <1>1, <2>1, <3>1
  <2>2. CASE /\ ~IsOpen /\ cooling' = TRUE /\ waited' = waited + 1
             /\ failures' = IF failures < MaxFailures THEN failures + 1 ELSE failures
    <3>1. cooling' /\ cooling' \in BOOLEAN
      BY <2>2, Zenon
    <3>2. failures < MaxFailures \/ waited = 0
      BY <2>2 DEF IsOpen
    <3> QED
      BY <1>1, <2>2, <3>1, <3>2
  <2>3. CASE failures' = 0 /\ waited' = 0 /\ cooling' = cooling
    <3>1. cooling' \in BOOLEAN
      BY <2>3, Zenon
    <3> QED
      BY <1>1, <2>3, <3>1
  <2> QED
    BY <1>1, <2>1, <2>2, <2>3 DEF Request
<1>2. CASE Renew
  BY <1>1, <1>2 DEF Renew, Outcomes
<1>3. CASE \E o \in Outcomes : Decide(o)
  BY <1>1, <1>3 DEF Decide
<1>4. CASE Expire \/ CooldownEnds
  <2>1. cooling' \in BOOLEAN
    BY <1>4, Zenon DEF Expire, CooldownEnds
  <2>2. /\ failures' = failures /\ phase' \in {"call", "login", "again"}
        /\ session' \in {"valid", "expired"}
        /\ waited' = 0 \/ (waited' = waited /\ cooling' = cooling)
    BY <1>4 DEF Expire, CooldownEnds
  <2> QED
    BY <2>1, <2>2
<1>5. CASE UNCHANGED adapterVars
  BY <1>5 DEF adapterVars
<1> QED
  BY <1>2, <1>3, <1>4, <1>5 DEF AdapterNext

\* The adapters never go on waiting for a server that does not answer, whatever the calls they
\* serve.
THEOREM AdapterWaitIsBounded == AdapterSpec => []WaitIsBounded
<1>1. AdapterInit => WaitHolds
  <2> SUFFICES ASSUME AdapterInit PROVE WaitHolds
    OBVIOUS
  <2>1. cooling \in BOOLEAN
    BY Zenon DEF AdapterInit
  <2> QED
    BY <2>1, MaxFailuresAssumption DEF AdapterInit, WaitHolds, AdapterTypeOK, WaitIsBounded
<1>2. WaitHolds => WaitIsBounded
  BY DEF WaitHolds
<1> QED
  BY <1>1, <1>2, WaitNext, PTL DEF AdapterSpec

\* In any run of Robot, and with any number of failures allowed, within one cooldown the
\* listener waits for at most that many timeouts (listener/circuit_breaker.py, lines 3-5).
THEOREM RunWaitIsBounded == Spec => []WaitIsBounded
<1>1. Init => AdapterInit
  BY DEF Init
<1> QED
  BY <1>1, AdapterSteps, AdapterWaitIsBounded, PTL DEF Spec, AdapterSpec

-----------------------------------------------------------------------------
(* The stack of suites.                                                    *)

\* What the handlers of tests and items make of the suites, of the call and of the event.
ItemActions == StartItem \/ StartStep \/ Log \/ AppendLog \/ EndItem \/ EndStep
EndActions == EndTest \/ UpdateResult \/ Batch

LEMMA TestActions ==
  ASSUME WhereHolds, StartTest \/ ChainActions \/ MarkRunning \/ ItemActions \/ EndActions
  PROVE  /\ UNCHANGED <<isRoot, stack, escaped>>
         /\ at \in DOMAIN Script /\ Event.kind \notin {"start_suite", "end_suite"}
         /\ \/ UNCHANGED <<at, pc>> \/ Returns
            \/ /\ at' = at /\ pc' \in Called \ {"find_or_create_suite"}
               /\ pc' \in Chained => pc \in Chained \/ SuiteId # NoId
<1>1. CASE StartTest
  BY <1>1, WhereFacts DEF StartTest, On, Calls, Called, Chained, suiteVars, history
<1>2. CASE ChainActions
  <2>1. /\ pc \in Chained /\ UNCHANGED <<isRoot, stack, escaped>>
        /\ UNCHANGED <<at, pc>> \/ Returns \/ (pc' \in Chained /\ at' = at)
    BY <1>2, ChainMoves DEF suiteVars, history
  <2> QED
    BY <2>1 DEF WhereHolds, CallHolds, Called, Chained
<1>3. CASE MarkRunning
  BY <1>3 DEF MarkRunning, Renewing, Answered, WhereHolds, CallHolds, Chained, suiteVars
<1>4. CASE StartItem \/ Log \/ EndItem \/ EndTest
  <2>1. at \in DOMAIN Script /\ Event.kind \notin {"start_suite", "end_suite"}
    BY <1>4, WhereFacts DEF StartItem, Log, EndItem, EndTest, On
  <2>2. UNCHANGED <<isRoot, stack, escaped>>
    BY <1>4 DEF StartItem, Log, EndItem, EndTest, suiteVars, history
  <2>3. Returns \/ (at' = at /\ pc' \in {"start_step", "append_log", "end_step", "end_test"})
    BY <1>4 DEF StartItem, BeginItem, Log, EndItem, EndTest, Calls
  <2> QED
    BY <2>1, <2>2, <2>3 DEF Called, Chained
<1>5. CASE StartStep \/ AppendLog \/ EndStep \/ UpdateResult \/ Batch
  <2>1. pc \in {"start_step", "append_log", "end_step", "end_test", "batch"}
    BY <1>5 DEF StartStep, AppendLog, EndStep, UpdateResult, Batch, Renewing, Answered
  <2>2. at \in DOMAIN Script /\ Event.kind \notin {"start_suite", "end_suite"}
    BY <2>1 DEF WhereHolds, CallHolds
  <2>3. UNCHANGED <<isRoot, stack, escaped>>
    BY <1>5 DEF StartStep, AppendLog, EndStep, UpdateResult, Batch, Notices, suiteVars, history
  <2>4. UNCHANGED <<at, pc>> \/ Returns \/ (at' = at /\ pc' = "batch")
    BY <1>5 DEF StartStep, AppendLog, EndStep, UpdateResult, Batch, Renewing, Calls
  <2> QED
    BY <2>2, <2>3, <2>4 DEF Called, Chained
<1> QED
  BY <1>1, <1>2, <1>3, <1>4, <1>5 DEF ItemActions, EndActions

\* Only the creation of a result, of a test in a suite that is there, moves a test.
LEMMA HomeMoves ==
  ASSUME WhereHolds, [Next]_vars
  PROVE  \/ home' = home
         \/ /\ pc = "create_result" /\ CreateResult
            /\ home' = [home EXCEPT ![Event.name] = SuiteId]
<1>1. ASSUME NEW name, NEW becomes, NEW next, Chain(name, becomes, next) PROVE home' = home
  BY <1>1 DEF Chain
<1>2. CASE CreateResult
  BY <1>2 DEF CreateResult, Renewing, Answered
<1>3. CASE FindCase \/ StampCase \/ UnarchiveCase \/ FindCreatedCase \/ RefreshCase \/ SyncSteps
  BY <1>1, <1>3 DEF FindCase, StampCase, UnarchiveCase, FindCreatedCase, RefreshCase, SyncSteps
<1>4. CASE CreateCase
  BY <1>1, <1>4 DEF CreateCase, serverVars
<1>5. CASE StartSuite \/ FindOrCreateSuite \/ EndSuite \/ StartTest \/ MarkRunning
  BY <1>5 DEF StartSuite, FindOrCreateSuite, EndSuite, StartTest, MarkRunning, serverVars
<1>6. CASE ItemActions
  BY <1>6 DEF ItemActions, StartItem, StartStep, Log, AppendLog, EndItem, EndStep, serverVars
<1>7. CASE EndActions
  BY <1>7 DEF EndActions, EndTest, UpdateResult, Batch, serverVars
<1>8. CASE Clock \/ OtherCreatesCase \/ UNCHANGED vars
  BY <1>8 DEF Clock, OtherCreatesCase, vars, serverVars
<1> QED
  BY <1>2, <1>3, <1>4, <1>5, <1>6, <1>7, <1>8 DEF Next, Handlers, ItemActions, EndActions, Ended

LEMMA StackHolds ==
  ASSUME WhereHolds, SuitesHold, stack # <<>>, SuiteId # NoId, ~escaped
  PROVE  SuiteId \in Paths /\ Here.suites # <<>> /\ SuiteId = Last(Here.suites)
<1> DEFINE s == Here.suites
<1>1. stack \in Seq(Paths \union {NoId}) /\ s \in Seq(Paths) /\ Len(stack) = Len(s)
  BY WhereFacts DEF SuitesHold, Places
<1>2. Last(stack) \in Paths \union {NoId} /\ Last(stack) = stack[Len(stack)] /\ Len(stack) \in Nat \ {0}
  BY <1>1, LastOf
<1>3. s # <<>> /\ Last(s) = s[Len(s)]
  <2>1. s # <<>>
    BY <1>1, <1>2
  <2> HIDE DEF s
  <2> QED
    BY <1>1, <2>1, LastOf
<1>4. stack[Len(stack)] \in {s[Len(stack)], NoId}
  BY <1>2 DEF SuitesHold
<1> QED
  BY <1>1, <1>2, <1>3, <1>4 DEF SuiteId

LEMMA HomeHolds == ASSUME WhereHolds, SuitesHold, [Next]_vars PROVE TestsInTheirSuite' /\ home' = [t \in Tests |-> home'[t]]
<1>0. home = [t \in Tests |-> home[t]] /\ TestsInTheirSuite
  BY DEF SuitesHold
<1>1. escaped => escaped'
  <2>1. CASE FindOrCreateSuite
    BY <2>1, Zenon DEF FindOrCreateSuite, Renewing
  <2>2. CASE StartSuite \/ EndSuite
    BY <2>2 DEF StartSuite, EndSuite, history
  <2>3. CASE Clock \/ OtherCreatesCase \/ UNCHANGED vars
    BY <2>3 DEF Clock, OtherCreatesCase, vars, history
  <2> QED
    BY <2>1, <2>2, <2>3, TestActions DEF Next, Handlers, ChainActions, ItemActions, EndActions, Ended
<1>2. CASE home' = home
  BY <1>0, <1>1, <1>2 DEF TestsInTheirSuite
<1>3. CASE pc = "create_result" /\ home' = [home EXCEPT ![Event.name] = SuiteId]
  <2>1. /\ at \in DOMAIN Script /\ Event.kind = "start_test" /\ SuiteId # NoId
    BY <1>3 DEF WhereHolds, CallHolds, SuitesHold, Chained
  <2>2. home' = [t \in Tests |-> home'[t]] /\ \A t \in Tests : home'[t] = home[t] \/ (t = Event.name /\ home'[t] = SuiteId)
    BY <1>0, <1>3
  <2>3. ~escaped => SuiteId = Last(Here.suites)
    BY <2>1, StackHolds DEF SuiteId
  <2> QED
    BY <1>0, <1>1, <2>1, <2>2, <2>3 DEF TestsInTheirSuite, Event, Here
<1> QED
  BY <1>2, <1>3, HomeMoves

\* The suites Robot is in, at its next event.
LEMMA NextSuites ==
  ASSUME RobotHolds, at \in DOMAIN Script
  PROVE  /\ Event.kind = "start_suite" =>
              /\ Event.name \in Names
              /\ Place[at + 1].suites =
                   IF at = 1 /\ Event.directory THEN Here.suites
                   ELSE Append(Here.suites, PathIn(Here.suites, Event.name))
         /\ Event.kind = "end_suite" =>
              Place[at + 1].suites = IF Here.suites = <<>> THEN <<>> ELSE Front(Here.suites)
         /\ Event.kind \notin {"start_suite", "end_suite"} => Place[at + 1].suites = Here.suites
<1> DEFINE p == Place[at]
           q == Place[at + 1]
<1>1. q = Leads(p, at) /\ p \in Places
  BY ScriptFacts DEF RobotHolds, Here
<1>2. CASE Event.kind = "start_suite"
  <2>1. q = IF at = 1 /\ Event.directory THEN p ELSE [p EXCEPT !.suites = Append(@, PathIn(@, Event.name))]
    BY <1>1, <1>2 DEF Leads, Event
  <2>2. Event.name \in Names
    BY <1>2 DEF Names, Event
  <2> QED
    BY <1>1, <1>2, <2>1, <2>2 DEF Places, Here
<1>3. CASE Event.kind = "end_suite"
  <2>1. q = [p EXCEPT !.suites = IF @ = <<>> THEN @ ELSE Front(@)]
    BY <1>1, <1>3 DEF Leads, Event
  <2> QED
    BY <1>1, <1>3, <2>1 DEF Places, Here
<1> QED
  BY <1>2, <1>3, NextPlace DEF Here, Event

LEMMA PushHolds ==
  ASSUME WhereHolds, SuitesHold, at \in DOMAIN Script, Event.kind = "start_suite",
         ~(at = 1 /\ Event.directory), Returns, ~escaped,
         \/ stack' = Append(stack, NoId)
         \/ (stack = <<>> \/ SuiteId # NoId) /\ stack' = Append(stack, PathIn(stack, Event.name))
  PROVE  /\ Len(stack') = Len(Here'.suites)
         /\ \A j \in 1 .. Len(stack') : stack'[j] \in {Here'.suites[j], NoId}
<1> DEFINE s == Here.suites
           x == PathIn(s, Event.name)
<1>1. Here' = Place[at + 1] /\ Here'.suites = Append(s, x) /\ Event.name \in Names
  BY NextSuites DEF WhereHolds, Returns, Here
<1>2. /\ stack \in Seq(Paths \union {NoId}) /\ s \in Seq(Paths) /\ Len(stack) = Len(s)
      /\ \A j \in 1 .. Len(stack) : stack[j] \in {s[j], NoId}
  BY WhereFacts DEF SuitesHold, Places
<1>3. PICK y \in {x, NoId} : stack' = Append(stack, y)
  <2>1. CASE stack = <<>>
    <3>1. s = <<>>
      BY <1>2, <2>1
    <3>2. PathIn(stack, Event.name) = PathIn(s, Event.name)
      BY <2>1, <3>1
    <3> QED
      BY <2>1, <3>2
  <2>2. CASE stack # <<>> /\ SuiteId # NoId
    <3>1. s # <<>> /\ SuiteId = Last(s) /\ SuiteId = Last(stack)
      BY <2>2, StackHolds DEF SuiteId
    <3>2. PathIn(stack, Event.name) = PathIn(s, Event.name)
      BY <2>2, <3>1 DEF PathIn
    <3> QED
      BY <3>2
  <2> QED
    BY <2>1, <2>2
<1>4. x \in Paths
  BY <1>1, <1>2, PathsAre
<1> HIDE DEF s, x
<1>5. /\ Len(Append(s, x)) = Len(s) + 1 /\ Append(s, x)[Len(s) + 1] = x
      /\ \A j \in 1 .. Len(s) : Append(s, x)[j] = s[j]
  BY <1>2, <1>4, AppendProperties
<1>6. y \in Paths \union {NoId}
  BY <1>4
<1>7. /\ Len(Append(stack, y)) = Len(s) + 1 /\ Append(stack, y)[Len(s) + 1] = y
      /\ \A j \in 1 .. Len(s) : Append(stack, y)[j] = stack[j]
  BY <1>2, <1>6, AppendProperties
<1>8. Len(s) \in Nat
  BY <1>2, LenProperties
<1> QED
  BY <1>1, <1>2, <1>3, <1>5, <1>7, <1>8

LEMMA PopHolds ==
  ASSUME WhereHolds, SuitesHold, at \in DOMAIN Script, Event.kind = "end_suite", Returns, ~escaped,
         stack' = IF stack = <<>> THEN stack ELSE Front(stack)
  PROVE  /\ Len(stack') = Len(Here'.suites)
         /\ \A j \in 1 .. Len(stack') : stack'[j] \in {Here'.suites[j], NoId}
<1> DEFINE s == Here.suites
           t == Here'.suites
<1>1. t = IF s = <<>> THEN <<>> ELSE Front(s)
  BY NextSuites DEF WhereHolds, Returns, Here
<1>2. /\ stack \in Seq(Paths \union {NoId}) /\ s \in Seq(Paths) /\ Len(stack) = Len(s)
      /\ \A j \in 1 .. Len(stack) : stack[j] \in {s[j], NoId}
  BY WhereFacts DEF SuitesHold, Places
<1> HIDE DEF s, t
<1>3. CASE stack = <<>>
  <2>1. s = <<>> /\ t = <<>> /\ stack' = <<>>
    BY <1>1, <1>2, <1>3
  <2> QED
    BY <2>1 DEF t
<1>4. CASE stack # <<>>
  <2>1. s # <<>>
    BY <1>2, <1>4
  <2>2. /\ Len(Front(s)) = Len(s) - 1 /\ Len(s) \in Nat \ {0}
        /\ \A j \in 1 .. Len(s) - 1 : Front(s)[j] = s[j]
    BY <1>2, <2>1, LastOf
  <2>3. Len(Front(stack)) = Len(stack) - 1 /\ \A j \in 1 .. Len(stack) - 1 : Front(stack)[j] = stack[j]
    BY <1>2, <1>4, LastOf
  <2>4. t = Front(s) /\ stack' = Front(stack)
    BY <1>1, <1>4, <2>1
  <2> QED
    BY <1>2, <2>2, <2>3, <2>4 DEF t
<1> QED
  BY <1>3, <1>4

LEMMA SuitesNext == WhereHolds /\ SuitesHold /\ [Next]_vars => SuitesHold'
<1> SUFFICES ASSUME WhereHolds, SuitesHold, [Next]_vars PROVE SuitesHold'
  OBVIOUS
<1>0. TestsInTheirSuite' /\ home' = [t \in Tests |-> home'[t]]
  BY HomeHolds
<1>1. at \in Nat \ {0} /\ stack \in Seq(Paths \union {NoId}) /\ Here.suites \in Seq(Paths)
  BY WhereFacts DEF SuitesHold, Places
<1>2. ASSUME NEW y \in Paths \union {NoId} PROVE Append(stack, y) \in Seq(Paths \union {NoId})
  BY <1>1
<1>3. CASE UNCHANGED <<at, pc, isRoot, stack, escaped>>
  BY <1>0, <1>3 DEF SuitesHold, SuiteId, Event, Here
<1>4. CASE StartSuite
  <2>1. /\ pc = "robot" /\ at \in DOMAIN Script /\ Event.kind = "start_suite" /\ ~isRoot'
        /\ escaped' = escaped
    BY <1>4, WhereFacts DEF StartSuite, On, history
  <2>2. isRoot <=> at = 1
    BY <2>1 DEF SuitesHold
  <2>3. CASE Calls("find_or_create_suite")
    <3>1. /\ pc' = "find_or_create_suite" /\ at' = at /\ stack' = stack
          /\ ~(isRoot /\ Event.directory) /\ (stack = <<>> \/ SuiteId # NoId)
      BY <1>4, <2>1, <2>3 DEF StartSuite, Calls, Returns
    <3> QED
      BY <1>0, <2>1, <2>2, <3>1 DEF SuitesHold, SuiteId, Event, Here, Chained
  <2>4. CASE Returns
    <3>1. pc' = "robot" /\ at' = at + 1 /\ Here' = Place[at + 1]
      BY <2>4 DEF Returns, Here
    <3>2. CASE isRoot /\ Event.directory /\ stack' = stack
      <4>1. Here'.suites = Here.suites
        BY <2>1, <2>2, <3>1, <3>2, NextSuites DEF WhereHolds
      <4> QED
        BY <1>0, <1>1, <2>1, <3>1, <3>2, <4>1 DEF SuitesHold, Chained
    <3>3. CASE ~(isRoot /\ Event.directory) /\ stack' = Append(stack, NoId)
      <4>1. ~escaped =>
              /\ Len(stack') = Len(Here'.suites)
              /\ \A j \in 1 .. Len(stack') : stack'[j] \in {Here'.suites[j], NoId}
        BY <2>1, <2>2, <2>4, <3>3, PushHolds
      <4> QED
        BY <1>0, <1>1, <1>2, <2>1, <3>1, <3>3, <4>1 DEF SuitesHold, Chained
    <3> QED
      BY <1>4, <2>4, <3>2, <3>3 DEF StartSuite, Calls, Returns
  <2> QED
    BY <1>4, <2>3, <2>4 DEF StartSuite
<1>5. CASE FindOrCreateSuite /\ ~UNCHANGED <<at, pc, isRoot, stack, escaped>>
  <2>1. /\ pc = "find_or_create_suite" /\ Returns /\ isRoot' = isRoot
        /\ \/ stack' = Append(stack, NoId) \/ stack' = Append(stack, PathIn(stack, Event.name))
           \/ stack' = stack /\ escaped'
        /\ ~escaped' => ~escaped
    BY <1>5 DEF FindOrCreateSuite, Renewing, Answered, Outcomes
  <2>2. /\ at \in DOMAIN Script /\ Event.kind = "start_suite"
        /\ stack = <<>> \/ SuiteId # NoId
        /\ ~(at = 1 /\ Event.directory)
    BY <2>1 DEF WhereHolds, CallHolds, SuitesHold
  <2>3. ~escaped' =>
          /\ Len(stack') = Len(Here'.suites)
          /\ \A j \in 1 .. Len(stack') : stack'[j] \in {Here'.suites[j], NoId}
    BY <2>1, <2>2, PushHolds
  <2>4. PathIn(stack, Event.name) \in Paths
    <3>1. Event.name \in Names
      BY <2>2, NextSuites DEF WhereHolds
    <3>2. CASE stack = <<>>
      BY <3>1, <3>2 DEF PathIn, Paths
    <3>3. CASE stack # <<>>
      <4>1. Last(stack) \in Paths
        BY <1>1, <2>2, <3>3, LastOf DEF SuiteId
      <4> QED
        BY <3>1, <3>3, <4>1 DEF PathIn, Paths
    <3> QED
      BY <3>2, <3>3
  <2>5. ~isRoot'
    BY <2>1 DEF SuitesHold
  <2>6. at' = at + 1 /\ pc' = "robot"
    BY <2>1 DEF Returns
  <2>7. stack' \in Seq(Paths \union {NoId})
    BY <1>1, <1>2, <2>1, <2>4
  <2> QED
    BY <1>0, <1>1, <2>3, <2>5, <2>6, <2>7 DEF SuitesHold, Chained
<1>6. CASE EndSuite
  <2>1. /\ pc = "robot" /\ at \in DOMAIN Script /\ Event.kind = "end_suite" /\ Returns
        /\ stack' = IF stack = <<>> THEN stack ELSE Front(stack)
        /\ UNCHANGED <<isRoot, escaped>>
    BY <1>6, WhereFacts DEF EndSuite, On, history
  <2>2. ~escaped' =>
          /\ Len(stack') = Len(Here'.suites)
          /\ \A j \in 1 .. Len(stack') : stack'[j] \in {Here'.suites[j], NoId}
    BY <2>1, PopHolds
  <2>3. stack' \in Seq(Paths \union {NoId})
    BY <1>1, <2>1, LastOf
  <2>4. at # 1
    BY <2>1, ScriptFacts DEF May, Event
  <2>5. ~isRoot' /\ at' = at + 1 /\ pc' = "robot"
    BY <2>1, <2>4 DEF SuitesHold, Returns
  <2> QED
    BY <1>0, <1>1, <2>2, <2>3, <2>5 DEF SuitesHold, Chained
<1>7. CASE /\ ~UNCHANGED <<at, pc, isRoot, stack, escaped>>
           /\ StartTest \/ ChainActions \/ MarkRunning \/ ItemActions \/ EndActions
  <2>1. /\ UNCHANGED <<isRoot, stack, escaped>>
        /\ at \in DOMAIN Script /\ Event.kind \notin {"start_suite", "end_suite"}
        /\ \/ Returns
           \/ /\ at' = at /\ pc' \in Called \ {"find_or_create_suite"}
              /\ pc' \in Chained => pc \in Chained \/ SuiteId # NoId
    BY <1>7, TestActions
  <2>2. at # 1
    BY <2>1, ScriptFacts DEF May, Event
  <2>3. ~isRoot
    BY <2>2 DEF SuitesHold
  <2>4. CASE Returns
    <3>1. pc' = "robot" /\ at' = at + 1 /\ Here'.suites = Here.suites
      BY <2>1, <2>4, NextSuites DEF WhereHolds, Returns, Here
    <3> QED
      BY <1>0, <1>1, <2>1, <2>3, <3>1 DEF SuitesHold, Chained
  <2>5. CASE /\ at' = at /\ pc' \in Called \ {"find_or_create_suite"}
             /\ pc' \in Chained => pc \in Chained \/ SuiteId # NoId
    BY <1>0, <2>1, <2>2, <2>3, <2>5 DEF SuitesHold, SuiteId, Here, Called
  <2> QED
    BY <2>1, <2>4, <2>5
<1>8. CASE Clock \/ OtherCreatesCase \/ Ended
  BY <1>3, <1>8 DEF Clock, OtherCreatesCase, Ended, vars, suiteVars, history
<1> QED
  BY <1>3, <1>4, <1>5, <1>6, <1>7, <1>8 DEF Next, Handlers, ChainActions, ItemActions, EndActions, vars, suiteVars, history

LEMMA SuitesInit == Init => SuitesHold
<1> SUFFICES ASSUME Init PROVE SuitesHold
  OBVIOUS
<1>1. /\ at = 1 /\ pc = "robot" /\ isRoot /\ stack = <<>> /\ home = [t \in Tests |-> NoId]
      /\ Here.suites = <<>>
  BY ScriptFacts DEF Init, Here, Nowhere
<1>2. TestsInTheirSuite /\ home = [t \in Tests |-> home[t]]
  BY <1>1 DEF TestsInTheirSuite
<1>3. stack \in Seq(Paths \union {NoId}) /\ Len(stack) = 0
  BY <1>1
<1> QED
  BY <1>1, <1>2, <1>3 DEF SuitesHold, Chained

-----------------------------------------------------------------------------
(* The cases of the tests.                                                 *)

\* A call that succeeds has taken effect.
LEMMA OkTakesEffect == ASSUME Decide("ok"), NEW took \in Effects("ok") PROVE took = TRUE
<1>1. ~(phase = "login" \/ (phase = "call" /\ session = "expired"))
  BY DEF Decide
<1>2. Effects("ok") = {TRUE}
  BY <1>1 DEF Effects
<1> QED
  BY <1>2

LEMMA ChainCases ==
  ASSUME case \in [Tests -> CaseStates], Event.name \in Tests,
         NEW name, NEW becomes \in CaseStates, NEW next, Chain(name, becomes, next)
  PROVE  /\ case' \in [Tests -> CaseStates]
         /\ \/ UNCHANGED <<at, pc, case>> \/ Returns
            \/ Calls(next) /\ case'[Event.name] = becomes
<1>1. CASE Renewing(name) /\ UNCHANGED case
  BY <1>1 DEF Renewing
<1>2. CASE \E o \in Outcomes, took \in BOOLEAN :
             /\ Answered(name, o, took)
             /\ case' = IF took THEN [case EXCEPT ![Event.name] = becomes] ELSE case
             /\ IF o = "ok" THEN Calls(next) ELSE Returns
  <2>1. PICK o \in Outcomes, took \in BOOLEAN :
          /\ Answered(name, o, took)
          /\ case' = IF took THEN [case EXCEPT ![Event.name] = becomes] ELSE case
          /\ IF o = "ok" THEN Calls(next) ELSE Returns
    BY <1>2
  <2>2. case' \in [Tests -> CaseStates]
    BY <2>1
  <2>3. CASE o = "ok"
    <3>1. took = TRUE
      BY <2>1, <2>3, OkTakesEffect DEF Answered
    <3> QED
      BY <2>1, <2>2, <2>3, <3>1
  <2> QED
    BY <2>1, <2>2, <2>3
<1> QED
  BY <1>1, <1>2 DEF Chain

\* Only start_test turns to another test.
LEMMA TestMoves ==
  ASSUME WhereHolds, [Next]_vars
  PROVE  MarkRunning \/ test' = NoTest \/ (test # NoTest /\ test'.id = test.id)
<1>1. CASE StartSuite \/ FindOrCreateSuite \/ EndSuite
  BY <1>1 DEF StartSuite, FindOrCreateSuite, EndSuite, testVars
<1>2. CASE StartTest \/ ChainActions
  BY <1>2, ChainMoves DEF StartTest, testVars
<1>3. CASE StartItem \/ StartStep \/ Log \/ AppendLog
  BY <1>3 DEF StartItem, StartStep, Log, AppendLog
<1>4. CASE EndItem
  BY <1>4 DEF EndItem, Pend
<1>5. CASE EndStep
  <2>1. test # NoTest
    BY <1>5, WhereFacts DEF EndStep, Renewing, Answered, WhereHolds, CallHolds, Chained
  <2>2. test' = test \/ test' = MoveOn \/ test' = Pend(verdict[Running][Item])
    BY <1>5 DEF EndStep, AfterUpdate
  <2> QED
    BY <2>1, <2>2 DEF MoveOn, Pend, WhereHolds, PositionHolds
<1>6. CASE EndTest \/ UpdateResult \/ Batch
  BY <1>6 DEF EndTest, UpdateResult, Batch, testVars
<1>7. CASE Clock \/ OtherCreatesCase \/ UNCHANGED vars
  BY <1>7 DEF Clock, OtherCreatesCase, vars, testVars
<1> QED
  BY <1>1, <1>2, <1>3, <1>4, <1>5, <1>6, <1>7 DEF Next, Handlers, ChainActions, Ended

LEMMA CaseMoves == [Next]_vars => case' = case \/ ChainActions \/ OtherCreatesCase
<1> SUFFICES ASSUME [Next]_vars, ~ChainActions, ~OtherCreatesCase PROVE case' = case
  OBVIOUS
<1>1. CASE StartSuite \/ FindOrCreateSuite \/ EndSuite \/ StartTest \/ MarkRunning
  BY <1>1 DEF StartSuite, FindOrCreateSuite, EndSuite, StartTest, MarkRunning, serverVars
<1>2. CASE ItemActions \/ EndActions
  BY <1>2 DEF ItemActions, StartItem, StartStep, Log, AppendLog, EndItem, EndStep,
              EndActions, EndTest, UpdateResult, Batch, serverVars
<1>3. CASE Clock \/ UNCHANGED vars
  BY <1>3 DEF Clock, vars, serverVars
<1> QED
  BY <1>1, <1>2, <1>3 DEF Next, Handlers, ChainActions, ItemActions, EndActions, Ended

AfterFound == {"find_created_case", "refresh_case", "sync_steps", "create_result", "mark_running"}

\* A call of the chain, or the run of another listener.
LEMMA ChainKeepsCases ==
  ASSUME WhereHolds, CasesHold, ChainActions \/ OtherCreatesCase
  PROVE  CasesHold'
<1>0. pc \in Chained /\ UNCHANGED test
  BY ChainMoves DEF OtherCreatesCase, testVars, Chained
<1>1. /\ at \in DOMAIN Script /\ Event.name \in Tests /\ test = NoTest
  BY <1>0, NextPlace DEF WhereHolds, CallHolds, Event, Chained
<1>2. case \in [Tests -> CaseStates] /\ case[Event.name] \in CaseStates
  BY <1>1 DEF CasesHold, CaseStates
<1>3. CaseIsPutRight'
  BY <1>0, <1>1 DEF CaseIsPutRight
<1>4. SUFFICES /\ case' \in [Tests -> CaseStates]
               /\ \/ UNCHANGED <<at, pc, case>>
                  \/ Returns
                  \/ at' = at /\ pc' \in {"stamp_case", "unarchive_case"}
                  \/ at' = at /\ pc' = "create_case" /\ case'[Event.name] \in {"none", "active", "foreign"}
                  \/ at' = at /\ pc' \in AfterFound /\ case'[Event.name] \in {"active", "foreign"}
  BY <1>3, Zenon DEF CasesHold, CaseStates, Event, AfterFound, Returns
<1>5. CASE FindCase
  <2>1. PICK next \in Chained :
          /\ Chain("find_case", case[Event.name], next)
          /\ \/ next = "refresh_case" /\ case[Event.name] = "active"
             \/ next \in {"stamp_case", "unarchive_case"}
             \/ next = "create_case" /\ case[Event.name] \in {"none", "active", "foreign"}
    BY <1>2, <1>5 DEF FindCase, Chained, CaseStates
  <2>2. /\ case' \in [Tests -> CaseStates]
        /\ \/ UNCHANGED <<at, pc, case>> \/ Returns
           \/ Calls(next) /\ case'[Event.name] = case[Event.name]
    BY <1>1, <1>2, <2>1, ChainCases
  <2> QED
    BY <2>1, <2>2 DEF Calls, AfterFound
<1>6. CASE StampCase \/ UnarchiveCase
  <2>1. CASE Chain("stamp_case", "archived", "unarchive_case")
    <3>1. /\ case' \in [Tests -> CaseStates]
          /\ UNCHANGED <<at, pc, case>> \/ Returns \/ Calls("unarchive_case")
      BY <1>1, <1>2, <2>1, ChainCases DEF CaseStates
    <3> QED
      BY <3>1 DEF Calls
  <2>2. CASE ~Chain("stamp_case", "archived", "unarchive_case")
    <3>1. PICK name : Chain(name, "active", "refresh_case")
      BY <1>6, <2>2 DEF StampCase, UnarchiveCase
    <3>2. /\ case' \in [Tests -> CaseStates]
          /\ \/ UNCHANGED <<at, pc, case>> \/ Returns
             \/ Calls("refresh_case") /\ case'[Event.name] = "active"
      BY <1>1, <1>2, <3>1, ChainCases DEF CaseStates
    <3> QED
      BY <3>2 DEF Calls, AfterFound
  <2> QED
    BY <2>1, <2>2
<1>7. CASE CreateCase
  <2>1. CASE Chain("create_case", "active", "sync_steps")
    <3>1. /\ case' \in [Tests -> CaseStates]
          /\ \/ UNCHANGED <<at, pc, case>> \/ Returns
             \/ Calls("sync_steps") /\ case'[Event.name] = "active"
      BY <1>1, <1>2, <2>1, ChainCases DEF CaseStates
    <3> QED
      BY <3>1 DEF Calls, AfterFound
  <2>2. CASE ~Chain("create_case", "active", "sync_steps")
    <3>1. case' = case /\ case[Event.name] \in {"active", "foreign"}
      BY <1>7, <2>2 DEF CreateCase, CasesHold, serverVars
    <3>2. UNCHANGED <<at, pc>> \/ Returns \/ Calls("find_created_case")
      BY <1>7, <2>2 DEF CreateCase, Renewing
    <3> QED
      BY <1>2, <3>1, <3>2 DEF Calls, AfterFound
  <2> QED
    BY <2>1, <2>2
<1>8. CASE FindCreatedCase \/ RefreshCase \/ SyncSteps
  <2>1. PICK name, next \in AfterFound : Chain(name, case[Event.name], next)
    BY <1>8 DEF FindCreatedCase, RefreshCase, SyncSteps, AfterFound
  <2>2. case[Event.name] \in {"active", "foreign"}
    <3>1. pc \in AfterFound
      BY <1>8 DEF FindCreatedCase, RefreshCase, SyncSteps, Chain, AfterFound
    <3> QED
      BY <3>1 DEF CasesHold, AfterFound
  <2>3. /\ case' \in [Tests -> CaseStates]
        /\ \/ UNCHANGED <<at, pc, case>> \/ Returns
           \/ Calls(next) /\ case'[Event.name] = case[Event.name]
    BY <1>1, <1>2, <2>1, ChainCases
  <2> QED
    BY <2>1, <2>2, <2>3 DEF Calls
<1>9. CASE CreateResult
  <2>1. /\ pc = "create_result" /\ case' = case
        /\ UNCHANGED <<at, pc>> \/ Returns \/ Calls("mark_running")
    BY <1>9 DEF CreateResult, Renewing, Answered
  <2> QED
    BY <1>2, <2>1 DEF CasesHold, Calls, AfterFound
<1>10. CASE OtherCreatesCase
  <2>1. PICK c \in {"active", "foreign"} :
          UNCHANGED <<at, pc>> /\ pc = "create_case" /\ case' = [case EXCEPT ![Event.name] = c]
    BY <1>10 DEF OtherCreatesCase
  <2>2. case' \in [Tests -> CaseStates] /\ case'[Event.name] \in {"active", "foreign"}
    BY <1>1, <1>2, <2>1 DEF CaseStates
  <2> QED
    BY <2>1, <2>2
<1> QED
  BY <1>5, <1>6, <1>7, <1>8, <1>9, <1>10 DEF ChainActions

LEMMA CasesNext == WhereHolds /\ CasesHold /\ [Next]_vars => CasesHold'
<1> SUFFICES ASSUME WhereHolds, CasesHold, [Next]_vars, case' = case, ~ChainActions, ~OtherCreatesCase
             PROVE  CasesHold'
  BY CaseMoves, ChainKeepsCases
<1>1. UNCHANGED <<at, pc>> \/ (pc' \notin AfterFound \union {"create_case"})
  <2>1. CASE StartSuite \/ FindOrCreateSuite \/ EndSuite \/ StartTest \/ MarkRunning
    BY <2>1 DEF StartSuite, FindOrCreateSuite, EndSuite, StartTest, MarkRunning, Renewing, Calls,
                Returns, AfterFound
  <2>2. CASE StartItem \/ StartStep \/ Log \/ AppendLog \/ EndItem \/ EndStep
    BY <2>2 DEF StartItem, BeginItem, StartStep, Log, AppendLog, EndItem, EndStep, Renewing, Calls,
                Returns, AfterFound
  <2>3. CASE EndTest \/ UpdateResult \/ Batch
    BY <2>3 DEF EndTest, UpdateResult, Batch, Renewing, Calls, Returns, AfterFound
  <2>4. CASE Clock \/ UNCHANGED vars
    BY <2>4 DEF Clock, vars
  <2> QED
    BY <2>1, <2>2, <2>3, <2>4 DEF Next, Handlers, ChainActions, Ended
<1>2. CaseIsPutRight'
  <2>1. CASE MarkRunning
    <3>1. pc = "mark_running" /\ (test' = test \/ test'.id = Event.name)
      BY <2>1 DEF MarkRunning, Renewing, Answered
    <3> QED
      BY <3>1 DEF CasesHold, CaseIsPutRight
  <2> QED
    BY <2>1, TestMoves DEF CasesHold, CaseIsPutRight
<1> QED
  BY <1>1, <1>2 DEF CasesHold, AfterFound, Event

LEMMA CasesInit == Init => CasesHold
  BY NamesAssumption DEF Init, CasesHold, CaseIsPutRight

\* In any run of Robot and whatever fails, a result is for a case of the suite Robot found its
\* test in, unless start_suite has raised (robot-listener.md, line 61).
THEOREM ResultsAreInTheirSuite == Spec => []TestsInTheirSuite
<1>1. WhereHolds /\ SuitesHold => TestsInTheirSuite
  BY DEF SuitesHold
<1> QED
  BY <1>1, WhereInit, WhereNext, SuitesInit, SuitesNext, PTL DEF Spec

\* Whatever earlier runs have left and parallel ones make of it, a test is only followed in its
\* own case, active and with its external id, or in the case that has its name when the server
\* refuses to create its own.
THEOREM CasesArePutRight == Spec => []CaseIsPutRight
<1>1. WhereHolds /\ CasesHold => CaseIsPutRight
  BY DEF CasesHold
<1> QED
  BY <1>1, WhereInit, WhereNext, CasesInit, CasesNext, PTL DEF Spec

-----------------------------------------------------------------------------
(* Lines and logs.                                                         *)

LEMMA NoLines == ASSUME NEW i, NEW n \in Nat PROVE InOrder(<<>>, i, n) /\ LinesOf(i, 0) = <<>>
<1>1. <<>> \in Seq({i} \X (1 .. n)) /\ Len(<<>>) = 0
  BY EmptySeq
<1>2. LinesOf(i, 0) = <<>>
  BY DEF LinesOf
<1> QED
  BY <1>1, <1>2 DEF InOrder

\* A log in order has lines of its item only.
LEMMA LinesAre ==
  ASSUME NEW i, NEW n \in Nat, NEW log, InOrder(log, i, n)
  PROVE  /\ Len(log) \in Nat /\ DOMAIN log = 1 .. Len(log)
         /\ \A k \in 1 .. Len(log) : log[k] = <<i, log[k][2]>> /\ log[k][1] = i /\ log[k][2] \in 1 .. n
<1>1. log \in Seq({i} \X (1 .. n))
  BY DEF InOrder
<1>2. Len(log) \in Nat /\ DOMAIN log = 1 .. Len(log)
  BY <1>1, LenProperties
<1>3. ASSUME NEW k \in 1 .. Len(log)
      PROVE  log[k] = <<i, log[k][2]>> /\ log[k][1] = i /\ log[k][2] \in 1 .. n
  <2>1. log[k] \in {i} \X (1 .. n)
    BY <1>1, <1>3, ElementOfSeq
  <2> QED
    BY <2>1
<1> QED
  BY <1>2, <1>3

LEMMA LogsAre ==
  ASSUME NEW i, NEW n \in Nat, NEW log, InOrder(log, i, n), NEW S, NEW m \in Nat, n <= m
  PROVE  /\ InOrder(log, i, m)
         /\ i \in S => log \in Seq(S \X Nat)
<1>1. \A k \in 1 .. Len(log) : log[k] = <<i, log[k][2]>> /\ log[k][2] \in 1 .. n
  BY LinesAre
<1>2. \A k \in 1 .. Len(log) : log[k] \in {i} \X (1 .. m) /\ (i \in S => log[k] \in S \X Nat)
  <2>1. ASSUME NEW x \in 1 .. n
        PROVE  <<i, x>> \in {i} \X (1 .. m) /\ (i \in S => <<i, x>> \in S \X Nat)
    BY <2>1
  <2> SUFFICES ASSUME NEW k \in 1 .. Len(log)
               PROVE  log[k] \in {i} \X (1 .. m) /\ (i \in S => log[k] \in S \X Nat)
    OBVIOUS
  <2>2. PICK x \in 1 .. n : log[k] = <<i, x>>
    BY <1>1
  <2> QED
    BY <2>1, <2>2
<1>3. log \in Seq({i} \X (1 .. n)) /\ Len(log) \in Nat
  BY LenProperties DEF InOrder
<1>4. ASSUME NEW T, \A k \in 1 .. Len(log) : log[k] \in T PROVE log \in Seq(T)
  <2>1. log = [k \in 1 .. Len(log) |-> log[k]]
    BY <1>3
  <2>2. log \in [1 .. Len(log) -> T]
    BY <1>4, <2>1
  <2> QED
    BY <1>3, <2>2
<1>5. log \in Seq({i} \X (1 .. m))
  BY <1>2, <1>4
<1>6. i \in S => log \in Seq(S \X Nat)
  BY <1>2, <1>4
<1> QED
  BY <1>5, <1>6 DEF InOrder

LEMMA LaterLines ==
  ASSUME NEW i, NEW n \in Nat, NEW log, InOrder(log, i, n)
  PROVE  InOrder(log, i, n + 1)
<1>1. n + 1 \in Nat /\ n <= n + 1
  OBVIOUS
<1> DEFINE m == n + 1
<1> HIDE DEF m
<1>2. m \in Nat /\ n <= m
  BY <1>1 DEF m
<1>3. InOrder(log, i, m)
  BY <1>2, LogsAre
<1> QED
  BY <1>3 DEF m

\* A later line leaves a log in order, and a complete one complete.
LEMMA LogGrows ==
  ASSUME NEW i, NEW n \in Nat, NEW log, InOrder(log, i, n)
  PROVE  InOrder(Append(log, <<i, n + 1>>), i, n + 1)
<1> DEFINE line == <<i, n + 1>>
<1>1. log \in Seq({i} \X (1 .. n + 1))
  BY LogsAre DEF InOrder
<1>2. line \in {i} \X (1 .. n + 1) /\ line[2] = n + 1
  OBVIOUS
<1>3. \A k \in 1 .. Len(log) : log[k][2] \in 1 .. n
  BY LinesAre
<1>4. Len(log) \in Nat
  BY LinesAre
<1> HIDE DEF line
<1>5. /\ Append(log, line) \in Seq({i} \X (1 .. n + 1)) /\ Len(Append(log, line)) = Len(log) + 1
      /\ Append(log, line)[Len(log) + 1] = line
      /\ \A k \in 1 .. Len(log) : Append(log, line)[k] = log[k]
  BY <1>1, <1>2, AppendProperties
<1>6. ASSUME NEW j \in 1 .. Len(log) + 1, NEW k \in 1 .. Len(log) + 1, j < k
      PROVE  Append(log, line)[j][2] < Append(log, line)[k][2]
  <2>1. j \in 1 .. Len(log)
    BY <1>4, <1>6
  <2>2. CASE k = Len(log) + 1
    BY <1>2, <1>3, <1>5, <2>1, <2>2
  <2>3. CASE k \in 1 .. Len(log)
    BY <1>5, <1>6, <2>1, <2>3 DEF InOrder
  <2> QED
    BY <1>4, <2>2, <2>3
<1>7. InOrder(Append(log, line), i, n + 1)
  BY <1>5, <1>6 DEF InOrder
<1> QED
  BY <1>7 DEF line

LEMMA LinesGrow ==
  ASSUME NEW i, NEW n \in Nat
  PROVE  Append(LinesOf(i, n), <<i, n + 1>>) = LinesOf(i, n + 1)
<1> DEFINE s == LinesOf(i, n)
           line == <<i, n + 1>>
           T == {i} \X (1 .. n + 1)
<1>1. s \in Seq(T) /\ Len(s) = n /\ \A k \in 1 .. n : s[k] = <<i, k>>
  <2>1. s \in [1 .. n -> T]
    BY DEF LinesOf
  <2> QED
    BY <2>1 DEF LinesOf
<1>2. line \in T
  OBVIOUS
<1>3. LinesOf(i, n + 1) \in Seq(T) /\ Len(LinesOf(i, n + 1)) = n + 1
  <2>1. LinesOf(i, n + 1) \in [1 .. n + 1 -> T]
    BY DEF LinesOf
  <2> QED
    BY <2>1 DEF LinesOf
<1>4. \A k \in 1 .. n + 1 : LinesOf(i, n + 1)[k] = <<i, k>>
  BY DEF LinesOf
<1> HIDE DEF s, T
<1>5. /\ Append(s, line) \in Seq(T) /\ Len(Append(s, line)) = n + 1
      /\ Append(s, line)[n + 1] = line /\ \A k \in 1 .. n : Append(s, line)[k] = s[k]
  BY <1>1, <1>2, AppendProperties
<1>6. \A k \in 1 .. n + 1 : Append(s, line)[k] = LinesOf(i, n + 1)[k]
  <2>1. \A k \in 1 .. n + 1 : k \in 1 .. n \/ k = n + 1
    OBVIOUS
  <2>2. Append(s, line)[n + 1] = LinesOf(i, n + 1)[n + 1]
    <3>1. n + 1 \in 1 .. n + 1
      OBVIOUS
    <3>2. LinesOf(i, n + 1)[n + 1] = <<i, n + 1>>
      BY <1>4, <3>1, Zenon
    <3> QED
      BY <1>5, <3>2, Zenon
  <2>3. ASSUME NEW k \in 1 .. n PROVE Append(s, line)[k] = LinesOf(i, n + 1)[k]
    <3>1. k \in 1 .. n + 1
      OBVIOUS
    <3>2. s[k] = <<i, k>> /\ LinesOf(i, n + 1)[k] = <<i, k>> /\ Append(s, line)[k] = s[k]
      BY <1>1, <1>4, <1>5, <3>1, Zenon
    <3> QED
      BY <3>2, Zenon
  <2> QED
    BY <2>1, <2>2, <2>3
<1>7. Append(s, line) = LinesOf(i, n + 1)
  BY <1>3, <1>5, <1>6, SeqEqual
<1> QED
  BY <1>7 DEF s

-----------------------------------------------------------------------------
(* Most of what the listener does says nothing of a step.                  *)

tellVars == <<verdict, said, row, failed, hit, streaming, test, step, followed>>

Quiet ==
  /\ UNCHANGED tellVars
  /\ \/ UNCHANGED <<at, pc>>
     \/ /\ pc \notin {"append_log", "end_step"} /\ pc' \notin {"append_log", "end_step"}
        /\ at' \in {at, at + 1}
        /\ pc' = "batch" => ~streaming
        /\ pc' = "start_step" => streaming

\* The call a handler is in is renewed.
LEMMA Renewed ==
  ASSUME NEW name, Renewing(name), UNCHANGED tellVars
  PROVE  Quiet
  BY DEF Renewing, Quiet

LEMMA StartedGrows ==
  ASSUME at \in Nat \ {0}, at' \in {at, at + 1}
  PROVE  Started \subseteq Started'
<1> SUFFICES ASSUME NEW t \in Started PROVE t \in Started'
  OBVIOUS
<1>1. PICK j \in {k \in 1 .. at - 1 : Script[k].kind = "start_test"} : Script[j].name = t
  BY DEF Started
<1>2. j \in 1 .. at - 1 /\ Script[j].kind = "start_test"
  BY <1>1
<1>3. j \in 1 .. at' - 1
  <2>1. CASE at' = at
    BY <1>2, <2>1
  <2>2. CASE at' = at + 1
    BY <1>2, <2>2
  <2> QED
    BY <2>1, <2>2
<1> QED
  BY <1>1, <1>2, <1>3 DEF Started

\* What a step leaves of what holds of an item.
LEMMA ItemStays ==
  ASSUME NEW t \in Tests, NEW i \in Steps, ItemHolds(t, i),
         at \in Nat \ {0}, at' \in {at, at + 1}, hit \subseteq hit',
         row'[t][i] = row[t][i], said'[t][i] = said[t][i],
         failed'[t][i] = failed[t][i], verdict'[t][i] = verdict[t][i],
         InOrder(row[t][i].log, i, Sent(t, i)'),
         t \notin followed' \/ (t = test'.id /\ i >= test'.cursor /\ i # step'.item) =>
           t \notin followed \/ (t = test.id /\ i >= test.cursor /\ i # step.item),
         t = test'.id /\ verdict[t][i] # "none" =>
           i < test'.cursor \/ (i = step'.item /\ pc' = "end_step"),
         t \in followed' /\ verdict[t][i] # "none" /\ ~Keeps(t, i)' => t \in followed /\ ~Keeps(t, i)
  PROVE  ItemHolds(t, i)'
<1>1. Started \subseteq Started'
  BY StartedGrows
<1>2. InOrder(row'[t][i].log, i, Sent(t, i)')
  OBVIOUS
<1>3. t \notin followed' \/ (t = test'.id /\ i >= test'.cursor /\ i # step'.item) =>
        row'[t][i] = NoRow /\ said'[t][i] = 0 /\ ~failed'[t][i]
  BY DEF ItemHolds
<1>4. t \notin Started' => verdict'[t][i] = "none"
  BY <1>1 DEF ItemHolds
<1>5. t = test'.id /\ verdict'[t][i] # "none" => i < test'.cursor \/ (i = step'.item /\ pc' = "end_step")
  OBVIOUS
<1>6. t \in followed' /\ verdict'[t][i] # "none" /\ ~Keeps(t, i)' =>
        /\ t \notin hit' => row'[t][i].status = verdict'[t][i]
        /\ ~failed'[t][i] =>
             row'[t][i].status = verdict'[t][i] /\ row'[t][i].log = LinesOf(i, said'[t][i])
  BY DEF ItemHolds
<1> QED
  BY <1>2, <1>3, <1>4, <1>5, <1>6 DEF ItemHolds

LEMMA StepFacts ==
  ASSUME WhereHolds, TypesHold
  PROVE  /\ at \in Nat \ {0}
         /\ \A t \in Tests, i \in Steps : said[t][i] \in Nat /\ i \in Nat \ {0}
         /\ test # NoTest =>
              test.id \in Tests /\ test.id \in followed /\ test.id = Here.test /\ Running = test.id
         /\ step # NoStep =>
              test # NoTest /\ step.item \in Steps /\ step.item = Here.item /\ Item = step.item
              /\ test.cursor = step.item
<1>1. at \in Nat \ {0} /\ "none" \notin Tests /\ Steps \subseteq Nat \ {0}
  BY WhereFacts, NamesAssumption
<1>2. \A t \in Tests, i \in Steps : said[t][i] \in Nat
  BY DEF TypesHold
<1>3. test # NoTest =>
        test.id \in Tests /\ test.id \in followed /\ test.id = Here.test /\ Running = test.id
  BY DEF WhereHolds, PositionHolds, Running, Here
<1>4. step # NoStep =>
        test # NoTest /\ step.item \in Steps /\ step.item = Here.item /\ Item = step.item
        /\ test.cursor = step.item
  <2>1. step # NoStep => step.item # 0
    BY DEF TypesHold
  <2>2. step.item \in Steps \union {0}
    BY DEF TypesHold
  <2> QED
    BY <2>1, <2>2 DEF WhereHolds, PositionHolds, Item, Here
<1> QED
  BY <1>1, <1>2, <1>3, <1>4

LEMMA QuietSteps == ASSUME WhereHolds, StepsHold, Quiet PROVE StepsHold'
<1>1. UNCHANGED tellVars /\ at' \in {at, at + 1} /\ at \in Nat \ {0}
  BY WhereFacts DEF Quiet
<1>2. (pc' = "append_log" <=> pc = "append_log") /\ (pc' = "end_step" <=> pc = "end_step")
  BY DEF Quiet
<1>3. TypesHold'
  <2>1. ASSUME NEW t \in Tests, NEW i \in Steps
        PROVE  said[t][i] < at' \/ (pc' = "append_log" /\ said[t][i] <= at')
    BY <1>1, <1>2 DEF StepsHold, TypesHold
  <2> QED
    BY <1>1, <2>1 DEF StepsHold, TypesHold, tellVars
<1>4. \A t \in Tests, i \in Steps : ItemHolds(t, i)'
  <2> SUFFICES ASSUME NEW t \in Tests, NEW i \in Steps PROVE ItemHolds(t, i)'
    OBVIOUS
  <2>1. Sent(t, i)' = Sent(t, i) /\ Keeps(t, i)' = Keeps(t, i)
    BY <1>1, <1>2 DEF Sent, Keeps, tellVars
  <2>2. ItemHolds(t, i)
    BY DEF StepsHold
  <2>3. InOrder(row[t][i].log, i, Sent(t, i)')
    BY <2>1, <2>2 DEF ItemHolds
  <2>4. t = test'.id /\ verdict[t][i] # "none" =>
           i < test'.cursor \/ (i = step'.item /\ pc' = "end_step")
    BY <1>1, <1>2, <2>2 DEF ItemHolds, tellVars
  <2> QED
    BY <1>1, <2>1, <2>2, <2>3, <2>4, ItemStays DEF tellVars
<1>5. step' # NoStep => StepHolds'
  <2>1. ASSUME NEW t, NEW i PROVE Sent(t, i)' = Sent(t, i)
    BY <1>1, <1>2 DEF Sent, tellVars
  <2> QED
    BY <1>1, <1>2, <2>1 DEF StepsHold, StepHolds, tellVars
<1>6. PendingHolds'
  BY <1>1 DEF StepsHold, PendingHolds, tellVars
<1>7. (pc' = "batch" => ~streaming') /\ (pc' = "start_step" => streaming')
  BY <1>1 DEF Quiet, StepsHold, tellVars
<1> QED
  BY <1>3, <1>4, <1>5, <1>6, <1>7 DEF StepsHold

-----------------------------------------------------------------------------
(* A test starts, an item starts.                                          *)

LEMMA MarkSteps == ASSUME WhereHolds, StepsHold, MarkRunning PROVE StepsHold'
<1> DEFINE name == Event.name
<1>1. CASE Renewing("mark_running") /\ UNCHANGED <<test, followed>>
  <2>1. UNCHANGED tellVars
    BY <1>1 DEF MarkRunning, robotVars, serverVars, tellVars
  <2> QED
    BY <1>1, <2>1, Renewed, QuietSteps
<1>2. CASE ~(Renewing("mark_running") /\ UNCHANGED <<test, followed>>)
  <2>1. /\ pc = "mark_running" /\ pc' = "robot" /\ at' = at + 1
        /\ test' = [id |-> name, cursor |-> 1, pending |-> <<>>]
        /\ followed' = followed \union {name}
        /\ UNCHANGED <<verdict, said, row, failed, hit, streaming, step>>
    BY <1>2 DEF MarkRunning, Answered, Returns, robotVars, serverVars
  <2>2. /\ at \in DOMAIN Script /\ Event.kind = "start_test" /\ test = NoTest /\ step = NoStep
        /\ at \in Nat \ {0}
    BY <2>1, WhereFacts DEF WhereHolds, CallHolds, Chained
  <2>3. name \in Tests /\ name \notin followed /\ name # "none"
    BY <2>2, NextPlace, NotFollowed, NamesAssumption DEF WhereHolds, Event
  <2>4. name \notin Started
    <3>1. \A j \in DOMAIN Script : Script[j].kind = "start_test" /\ Script[j].name = name => j = at
      BY <2>2, NextPlace DEF WhereHolds, Event
    <3>2. \A j \in 1 .. at - 1 : j \in DOMAIN Script /\ j # at
      BY <2>2, ScriptFacts
    <3> QED
      BY <3>1, <3>2 DEF Started
  <2>5. TypesHold'
    <3>1. \A t \in Tests, i \in Steps : said'[t][i] < at'
      BY <2>1, <2>2 DEF StepsHold, TypesHold
    <3>2. test' \in [id : Tests \union {"none"}, cursor : Nat \ {0},
                     pending : Seq([item : Steps, status : Verdicts, log : Logs])]
      BY <2>1, <2>3, EmptySeq
    <3> QED
      BY <2>1, <2>3, <3>1, <3>2 DEF StepsHold, TypesHold
  <2>6. ASSUME NEW t \in Tests, NEW i \in Steps PROVE ItemHolds(t, i)'
    <3>1. ItemHolds(t, i) /\ t # "none" /\ i \in Nat \ {0}
      BY NamesAssumption DEF StepsHold
    <3>2. Sent(t, i)' = Sent(t, i) /\ ~Keeps(t, i)
      BY <2>1, <2>2, <3>1 DEF Sent, Keeps, NoTest
    <3>3. t = name => verdict[t][i] = "none" /\ t \notin followed
      BY <2>3, <2>4, <3>1 DEF ItemHolds
    <3>4. InOrder(row[t][i].log, i, Sent(t, i)')
      BY <3>1, <3>2 DEF ItemHolds
    <3>5. t \notin followed' \/ (t = test'.id /\ i >= test'.cursor /\ i # step'.item) => t \notin followed
      BY <2>1, <3>3
    <3>6. t = test'.id => verdict[t][i] = "none"
      BY <2>1, <3>3
    <3>7. t \in followed' /\ verdict[t][i] # "none" => t \in followed
      BY <2>1, <3>3
    <3> QED
      BY <2>1, <2>2, <3>1, <3>2, <3>4, <3>5, <3>6, <3>7, ItemStays
  <2>7. PendingHolds'
    BY <2>1 DEF PendingHolds
  <2> QED
    BY <2>1, <2>2, <2>5, <2>6, <2>7 DEF StepsHold
<1> QED
  BY <1>1, <1>2

\* While an item has not begun, nothing has been reported of it.
LEMMA ItemIsNew ==
  ASSUME WhereHolds, StepsHold, test # NoTest, NEW i \in Steps, i >= test.cursor, i # step.item
  PROVE  row[test.id][i] = NoRow /\ said[test.id][i] = 0 /\ ~failed[test.id][i]
         /\ verdict[test.id][i] = "none"
<1>1. test.id \in Tests /\ ItemHolds(test.id, i)
  BY StepFacts DEF StepsHold
<1>2. test.cursor \in Nat /\ i \in Nat
  BY StepFacts DEF StepsHold, TypesHold
<1>3. row[test.id][i] = NoRow /\ said[test.id][i] = 0 /\ ~failed[test.id][i]
  BY <1>1 DEF ItemHolds
<1>4. verdict[test.id][i] = "none"
  BY <1>1, <1>2 DEF ItemHolds
<1> QED
  BY <1>3, <1>4

LEMMA StartItemSteps == ASSUME WhereHolds, StepsHold, StartItem PROVE StepsHold'
<1>1. /\ pc = "robot" /\ at \in DOMAIN Script /\ Event.kind = "start_item"
      /\ UNCHANGED <<verdict, said, row, failed, hit, streaming, test, followed>>
  BY WhereFacts DEF StartItem, On, robotVars, serverVars, history
<1>2. at \in Nat \ {0}
  BY WhereFacts
<1>3. CASE step' = step
  <2>1. UNCHANGED tellVars
    BY <1>1, <1>3 DEF tellVars
  <2>2. Returns \/ (streaming /\ Calls("start_step"))
    BY <1>3 DEF StartItem, BeginItem
  <2>3. Quiet
    BY <1>1, <2>1, <2>2 DEF Quiet, Returns, Calls
  <2> QED
    BY <2>3, QuietSteps
<1>4. CASE step' # step
  <2>1. depth = 0 /\ Returns
    BY <1>4 DEF StartItem, BeginItem
  <2>2. step = NoStep
    BY <1>1, <2>1 DEF WhereHolds, PositionHolds
  <2>3. /\ test # NoTest /\ test.cursor \in Steps /\ ~streaming
        /\ step' = [item |-> test.cursor, hasRow |-> FALSE, buffer |-> <<>>]
    BY <1>4, <2>1, <2>2 DEF StartItem, BeginItem
  <2> DEFINE t0 == test.id
             i0 == test.cursor
  <2>4. /\ t0 \in Tests /\ t0 \in followed /\ i0 \in Nat \ {0} /\ step.item = 0
        /\ said[t0][i0] = 0 /\ ~failed[t0][i0] /\ verdict[t0][i0] = "none"
    <3>1. step.item = 0 /\ i0 \in Nat \ {0}
      BY <2>2, <2>3, NamesAssumption DEF NoStep
    <3>2. t0 \in Tests /\ t0 \in followed
      BY <2>3, StepFacts DEF StepsHold
    <3>3. i0 \in Steps /\ i0 >= test.cursor /\ i0 # step.item
      BY <2>3, <3>1
    <3>4. said[t0][i0] = 0 /\ ~failed[t0][i0] /\ verdict[t0][i0] = "none"
      BY <2>3, <3>3, ItemIsNew
    <3> QED
      BY <3>1, <3>2, <3>4
  <2>5. at' = at + 1 /\ pc' = "robot"
    BY <2>1 DEF Returns
  <2>6. TypesHold'
    <3>1. \A t \in Tests, i \in Steps : said'[t][i] < at'
      BY <1>1, <1>2, <2>5 DEF StepsHold, TypesHold
    <3>2. step' \in [item : Steps \union {0}, hasRow : BOOLEAN, buffer : Logs] /\ step'.item # 0
      <4>1. <<>> \in Logs
        BY EmptySeq DEF Logs
      <4> QED
        BY <2>3, <2>4, <4>1
    <3> QED
      BY <1>1, <3>1, <3>2 DEF StepsHold, TypesHold
  <2>7. ASSUME NEW t \in Tests, NEW i \in Steps PROVE ItemHolds(t, i)'
    <3>1. ItemHolds(t, i) /\ i # 0
      BY NamesAssumption DEF StepsHold
    <3>2. Sent(t, i)' = Sent(t, i)
      BY <1>1, <2>5 DEF Sent
    <3>3. Keeps(t, i) => Keeps(t, i)'
      BY <1>1, <2>4, <3>1 DEF Keeps
    <3>4. Keeps(t, i)' => Keeps(t, i) \/ (t = t0 /\ i = i0)
      BY <1>1, <2>3 DEF Keeps
    <3>5. InOrder(row[t][i].log, i, Sent(t, i)')
      BY <3>1, <3>2 DEF ItemHolds
    <3>6. t = test'.id /\ verdict[t][i] # "none" => i < test'.cursor
      BY <1>1, <2>4, <3>1 DEF ItemHolds
    <3> QED
      BY <1>1, <1>2, <2>4, <2>5, <3>1, <3>3, <3>5, <3>6, ItemStays
  <2>8. StepHolds'
    <3>1. InOrder(<<>>, i0, Sent(t0, i0)') /\ LinesOf(i0, 0) = <<>>
      <4>1. Sent(t0, i0)' = 0
        BY <1>1, <2>4, <2>5 DEF Sent
      <4> QED
        BY <4>1, NoLines
    <3>2. test'.id = t0 /\ step'.item = i0 /\ step'.buffer = <<>> /\ ~step'.hasRow /\ ~streaming'
      BY <1>1, <2>3
    <3> QED
      BY <1>1, <2>4, <2>5, <3>1, <3>2 DEF StepHolds
  <2>9. PendingHolds'
    BY <1>1 DEF StepsHold, PendingHolds
  <2> QED
    BY <2>5, <2>6, <2>7, <2>8, <2>9 DEF StepsHold
<1> QED
  BY <1>3, <1>4

\* What a call about a step leaves to remember, item by item.
LEMMA Noticed ==
  ASSUME failed \in [Tests -> [Steps -> BOOLEAN]], NEW o, NEW i0, test.id \in Tests, Notices(o, {i0})
  PROVE  /\ failed' \in [Tests -> [Steps -> BOOLEAN]] /\ followed' = followed
         /\ streaming' => streaming /\ o \in {"ok", "5xx"}
         /\ o = "ok" => failed' = failed /\ (streaming => streaming')
         /\ streaming \in BOOLEAN => streaming' \in BOOLEAN
         /\ \A t \in Tests, i \in Steps :
              /\ failed[t][i] => failed'[t][i]
              /\ t # test.id \/ i # i0 => failed'[t][i] = failed[t][i]
              /\ t = test.id /\ i = i0 /\ o # "ok" => failed'[t][i]
<1>1. streaming' = (streaming /\ o \in {"ok", "5xx"}) /\ followed' = followed
  BY DEF Notices
<1>2. streaming \in BOOLEAN => streaming' \in BOOLEAN
  BY <1>1
<1>3. CASE o = "ok"
  BY <1>1, <1>2, <1>3 DEF Notices
<1>4. CASE o # "ok"
  <2>1. failed' = [failed EXCEPT ![test.id] = [i \in Steps |-> @[i] \/ i \in {i0}]]
    BY <1>4 DEF Notices
  <2> DEFINE f == [i \in Steps |-> failed[test.id][i] \/ i \in {i0}]
  <2>2. f \in [Steps -> BOOLEAN]
    OBVIOUS
  <2>3. \A i \in Steps : f[i] = (failed[test.id][i] \/ i = i0)
    OBVIOUS
  <2>4. failed' = [failed EXCEPT ![test.id] = f]
    BY <2>1
  <2> HIDE DEF f
  <2>5. /\ failed' \in [Tests -> [Steps -> BOOLEAN]]
        /\ \A t \in Tests : failed'[t] = IF t = test.id THEN f ELSE failed[t]
    BY <2>2, <2>4
  <2>6. ASSUME NEW t \in Tests, NEW i \in Steps
        PROVE  /\ failed[t][i] => failed'[t][i]
               /\ t # test.id \/ i # i0 => failed'[t][i] = failed[t][i]
               /\ t = test.id /\ i = i0 => failed'[t][i]
    <3>1. CASE t # test.id
      BY <2>5, <3>1
    <3>2. CASE t = test.id
      <4>1. failed'[t][i] = (failed[t][i] \/ i = i0)
        BY <2>3, <2>5, <3>2
      <4>2. failed[t][i] \in BOOLEAN /\ failed'[t][i] \in BOOLEAN
        BY <2>5
      <4> QED
        BY <3>2, <4>1, <4>2
    <3> QED
      BY <3>1, <3>2
  <2> QED
    BY <1>1, <1>2, <1>4, <2>5, <2>6
<1> QED
  BY <1>3, <1>4

\* What a call does to the rows.
LEMMA Written ==
  ASSUME row \in [Tests -> [Steps -> [status : RowStatuses, log : Logs]]],
         NEW took \in BOOLEAN, NEW i0 \in Steps, test.id \in Tests,
         NEW new \in [status : RowStatuses, log : Logs], Writes(took, i0, new)
  PROVE  /\ row' \in [Tests -> [Steps -> [status : RowStatuses, log : Logs]]]
         /\ took => row'[test.id][i0] = new
         /\ ~took => row' = row
         /\ \A t \in Tests, i \in Steps : t # test.id \/ i # i0 => row'[t][i] = row[t][i]
<1>1. CASE took
  <2> DEFINE r == [row[test.id] EXCEPT ![i0] = new]
  <2>1. row' = [row EXCEPT ![test.id] = r]
    BY <1>1 DEF Writes
  <2>2. /\ r \in [Steps -> [status : RowStatuses, log : Logs]] /\ r[i0] = new
        /\ \A i \in Steps : i # i0 => r[i] = row[test.id][i]
    OBVIOUS
  <2> HIDE DEF r
  <2>3. row' \in [Tests -> [Steps -> [status : RowStatuses, log : Logs]]]
    BY <2>1, <2>2
  <2>4. row'[test.id] = r /\ \A t \in Tests : t # test.id => row'[t] = row[t]
    BY <2>1
  <2> QED
    BY <1>1, <2>2, <2>3, <2>4
<1>2. CASE ~took
  BY <1>2 DEF Writes
<1> QED
  BY <1>1, <1>2

LEMMA StartStepSteps == ASSUME WhereHolds, StepsHold, StartStep PROVE StepsHold'
<1>1. CASE Renewing("start_step") /\ UNCHANGED <<step, streaming, row, history>>
  <2>1. UNCHANGED tellVars
    BY <1>1 DEF StartStep, robotVars, history, tellVars
  <2> QED
    BY <1>1, <2>1, Renewed, QuietSteps
<1>2. CASE ~(Renewing("start_step") /\ UNCHANGED <<step, streaming, row, history>>)
  <2> DEFINE t0 == test.id
             i0 == test.cursor
  <2>1. PICK o \in Outcomes, took \in BOOLEAN :
          /\ Answered("start_step", o, took)
          /\ Writes(took, i0, [row[t0][i0] EXCEPT !.status = "running"])
          /\ step' = [item |-> i0, hasRow |-> o = "ok", buffer |-> <<>>]
          /\ Notices(o, {i0})
          /\ hit' = IF o = "5xx" THEN hit \union {t0} ELSE hit
          /\ Returns
    BY <1>2 DEF StartStep
  <2>2. pc = "start_step" /\ pc' = "robot" /\ at' = at + 1 /\ UNCHANGED <<verdict, said, test>>
    BY <1>2, <2>1 DEF StartStep, Answered, Returns, robotVars
  <2>3. /\ at \in DOMAIN Script /\ Event.kind = "start_item" /\ test # NoTest /\ Here.depth = 0
        /\ at \in Nat \ {0}
    BY <2>2, WhereFacts DEF WhereHolds, CallHolds, Chained
  <2>4. step = NoStep /\ step.item = 0 /\ t0 \in Tests /\ t0 \in followed
    <3>1. step = NoStep
      BY <2>3 DEF WhereHolds, PositionHolds
    <3> QED
      BY <2>3, <3>1, StepFacts DEF StepsHold, NoStep
  <2>5. i0 \in Steps /\ i0 \in Nat \ {0}
    <3>1. Here.item + 1 \in Steps
      BY <2>3, NextPlace DEF WhereHolds, Here, Event
    <3>2. i0 = Here.item + 1
      BY <2>3 DEF WhereHolds, PositionHolds
    <3> QED
      BY <3>1, <3>2, NamesAssumption
  <2>6. row[t0][i0] = NoRow /\ said[t0][i0] = 0 /\ ~failed[t0][i0] /\ verdict[t0][i0] = "none"
    BY <2>3, <2>4, <2>5, ItemIsNew
  <2>7. streaming /\ TypesHold /\ test.cursor \in Nat
    BY <2>2 DEF StepsHold, TypesHold
  <2> DEFINE new == [status |-> "running", log |-> <<>>]
  <2>8. /\ row' \in [Tests -> [Steps -> [status : RowStatuses, log : Logs]]]
        /\ row'[t0][i0].log = <<>>
        /\ \A t \in Tests, i \in Steps : t # t0 \/ i # i0 => row'[t][i] = row[t][i]
    <3>1. [row[t0][i0] EXCEPT !.status = "running"] = new
      BY <2>6 DEF NoRow
    <3>2. new \in [status : RowStatuses, log : Logs]
      BY EmptySeq DEF RowStatuses, Logs
    <3> HIDE DEF new
    <3>3. Writes(took, i0, new) /\ row \in [Tests -> [Steps -> [status : RowStatuses, log : Logs]]]
      BY <2>1, <2>7, <3>1 DEF TypesHold
    <3>4. /\ row' \in [Tests -> [Steps -> [status : RowStatuses, log : Logs]]]
          /\ took => row'[t0][i0] = new
          /\ ~took => row' = row
          /\ \A t \in Tests, i \in Steps : t # t0 \/ i # i0 => row'[t][i] = row[t][i]
      BY <2>4, <2>5, <3>2, <3>3, Written
    <3> QED
      BY <2>6, <3>4 DEF NoRow, new
  <2>9. /\ failed' \in [Tests -> [Steps -> BOOLEAN]] /\ followed' = followed
        /\ streaming' => streaming /\ o \in {"ok", "5xx"}
        /\ o = "ok" => failed' = failed /\ (streaming => streaming')
        /\ streaming' \in BOOLEAN
        /\ \A t \in Tests, i \in Steps :
             /\ failed[t][i] => failed'[t][i]
             /\ t # test.id \/ i # i0 => failed'[t][i] = failed[t][i]
             /\ t = test.id /\ i = i0 /\ o # "ok" => failed'[t][i]
    BY <2>1, <2>4, <2>7, Noticed DEF TypesHold
  <2>10. hit \subseteq hit' /\ (o = "5xx" => t0 \in hit') /\ hit' \subseteq Tests
    BY <2>1, <2>4, <2>7 DEF TypesHold
  <2>11. /\ step'.item = i0 /\ step'.buffer = <<>> /\ (step'.hasRow <=> o = "ok")
         /\ step' \in [item : Steps \union {0}, hasRow : BOOLEAN, buffer : Logs]
    <3>1. <<>> \in Logs
      BY EmptySeq DEF Logs
    <3> QED
      BY <2>1, <2>5, <3>1
  <2>12. TypesHold'
    <3>1. \A t \in Tests, i \in Steps : said'[t][i] < at'
      BY <2>2, <2>3, <2>7 DEF TypesHold
    <3> QED
      BY <2>2, <2>5, <2>7, <2>8, <2>9, <2>10, <2>11, <3>1 DEF TypesHold
  <2>13. ASSUME NEW t \in Tests, NEW i \in Steps PROVE ItemHolds(t, i)'
    <3>1. ItemHolds(t, i) /\ i \in Nat \ {0} /\ said[t][i] \in Nat
      BY NamesAssumption DEF StepsHold, TypesHold
    <3>2. Sent(t, i)' = said[t][i] /\ Sent(t, i) = said[t][i]
      BY <2>2 DEF Sent
    <3>3. CASE t = t0 /\ i = i0
      <4>1. InOrder(row'[t][i].log, i, Sent(t, i)')
        BY <2>8, <3>1, <3>2, <3>3, NoLines
      <4> QED
        BY <2>2, <2>4, <2>6, <2>9, <2>11, <3>3, <4>1 DEF ItemHolds
    <3>4. CASE t # t0 \/ i # i0
      <4>1. row'[t][i] = row[t][i] /\ failed'[t][i] = failed[t][i]
        BY <2>8, <2>9, <3>4
      <4>2. Keeps(t, i)' <=> Keeps(t, i)
        BY <2>2, <2>4, <2>11, <3>1, <3>4 DEF Keeps
      <4>3. InOrder(row[t][i].log, i, Sent(t, i)')
        BY <3>1, <3>2 DEF ItemHolds
      <4>4. t = test'.id /\ verdict[t][i] # "none" => i < test'.cursor
        BY <2>2, <2>4, <3>1 DEF ItemHolds
      <4>5. t \notin followed' \/ (t = test'.id /\ i >= test'.cursor /\ i # step'.item) =>
              t \notin followed \/ (t = test.id /\ i >= test.cursor /\ i # step.item)
        BY <2>2, <2>4, <2>9, <3>1
      <4> QED
        BY <2>2, <2>3, <2>9, <2>10, <3>1, <4>1, <4>2, <4>3, <4>4, <4>5, ItemStays
    <3> QED
      BY <3>3, <3>4
  <2>14. StepHolds'
    <3>1. InOrder(<<>>, i0, Sent(t0, i0)') /\ LinesOf(i0, 0) = <<>> /\ Sent(t0, i0)' = 0
      <4>1. Sent(t0, i0)' = 0
        BY <2>2, <2>6 DEF Sent
      <4> QED
        BY <4>1, NoLines
    <3>2. test'.id = t0 /\ said'[t0][i0] = 0
      BY <2>2, <2>6
    <3>3. streaming' /\ ~step'.hasRow => t0 \in hit'
      BY <2>9, <2>10, <2>11
    <3>4. ~failed'[t0][i0] => step'.hasRow /\ streaming'
      BY <2>4, <2>5, <2>7, <2>9, <2>11
    <3> QED
      BY <2>2, <2>8, <2>11, <3>1, <3>2, <3>3, <3>4 DEF StepHolds
  <2>15. PendingHolds'
    <3>1. PendingHolds /\ test.pending \in Seq([item : Steps, status : Verdicts, log : Logs])
      BY <2>7 DEF StepsHold, TypesHold
    <3>2. ASSUME NEW k \in 1 .. Len(test.pending)
          PROVE  /\ test.pending[k].item \in Steps
                 /\ ~failed'[t0][test.pending[k].item] => ~failed[t0][test.pending[k].item]
      <4>1. test.pending[k] \in [item : Steps, status : Verdicts, log : Logs]
        BY <3>1, ElementOfSeq
      <4> QED
        BY <2>4, <2>9, <4>1
    <3> QED
      BY <2>2, <2>9, <2>10, <3>1, <3>2 DEF PendingHolds
  <2> QED
    BY <2>2, <2>12, <2>13, <2>14, <2>15 DEF StepsHold
<1> QED
  BY <1>1, <1>2

-----------------------------------------------------------------------------
(* Lines are logged.                                                       *)

LEMMA LogSteps == ASSUME WhereHolds, StepsHold, Log PROVE StepsHold'
<1> DEFINE t0 == test.id
           i0 == step.item
           n == said[t0][i0]
<1>1. /\ pc = "robot" /\ at \in DOMAIN Script /\ Event.kind = "log" /\ at \in Nat \ {0}
      /\ UNCHANGED <<verdict, row, failed, hit, streaming, test, followed>>
  BY WhereFacts DEF Log, On, serverVars, history
<1>2. CASE test = NoTest \/ step = NoStep
  <2>1. UNCHANGED tellVars /\ Returns
    BY <1>1, <1>2 DEF Log, tellVars
  <2> QED
    BY <1>1, <2>1, QuietSteps DEF Quiet, Returns
<1>3. CASE test # NoTest /\ step # NoStep
  <2>1. /\ t0 \in Tests /\ t0 \in followed /\ i0 \in Steps /\ Running = t0 /\ Item = i0
        /\ test.cursor = i0 /\ n \in Nat /\ i0 \in Nat \ {0}
    BY <1>3, StepFacts DEF StepsHold
  <2>2. /\ said' = [said EXCEPT ![t0][i0] = n + 1]
        /\ \/ streaming /\ step.hasRow /\ step' = step /\ pc' = "append_log" /\ at' = at
           \/ /\ ~(streaming /\ step.hasRow) /\ step' = Buffer(<<i0, n + 1>>)
              /\ pc' = "robot" /\ at' = at + 1
    BY <1>1, <1>3, <2>1 DEF Log, Calls, Returns, Line, Said
  <2>3. said' \in [Tests -> [Steps -> Nat]]
        /\ \A t \in Tests, i \in Steps :
             said'[t][i] = IF t = t0 /\ i = i0 THEN n + 1 ELSE said[t][i]
    BY <2>1, <2>2 DEF StepsHold, TypesHold
  <2>4. /\ TypesHold /\ StepHolds /\ PendingHolds
        /\ \A t \in Tests, i \in Steps : ItemHolds(t, i) /\ said[t][i] \in Nat
    BY <1>3 DEF StepsHold, TypesHold
  <2>5. /\ step' = [item |-> i0, hasRow |-> step.hasRow, buffer |-> step'.buffer]
        /\ step'.buffer = IF streaming /\ step.hasRow THEN step.buffer
                          ELSE Append(step.buffer, <<i0, n + 1>>)
    BY <2>2 DEF Buffer, WhereHolds, PositionHolds
  <2>6. Sent(t0, i0) = n /\ Sent(t0, i0)' \in {n, n + 1}
        /\ (streaming /\ step.hasRow => Sent(t0, i0)' = n)
        /\ (~(streaming /\ step.hasRow) => Sent(t0, i0)' = n + 1)
        /\ \A t \in Tests, i \in Steps : t # t0 \/ i # i0 => Sent(t, i)' = said[t][i] /\ Sent(t, i) = said[t][i]
    <3>1. Sent(t0, i0) = n
      BY <1>1 DEF Sent
    <3>2. Sent(t0, i0)' = IF pc' = "append_log" THEN said'[t0][i0] - 1 ELSE said'[t0][i0]
      BY <1>1, <2>5 DEF Sent
    <3>3. ASSUME NEW t \in Tests, NEW i \in Steps, t # t0 \/ i # i0
          PROVE  Sent(t, i)' = said[t][i] /\ Sent(t, i) = said[t][i]
      <4>1. said'[t][i] = said[t][i]
        BY <2>3, <3>3
      <4>2. Sent(t, i)' = said'[t][i] /\ Sent(t, i) = said[t][i]
        BY <1>1, <2>5, <3>3 DEF Sent
      <4> QED
        BY <4>1, <4>2
    <3>4. said'[t0][i0] = n + 1 /\ said'[t0][i0] - 1 = n
      <4> DEFINE x == said'[t0][i0]
      <4>1. x = n + 1
        BY <2>1, <2>3
      <4>2. n \in Nat
        BY <2>1
      <4> HIDE DEF x, n
      <4>3. x - 1 = n
        BY <4>1, <4>2
      <4> QED
        BY <4>1, <4>3 DEF x, n
    <3>5. CASE streaming /\ step.hasRow
      <4>1. pc' = "append_log"
        BY <2>2, <3>5
      <4>2. Sent(t0, i0)' = said'[t0][i0] - 1
        BY <3>2, <4>1
      <4>3. Sent(t0, i0)' = n
        BY <3>4, <4>2
      <4> QED
        BY <3>1, <3>3, <3>5, <4>3
    <3>6. CASE ~(streaming /\ step.hasRow)
      <4>1. pc' = "robot"
        BY <2>2, <3>6
      <4> QED
        BY <3>1, <3>2, <3>3, <3>4, <3>6, <4>1
    <3> QED
      BY <3>5, <3>6
  <2>7. /\ InOrder(step.buffer, i0, n) /\ InOrder(row[t0][i0].log, i0, n)
        /\ InOrder(step'.buffer, i0, Sent(t0, i0)') /\ InOrder(row[t0][i0].log, i0, Sent(t0, i0)')
        /\ step'.buffer \in Logs
    <3>1. InOrder(step.buffer, i0, n) /\ InOrder(row[t0][i0].log, i0, n)
      BY <2>1, <2>4, <2>6 DEF StepHolds, ItemHolds
    <3>2. InOrder(Append(step.buffer, <<i0, n + 1>>), i0, n + 1)
      BY <2>1, <3>1, LogGrows
    <3>3. InOrder(row[t0][i0].log, i0, n + 1)
      BY <2>1, <3>1, LaterLines
    <3>4. Append(step.buffer, <<i0, n + 1>>) \in Logs /\ step.buffer \in Logs
      <4>1. n + 1 \in Nat
        BY <2>1
      <4> QED
        BY <2>1, <3>1, <3>2, <4>1, LogsAre DEF Logs
    <3> QED
      BY <2>5, <2>6, <3>1, <3>2, <3>3, <3>4
  <2>8. TypesHold'
    <3>1. ASSUME NEW t \in Tests, NEW i \in Steps
          PROVE  said'[t][i] < at' \/ (pc' = "append_log" /\ said'[t][i] <= at')
      BY <1>1, <2>1, <2>2, <2>3, <2>4 DEF TypesHold
    <3>2. step' \in [item : Steps \union {0}, hasRow : BOOLEAN, buffer : Logs] /\ step'.item # 0
      <4>1. step.hasRow \in BOOLEAN
        BY <2>4 DEF TypesHold
      <4>2. step' = [item |-> step'.item, hasRow |-> step'.hasRow, buffer |-> step'.buffer]
            /\ step'.item = i0 /\ step'.hasRow = step.hasRow
        BY <2>5
      <4> QED
        BY <2>1, <2>7, <4>1, <4>2
    <3> QED
      BY <1>1, <2>3, <2>4, <3>1, <3>2 DEF TypesHold
  <2>9. verdict[t0][i0] = "none"
    BY <1>1, <2>1, <2>4 DEF ItemHolds
  <2>10. ASSUME NEW t \in Tests, NEW i \in Steps PROVE ItemHolds(t, i)'
    <3>1. ItemHolds(t, i)
      BY <2>4
    <3>2. CASE t = t0 /\ i = i0
      <4>1. InOrder(row'[t][i].log, i, Sent(t, i)')
        <5>1. row' = row /\ InOrder(row[t0][i0].log, i0, Sent(t0, i0)')
          BY <1>1, <2>7
        <5>2. test'.id = t /\ step'.item = i
          BY <1>1, <2>5, <3>2
        <5> QED
          BY <3>2, <5>1, <5>2
      <4>2. verdict'[t][i] = "none" /\ t \in followed' /\ t = test'.id /\ i = step'.item
        BY <1>1, <2>1, <2>5, <2>9, <3>2
      <4> QED
        BY <4>1, <4>2 DEF ItemHolds
    <3>3. CASE t # t0 \/ i # i0
      <4>1. said'[t][i] = said[t][i] /\ Sent(t, i)' = said[t][i] /\ Sent(t, i) = said[t][i]
        BY <2>3, <2>6, <3>3
      <4>2. InOrder(row[t][i].log, i, Sent(t, i)')
        BY <3>1, <4>1 DEF ItemHolds
      <4>3. Keeps(t, i)' <=> Keeps(t, i)
        BY <1>1, <2>5 DEF Keeps
      <4>4. t = test'.id /\ verdict[t][i] # "none" => i < test'.cursor
        BY <1>1, <3>1 DEF ItemHolds
      <4>5. at' \in {at, at + 1}
        BY <2>2
      <4>6. step'.item = step.item
        BY <2>5
      <4> QED
        BY <1>1, <3>1, <4>1, <4>2, <4>3, <4>4, <4>5, <4>6, ItemStays
    <3> QED
      BY <3>2, <3>3
  <2>11. StepHolds'
    <3>1. /\ test'.id = t0 /\ step'.item = i0 /\ step'.hasRow = step.hasRow
          /\ said'[t0][i0] = n + 1
      BY <1>1, <2>1, <2>3, <2>5
    <3>2. streaming' /\ ~step'.hasRow => t0 \in hit'
      BY <1>1, <2>4, <3>1 DEF StepHolds
    <3>3. ASSUME ~failed[t0][i0], step.hasRow
          PROVE  streaming /\ step'.buffer = <<>> /\ row[t0][i0].log = LinesOf(i0, Sent(t0, i0)')
      <4>1. streaming /\ step.buffer = <<>> /\ row[t0][i0].log = LinesOf(i0, Sent(t0, i0))
        BY <2>4, <3>3 DEF StepHolds
      <4> QED
        BY <2>5, <2>6, <3>3, <4>1
    <3>4. ASSUME ~failed[t0][i0], ~step.hasRow
          PROVE  ~streaming /\ step'.buffer = LinesOf(i0, n + 1)
      <4>1. ~streaming /\ step.buffer = LinesOf(i0, n)
        BY <2>4, <3>4 DEF StepHolds
      <4>2. Append(LinesOf(i0, n), <<i0, n + 1>>) = LinesOf(i0, n + 1)
        BY <2>1, LinesGrow
      <4> QED
        BY <2>5, <3>4, <4>1, <4>2
    <3>5. pc' # "end_step" /\ (pc' = "append_log" => step'.hasRow /\ n + 1 > 0)
      BY <2>1, <2>2, <3>1
    <3> QED
      BY <1>1, <2>7, <3>1, <3>2, <3>3, <3>4, <3>5 DEF StepHolds
  <2>12. PendingHolds'
    <3>1. ASSUME NEW k \in 1 .. Len(test.pending)
          PROVE  said'[t0][test.pending[k].item] = said[t0][test.pending[k].item]
      <4>1. test.pending[k] \in [item : Steps, status : Verdicts, log : Logs]
        BY <2>4, ElementOfSeq DEF TypesHold
      <4>2. test.pending[k].item \in Steps /\ test.pending[k].item < i0
        BY <2>1, <2>4, <4>1 DEF PendingHolds
      <4>3. test.pending[k].item # i0
        BY <2>1, <4>2, NamesAssumption
      <4> QED
        BY <2>1, <2>3, <4>2, <4>3
    <3> QED
      BY <1>1, <2>4, <3>1 DEF PendingHolds
  <2>13. pc' # "batch" /\ pc' # "start_step"
    BY <2>2
  <2> QED
    BY <2>8, <2>10, <2>11, <2>12, <2>13 DEF StepsHold
<1> QED
  BY <1>2, <1>3

LEMMA AppendLogSteps == ASSUME WhereHolds, StepsHold, AppendLog PROVE StepsHold'
<1>1. CASE Renewing("append_log") /\ UNCHANGED <<step, streaming, row, history>>
  <2>1. UNCHANGED tellVars
    BY <1>1 DEF AppendLog, robotVars, history, tellVars
  <2> QED
    BY <1>1, <2>1, Renewed, QuietSteps
<1>2. CASE ~(Renewing("append_log") /\ UNCHANGED <<step, streaming, row, history>>)
  <2> DEFINE t0 == test.id
             i0 == step.item
             n == said[t0][i0]
  <2>1. pc = "append_log" /\ at \in DOMAIN Script /\ Event.kind = "log" /\ step # NoStep /\ at \in Nat \ {0}
    BY <1>2, WhereFacts DEF AppendLog, Answered, WhereHolds, CallHolds, Chained
  <2>2. /\ t0 \in Tests /\ t0 \in followed /\ i0 \in Steps /\ Running = t0 /\ Item = i0
        /\ test # NoTest /\ test.cursor = i0 /\ n \in Nat /\ i0 \in Nat \ {0}
    BY <2>1, StepFacts DEF StepsHold
  <2>3. PICK o \in Outcomes, took \in BOOLEAN :
          /\ Answered("append_log", o, took)
          /\ Writes(took, i0, [row[t0][i0] EXCEPT !.log = Append(@, <<i0, n>>)])
          /\ step' = IF o = "ok" THEN step ELSE Buffer(<<i0, n>>)
          /\ Notices(o, {i0})
          /\ UNCHANGED hit
          /\ Returns
    BY <1>2, <2>2 DEF AppendLog, Line, Said
  <2>4. pc' = "robot" /\ at' = at + 1 /\ UNCHANGED <<verdict, said, test, hit>> /\ step'.item = i0
    <3>1. step = [item |-> step.item, hasRow |-> step.hasRow, buffer |-> step.buffer]
      BY DEF WhereHolds, PositionHolds
    <3>2. step'.item = i0
      BY <2>3, <3>1 DEF Buffer
    <3> QED
      BY <1>2, <2>3, <3>2 DEF AppendLog, Returns, robotVars
  <2>5. /\ TypesHold /\ StepHolds /\ PendingHolds
        /\ \A t \in Tests, i \in Steps : ItemHolds(t, i) /\ said[t][i] \in Nat
    BY <2>1 DEF StepsHold, TypesHold
  <2>6. o = "ok" => took
    BY <2>3, OkTakesEffect DEF Answered
  <2>7. PICK m \in Nat : n = m + 1
    <3>1. n > 0
      BY <2>1, <2>5 DEF StepHolds
    <3>2. n - 1 \in Nat /\ n = (n - 1) + 1
      BY <2>2, <3>1
    <3> QED
      BY <3>2
  <2>8. Sent(t0, i0) = m /\ Sent(t0, i0)' = n
        /\ \A t \in Tests, i \in Steps : t # t0 \/ i # i0 => Sent(t, i)' = said[t][i] /\ Sent(t, i) = said[t][i]
    <3>1. Sent(t0, i0) = n - 1 /\ Sent(t0, i0)' = n
      BY <2>1, <2>4 DEF Sent
    <3>2. ASSUME NEW t \in Tests, NEW i \in Steps, t # t0 \/ i # i0
          PROVE  Sent(t, i)' = said[t][i] /\ Sent(t, i) = said[t][i]
      BY <2>4, <3>2 DEF Sent
    <3>3. n - 1 = m
      BY <2>7
    <3> QED
      BY <3>1, <3>2, <3>3
  <2>9. /\ InOrder(step.buffer, i0, n) /\ InOrder(row[t0][i0].log, i0, n)
        /\ InOrder(Append(step.buffer, <<i0, n>>), i0, n)
        /\ InOrder(Append(row[t0][i0].log, <<i0, n>>), i0, n)
    <3>1. InOrder(step.buffer, i0, m) /\ InOrder(row[t0][i0].log, i0, m)
      BY <2>2, <2>5, <2>8 DEF StepHolds, ItemHolds
    <3>2. InOrder(step.buffer, i0, m + 1) /\ InOrder(row[t0][i0].log, i0, m + 1)
      BY <3>1, LaterLines
    <3>3. /\ InOrder(Append(step.buffer, <<i0, m + 1>>), i0, m + 1)
          /\ InOrder(Append(row[t0][i0].log, <<i0, m + 1>>), i0, m + 1)
      BY <3>1, LogGrows
    <3> QED
      BY <2>7, <3>2, <3>3
  <2>10. /\ step' = [item |-> i0, hasRow |-> TRUE, buffer |-> step'.buffer]
         /\ step'.buffer = IF o = "ok" THEN step.buffer ELSE Append(step.buffer, <<i0, n>>)
         /\ step.hasRow
    <3>1. step = [item |-> step.item, hasRow |-> step.hasRow, buffer |-> step.buffer]
      BY DEF WhereHolds, PositionHolds
    <3>2. step.hasRow
      BY <2>1, <2>5 DEF StepHolds
    <3>3. step.hasRow \in BOOLEAN
      BY <2>5 DEF TypesHold
    <3>4. step.hasRow = TRUE
      BY <3>2, <3>3
    <3>5. /\ step' = [item |-> i0, hasRow |-> step.hasRow, buffer |-> step'.buffer]
          /\ step'.buffer = IF o = "ok" THEN step.buffer ELSE Append(step.buffer, <<i0, n>>)
      BY <2>3, <3>1 DEF Buffer
    <3> QED
      BY <3>4, <3>5
  <2>11. InOrder(step'.buffer, i0, n) /\ step'.buffer \in Logs
    <3>1. InOrder(step'.buffer, i0, n)
      BY <2>9, <2>10
    <3> QED
      BY <2>2, <3>1, LogsAre DEF Logs
  <2>12. /\ row' \in [Tests -> [Steps -> [status : RowStatuses, log : Logs]]]
         /\ row'[t0][i0].log = IF took THEN Append(row[t0][i0].log, <<i0, n>>) ELSE row[t0][i0].log
         /\ \A t \in Tests, i \in Steps : t # t0 \/ i # i0 => row'[t][i] = row[t][i]
    <3> DEFINE new == [row[t0][i0] EXCEPT !.log = Append(row[t0][i0].log, <<i0, n>>)]
    <3>1. Append(row[t0][i0].log, <<i0, n>>) \in Logs
      BY <2>2, <2>9, LogsAre DEF Logs
    <3>2. row[t0][i0] \in [status : RowStatuses, log : Logs]
      BY <2>2, <2>5 DEF TypesHold
    <3>3. new \in [status : RowStatuses, log : Logs] /\ new.log = Append(row[t0][i0].log, <<i0, n>>)
      BY <3>1, <3>2
    <3>4. Writes(took, i0, new) /\ row \in [Tests -> [Steps -> [status : RowStatuses, log : Logs]]]
      BY <2>3, <2>5 DEF TypesHold
    <3> HIDE DEF new
    <3>5. /\ row' \in [Tests -> [Steps -> [status : RowStatuses, log : Logs]]]
          /\ took => row'[t0][i0] = new
          /\ ~took => row' = row
          /\ \A t \in Tests, i \in Steps : t # t0 \/ i # i0 => row'[t][i] = row[t][i]
      BY <2>2, <3>3, <3>4, Written
    <3> QED
      BY <3>3, <3>5
  <2>13. /\ failed' \in [Tests -> [Steps -> BOOLEAN]] /\ followed' = followed
         /\ streaming' => streaming /\ o \in {"ok", "5xx"}
         /\ o = "ok" => failed' = failed /\ (streaming => streaming')
         /\ streaming' \in BOOLEAN
         /\ \A t \in Tests, i \in Steps :
              /\ failed[t][i] => failed'[t][i]
              /\ t # test.id \/ i # i0 => failed'[t][i] = failed[t][i]
              /\ t = test.id /\ i = i0 /\ o # "ok" => failed'[t][i]
    BY <2>2, <2>3, <2>5, Noticed DEF TypesHold
  <2>14. TypesHold'
    <3>1. ASSUME NEW t \in Tests, NEW i \in Steps PROVE said'[t][i] < at'
      <4>1. said[t][i] \in Nat /\ said[t][i] <= at /\ said'[t][i] = said[t][i]
        BY <2>1, <2>4, <2>5 DEF TypesHold
      <4> QED
        BY <2>1, <2>4, <4>1
    <3>2. step' \in [item : Steps \union {0}, hasRow : BOOLEAN, buffer : Logs] /\ step'.item # 0
      <4> DEFINE b == step'.buffer
      <4>1. step' = [item |-> i0, hasRow |-> TRUE, buffer |-> b] /\ b \in Logs
        BY <2>10, <2>11
      <4> HIDE DEF b
      <4> QED
        BY <2>2, <2>4, <4>1
    <3> QED
      BY <2>4, <2>5, <2>12, <2>13, <3>1, <3>2 DEF TypesHold
  <2>15. verdict[t0][i0] = "none"
    BY <2>1, <2>2, <2>5 DEF ItemHolds
  <2>16. ASSUME NEW t \in Tests, NEW i \in Steps PROVE ItemHolds(t, i)'
    <3>1. ItemHolds(t, i) /\ step'.item = step.item
      BY <2>5, <2>10
    <3>2. CASE t = t0 /\ i = i0
      <4>1. InOrder(row'[t0][i0].log, i0, Sent(t0, i0)')
        BY <2>8, <2>9, <2>12
      <4> QED
        BY <2>2, <2>4, <2>13, <2>15, <3>1, <3>2, <4>1 DEF ItemHolds
    <3>3. CASE t # t0 \/ i # i0
      <4>1. row'[t][i] = row[t][i] /\ failed'[t][i] = failed[t][i]
        BY <2>12, <2>13, <3>3
      <4>2. InOrder(row[t][i].log, i, Sent(t, i)')
        BY <2>8, <3>1, <3>3 DEF ItemHolds
      <4>3. Keeps(t, i)' <=> Keeps(t, i)
        BY <2>4, <3>1 DEF Keeps
      <4>4. t = test'.id /\ verdict[t][i] # "none" => i < test'.cursor
        BY <2>1, <2>4, <3>1 DEF ItemHolds
      <4> QED
        BY <2>1, <2>4, <2>13, <3>1, <4>1, <4>2, <4>3, <4>4, ItemStays
    <3> QED
      BY <3>2, <3>3
  <2>17. StepHolds'
    <3>1. test'.id = t0 /\ step'.item = i0 /\ step'.hasRow /\ said'[t0][i0] = n
      BY <2>4, <2>10
    <3>2. ASSUME ~failed'[t0][i0]
          PROVE  streaming' /\ step'.buffer = <<>> /\ row'[t0][i0].log = LinesOf(i0, n)
      <4>1. o = "ok" /\ ~failed[t0][i0] /\ took
        BY <2>2, <2>6, <2>13, <3>2
      <4>2. streaming /\ step.buffer = <<>> /\ row[t0][i0].log = LinesOf(i0, m)
        BY <2>5, <2>8, <2>10, <4>1 DEF StepHolds
      <4>3. Append(LinesOf(i0, m), <<i0, m + 1>>) = LinesOf(i0, m + 1)
        BY LinesGrow
      <4>4. row'[t0][i0].log = LinesOf(i0, n)
        BY <2>7, <2>12, <4>1, <4>2, <4>3
      <4> QED
        BY <2>10, <2>13, <4>1, <4>2, <4>4
    <3> QED
      BY <2>4, <2>8, <2>11, <3>1, <3>2 DEF StepHolds
  <2>18. PendingHolds'
    <3>1. ASSUME NEW k \in 1 .. Len(test.pending)
          PROVE  ~failed'[t0][test.pending[k].item] => ~failed[t0][test.pending[k].item]
      <4>1. test.pending[k] \in [item : Steps, status : Verdicts, log : Logs]
        BY <2>5, ElementOfSeq DEF TypesHold
      <4> QED
        BY <2>2, <2>13, <4>1
    <3> QED
      BY <2>4, <2>5, <2>13, <3>1 DEF PendingHolds
  <2> QED
    BY <2>4, <2>14, <2>16, <2>17, <2>18 DEF StepsHold
<1> QED
  BY <1>1, <1>2

-----------------------------------------------------------------------------
(* An item ends.                                                           *)

\* Robot is in a test it has started.
BegunHolds == Here.test # "none" => Here.test \in Started

LEMMA AtMoves ==
  ASSUME WhereHolds, [Next]_vars
  PROVE  at' = at \/ (at \in DOMAIN Script /\ at' = at + 1)
<1>1. CASE StartSuite \/ EndSuite
  BY <1>1, WhereFacts DEF StartSuite, EndSuite, On, Calls, Returns
<1>2. CASE FindOrCreateSuite
  BY <1>2 DEF FindOrCreateSuite, Renewing, Answered, Returns, WhereHolds, CallHolds
<1>3. CASE Clock \/ OtherCreatesCase \/ UNCHANGED vars
  BY <1>3 DEF Clock, OtherCreatesCase, vars
<1> QED
  BY <1>1, <1>2, <1>3, TestActions
     DEF Next, Handlers, ChainActions, ItemActions, EndActions, Ended, Returns

LEMMA BegunNext == ASSUME WhereHolds, BegunHolds, [Next]_vars PROVE BegunHolds'
<1>1. CASE at' = at
  BY <1>1 DEF BegunHolds, Started, Here
<1>2. CASE at \in DOMAIN Script /\ at' = at + 1
  <2>1. at \in Nat \ {0} /\ Started \subseteq Started'
    BY <1>2, WhereFacts, StartedGrows
  <2>2. \/ Here'.test \in {Here.test, "none"}
        \/ Event.kind = "start_test" /\ Here'.test = Event.name
    <3>1. Event.kind \in {"start_suite", "end_suite", "start_test", "start_item", "log", "end_item",
                          "end_test"}
      BY <1>2, ScriptFacts DEF May, Event
    <3>2. Here' = Place[at + 1]
      BY <1>2 DEF Here
    <3> QED
      BY <1>2, <3>1, <3>2, NextPlace DEF WhereHolds, Here, Event
  <2>3. CASE Event.kind = "start_test" /\ Here'.test = Event.name
    <3>1. at \in {k \in 1 .. at' - 1 : Script[k].kind = "start_test"}
      BY <1>2, <2>1, <2>3 DEF Event
    <3> QED
      BY <2>3, <3>1 DEF BegunHolds, Started, Event
  <2> QED
    BY <2>1, <2>2, <2>3 DEF BegunHolds
<1> QED
  BY <1>1, <1>2, AtMoves

LEMMA BegunInit == Init => BegunHolds
  BY ScriptFacts DEF Init, BegunHolds, Here, Nowhere

\* The item joins those that wait for the batch.
LEMMA Pended ==
  ASSUME TypesHold, PendingHolds, test.id \in Tests, step.item \in Steps, test.cursor = step.item,
         NEW v \in Verdicts, test' = Pend(v), UNCHANGED said,
         verdict'[test.id][step.item] = v,
         \A i \in Steps : i # step.item => verdict'[test.id][i] = verdict[test.id][i],
         \A i \in Steps : failed[test.id][i] => failed'[test.id][i],
         streaming' => streaming, streaming' => test.id \in hit',
         InOrder(step.buffer, step.item, said[test.id][step.item]),
         ~failed'[test.id][step.item] =>
           ~streaming' /\ step.buffer = LinesOf(step.item, said[test.id][step.item])
  PROVE  /\ test' \in [id : Tests \union {"none"}, cursor : Nat \ {0},
                       pending : Seq([item : Steps, status : Verdicts, log : Logs])]
         /\ test'.id = test.id /\ test'.cursor = step.item + 1
         /\ \A i : (\E k \in 1 .. Len(test'.pending) : test'.pending[k].item = i) <=>
                   i = step.item \/ \E k \in 1 .. Len(test.pending) : test.pending[k].item = i
         /\ PendingHolds'
<1> DEFINE Results == [item : Steps, status : Verdicts, log : Logs]
           p == test.pending
           q == test'.pending
           r == Result(step.item, v)
           n == Len(p)
<1>1. /\ test'.id = test.id /\ test'.cursor = step.item + 1 /\ q = Append(p, r)
      /\ test' = [id |-> test.id, cursor |-> step.item + 1, pending |-> Append(p, r)]
  BY DEF Pend
<1>2. p \in Seq(Results) /\ step.buffer \in Logs /\ step.item \in Nat
  BY NamesAssumption DEF TypesHold
<1>3. r \in Results /\ r.item = step.item /\ r.status = v /\ r.log = step.buffer
  BY <1>2 DEF Result
<1>4. /\ q \in Seq(Results) /\ Len(q) = n + 1 /\ q[n + 1] = r /\ n \in Nat
      /\ \A k \in 1 .. n : q[k] = p[k] /\ p[k] \in Results
  <2> HIDE DEF p, r, q, n, Results
  <2>1. /\ Append(p, r) \in Seq(Results) /\ Len(Append(p, r)) = Len(p) + 1
        /\ Append(p, r)[Len(p) + 1] = r /\ \A k \in 1 .. Len(p) : Append(p, r)[k] = p[k]
    BY <1>2, <1>3, AppendProperties
  <2>2. Len(p) \in Nat /\ \A k \in 1 .. Len(p) : p[k] \in Results
    BY <1>2, ElementOfSeq, LenProperties
  <2> QED
    BY <1>1, <2>1, <2>2 DEF n
<1>5. \A k \in 1 .. n + 1 : k \in 1 .. n \/ k = n + 1
  BY <1>4
<1>6. test' \in [id : Tests \union {"none"}, cursor : Nat \ {0}, pending : Seq(Results)]
  <2> DEFINE a == Append(p, r)
  <2>1. a \in Seq(Results) /\ test' = [id |-> test.id, cursor |-> step.item + 1, pending |-> a]
    BY <1>1, <1>4
  <2> HIDE DEF a, Results
  <2> QED
    BY <1>2, <2>1
<1>7. ASSUME NEW i
      PROVE  (\E k \in 1 .. Len(q) : q[k].item = i) <=> i = step.item \/ \E k \in 1 .. n : p[k].item = i
  <2> HIDE DEF p, q, r, n
  <2>1. ASSUME \E k \in 1 .. Len(q) : q[k].item = i
        PROVE  i = step.item \/ \E k \in 1 .. n : p[k].item = i
    BY <1>3, <1>4, <1>5, <2>1
  <2>2. ASSUME i = step.item PROVE \E k \in 1 .. Len(q) : q[k].item = i
    <3>1. n + 1 \in 1 .. Len(q)
      BY <1>4
    <3> QED
      BY <1>3, <1>4, <2>2, <3>1
  <2>3. ASSUME NEW k \in 1 .. n, p[k].item = i PROVE \E j \in 1 .. Len(q) : q[j].item = i
    <3>1. k \in 1 .. Len(q)
      BY <1>4
    <3> QED
      BY <1>4, <2>3, <3>1
  <2> QED
    BY <2>1, <2>2, <2>3
<1>8. ASSUME NEW k \in 1 .. n
      PROVE  /\ p[k].item \in Steps /\ p[k].item < step.item /\ p[k].item # step.item
             /\ p[k].status = verdict[test.id][p[k].item]
             /\ InOrder(p[k].log, p[k].item, said[test.id][p[k].item])
             /\ ~failed[test.id][p[k].item] =>
                  ~streaming /\ p[k].log = LinesOf(p[k].item, said[test.id][p[k].item])
             /\ \A j \in 1 .. n : j # k => p[j].item # p[k].item
  <2>1. p[k].item \in Steps
    BY <1>4
  <2>2. p[k].item < step.item
    BY DEF PendingHolds
  <2> QED
    BY <1>2, <2>1, <2>2, NamesAssumption DEF PendingHolds
<1> DEFINE Holds(k) ==
             /\ q[k].status = verdict'[test.id][q[k].item] /\ q[k].item < step.item + 1
             /\ InOrder(q[k].log, q[k].item, said[test.id][q[k].item])
             /\ ~failed'[test.id][q[k].item] =>
                  ~streaming' /\ q[k].log = LinesOf(q[k].item, said[test.id][q[k].item])
             /\ \A j \in 1 .. n + 1 : j # k => q[j].item # q[k].item
<1>9. Holds(n + 1)
  <2>1. \A j \in 1 .. n + 1 : j # n + 1 => q[j].item # step.item
    BY <1>4, <1>5, <1>8
  <2>2. step.item < step.item + 1
    BY <1>2
  <2> HIDE DEF p, q, r, n
  <2> QED
    BY <1>3, <1>4, <2>1, <2>2
<1>10. ASSUME NEW k \in 1 .. n PROVE Holds(k)
  <2>1. \A j \in 1 .. n + 1 : j # k => q[j].item # p[k].item
    BY <1>3, <1>4, <1>5, <1>8
  <2>2. p[k].item < step.item + 1
    <3>1. p[k].item \in Nat /\ p[k].item < step.item
      BY <1>8, NamesAssumption
    <3> QED
      BY <1>2, <3>1
  <2>3. q[k] = p[k]
    BY <1>4
  <2> HIDE DEF p, q, n
  <2>4. /\ p[k].item \in Steps /\ p[k].item # step.item /\ p[k].status = verdict[test.id][p[k].item]
        /\ InOrder(p[k].log, p[k].item, said[test.id][p[k].item])
        /\ ~failed[test.id][p[k].item] =>
             ~streaming /\ p[k].log = LinesOf(p[k].item, said[test.id][p[k].item])
    BY <1>8
  <2>5. p[k].status = verdict'[test.id][p[k].item]
    BY <2>4
  <2>6. ~failed'[test.id][p[k].item] =>
          ~streaming' /\ p[k].log = LinesOf(p[k].item, said[test.id][p[k].item])
    BY <2>4
  <2> QED
    BY <2>1, <2>2, <2>3, <2>4, <2>5, <2>6
<1>11. \A k \in 1 .. Len(q) : Holds(k)
  <2>1. Len(q) = n + 1
    BY <1>4
  <2> HIDE DEF q, n, Holds
  <2> QED
    BY <1>5, <1>9, <1>10, <2>1
<1>12. PendingHolds'
  <2> HIDE DEF n
  <2>1. Len(q) = n + 1
    BY <1>4
  <2>2. streaming' /\ test'.pending # <<>> => test'.id \in hit'
    BY <1>1
  <2>3. ASSUME NEW k \in 1 .. Len(test'.pending)
        PROVE  LET s == test'.pending[k] IN
               /\ s.status = verdict'[test'.id][s.item] /\ s.item < test'.cursor
               /\ InOrder(s.log, s.item, said'[test'.id][s.item])
               /\ ~failed'[test'.id][s.item] =>
                    ~streaming' /\ s.log = LinesOf(s.item, said'[test'.id][s.item])
               /\ \A j \in 1 .. Len(test'.pending) : j # k => test'.pending[j].item # s.item
    <3> HIDE DEF p, r
    <3>1. Holds(k)
      BY <1>11
    <3> QED
      BY <1>1, <2>1, <3>1
  <2> QED
    BY <2>2, <2>3 DEF PendingHolds
<1> QED
  BY <1>1, <1>6, <1>7, <1>12

LEMMA EndItemSteps == ASSUME WhereHolds, BegunHolds, StepsHold, EndItem PROVE StepsHold'
<1> DEFINE t0 == test.id
           i0 == step.item
<1>1. /\ pc = "robot" /\ at \in DOMAIN Script /\ Event.kind = "end_item" /\ at \in Nat \ {0}
      /\ UNCHANGED <<said, row, failed, hit, streaming, followed>>
  BY WhereFacts DEF EndItem, On, serverVars, history
<1>2. /\ TypesHold /\ PendingHolds
      /\ \A t \in Tests, i \in Steps : ItemHolds(t, i) /\ said[t][i] \in Nat /\ i \in Nat \ {0}
  <2>1. TypesHold /\ PendingHolds /\ \A t \in Tests, i \in Steps : ItemHolds(t, i)
    BY DEF StepsHold
  <2>2. said \in [Tests -> [Steps -> Nat]]
    BY <2>1 DEF TypesHold
  <2>3. \A t \in Tests, i \in Steps : said[t][i] \in Nat
    BY <2>2
  <2>4. \A i \in Steps : i \in Nat \ {0}
    BY NamesAssumption
  <2> QED
    BY <2>1, <2>3, <2>4
<1>3. CASE depth # 1
  <2>1. UNCHANGED tellVars /\ Returns
    BY <1>1, <1>3 DEF EndItem, tellVars
  <2> QED
    BY <1>1, <2>1, QuietSteps DEF Quiet, Returns
<1>4. CASE depth = 1
  <2>1. /\ Here.test # "none" /\ Here.depth = 1 /\ Here.item # 0
        /\ Here.test \in Tests /\ Here.item \in Steps
    <3>1. Here.test # "none"
      BY <1>1, NextPlace DEF WhereHolds, Here, Event
    <3>2. Here.depth = 1
      BY <1>1, <1>4 DEF WhereHolds, PositionHolds
    <3> QED
      BY <3>1, <3>2, WhereFacts DEF WhereHolds, RobotHolds, Places
  <2> DEFINE tr == Here.test
             ir == Here.item
  <2>2. PICK v \in Verdicts :
          /\ verdict' = [verdict EXCEPT ![tr][ir] = v]
          /\ \/ (test = NoTest \/ step = NoStep) /\ UNCHANGED <<test, step>> /\ Returns
             \/ /\ test # NoTest /\ step # NoStep /\ streaming /\ step.hasRow
                /\ UNCHANGED <<test, step>> /\ Calls("end_step")
             \/ /\ test # NoTest /\ step # NoStep /\ ~(streaming /\ step.hasRow)
                /\ test' = Pend(v) /\ step' = NoStep /\ Returns
    BY <1>1, <1>4 DEF EndItem, Running, Item, Here
  <2>3. verdict' \in [Tests -> [Steps -> Verdicts \union {"none"}]]
        /\ \A t \in Tests, i \in Steps : verdict'[t][i] = IF t = tr /\ i = ir THEN v ELSE verdict[t][i]
    <3> HIDE DEF tr, ir
    <3>1. tr \in Tests /\ ir \in Steps
      BY <2>1 DEF tr, ir
    <3>2. verdict \in [Tests -> [Steps -> Verdicts \union {"none"}]]
      BY <1>2 DEF TypesHold
    <3> QED
      BY <2>2, <3>1, <3>2
  <2>4. v # "none"
    BY DEF Verdicts
  <2>5. at' \in {at, at + 1} /\ pc' \in {"robot", "end_step"}
    BY <1>1, <2>2 DEF Returns, Calls
  <2>6. ASSUME NEW t \in Tests, NEW i \in Steps
        PROVE  /\ Sent(t, i)' = said[t][i] /\ Sent(t, i) = said[t][i]
               /\ InOrder(row[t][i].log, i, Sent(t, i)')
    <3>1. Sent(t, i)' = said[t][i] /\ Sent(t, i) = said[t][i]
      BY <1>1, <2>5 DEF Sent
    <3> QED
      BY <1>2, <3>1 DEF ItemHolds
  <2>7. ASSUME NEW t \in Tests, NEW i \in Steps
        PROVE  said'[t][i] < at' \/ (pc' = "append_log" /\ said'[t][i] <= at')
    <3>1. said[t][i] \in Nat /\ said[t][i] < at /\ said'[t][i] = said[t][i]
      BY <1>1, <1>2 DEF TypesHold
    <3> QED
      BY <1>1, <2>5, <3>1
  <2>8. tr \in Started'
    BY <1>1, <2>1, <2>5, StartedGrows DEF BegunHolds
  <2>9. CASE test = NoTest \/ step = NoStep
    <3>1. test = NoTest /\ step = NoStep /\ tr \notin followed
      BY <2>1, <2>9 DEF WhereHolds, PositionHolds
    <3>2. UNCHANGED <<test, step>> /\ at' = at + 1 /\ pc' = "robot"
      BY <2>2, <2>9 DEF Returns
    <3>3. TypesHold'
      BY <1>1, <1>2, <2>3, <2>7, <3>2 DEF TypesHold
    <3>4. ASSUME NEW t \in Tests, NEW i \in Steps PROVE ItemHolds(t, i)'
      <4>1. t # test'.id
        BY <3>1, <3>2, NamesAssumption DEF NoTest
      <4>2. CASE t = tr /\ i = ir
        BY <1>1, <1>2, <2>6, <2>8, <3>1, <4>1, <4>2 DEF ItemHolds
      <4>3. CASE t # tr \/ i # ir
        <5>1. verdict'[t][i] = verdict[t][i] /\ (Keeps(t, i)' <=> Keeps(t, i))
          BY <2>3, <3>2, <4>3 DEF Keeps
        <5> QED
          BY <1>1, <1>2, <2>5, <2>6, <3>2, <4>1, <5>1, ItemStays
      <4> QED
        BY <4>2, <4>3
    <3>5. PendingHolds'
      <4>1. test'.pending = <<>>
        BY <3>1, <3>2 DEF NoTest
      <4> QED
        BY <4>1 DEF PendingHolds
    <3> QED
      BY <3>1, <3>2, <3>3, <3>4, <3>5 DEF StepsHold
  <2>10. CASE test # NoTest /\ step # NoStep
    <3>1. /\ t0 \in Tests /\ t0 \in followed /\ i0 \in Steps /\ tr = t0 /\ ir = i0
          /\ test.cursor = i0 /\ i0 \in Nat \ {0} /\ i0 # 0
      BY <1>2, <2>10, StepFacts
    <3>2. /\ InOrder(step.buffer, i0, said[t0][i0])
          /\ streaming /\ ~step.hasRow => t0 \in hit
          /\ ~failed[t0][i0] =>
               IF step.hasRow
               THEN streaming /\ step.buffer = <<>> /\ row[t0][i0].log = LinesOf(i0, said[t0][i0])
               ELSE ~streaming /\ step.buffer = LinesOf(i0, said[t0][i0])
      BY <1>1, <2>6, <2>10, <3>1 DEF StepsHold, StepHolds
    <3>3. /\ verdict'[t0][i0] = v
          /\ \A t \in Tests, i \in Steps : t # t0 \/ i # i0 => verdict'[t][i] = verdict[t][i]
      BY <2>3, <3>1
    <3>4. CASE streaming /\ step.hasRow
      <4>1. UNCHANGED <<test, step>> /\ at' = at /\ pc' = "end_step"
        BY <2>2, <2>10, <3>4 DEF Calls
      <4>2. TypesHold'
        BY <1>1, <1>2, <2>3, <2>7, <4>1 DEF TypesHold
      <4>3. ASSUME NEW t \in Tests, NEW i \in Steps PROVE ItemHolds(t, i)'
        <5>1. Keeps(t, i)' <=> Keeps(t, i)
          BY <4>1 DEF Keeps
        <5>2. CASE t = t0 /\ i = i0
          <6>1. Keeps(t, i)' /\ t \in followed' /\ i = step'.item /\ t \in Started'
            BY <1>1, <2>8, <3>1, <4>1, <5>2 DEF Keeps
          <6> QED
            BY <1>1, <1>2, <2>6, <3>1, <4>1, <5>2, <6>1 DEF ItemHolds
        <5>3. CASE t # t0 \/ i # i0
          <6>1. t = test'.id /\ verdict[t][i] # "none" => i < test'.cursor
            BY <1>1, <1>2, <4>1 DEF ItemHolds
          <6> QED
            BY <1>1, <1>2, <2>5, <2>6, <3>3, <4>1, <5>1, <5>3, <6>1, ItemStays
        <5> QED
          BY <5>2, <5>3
      <4>4. StepHolds'
        <5>1. InOrder(step.buffer, i0, Sent(t0, i0)') /\ Sent(t0, i0)' = said[t0][i0]
          BY <1>1, <3>2, <4>1 DEF Sent
        <5> QED
          BY <1>1, <2>4, <3>2, <3>3, <3>4, <4>1, <5>1 DEF StepHolds
      <4>5. PendingHolds'
        <5>1. ASSUME NEW k \in 1 .. Len(test.pending)
              PROVE  verdict'[t0][test.pending[k].item] = verdict[t0][test.pending[k].item]
          <6>1. test.pending[k] \in [item : Steps, status : Verdicts, log : Logs]
            BY <1>2, ElementOfSeq DEF TypesHold
          <6>2. test.pending[k].item \in Steps /\ test.pending[k].item < i0
            BY <1>2, <3>1, <6>1 DEF PendingHolds
          <6>3. test.pending[k].item # i0
            BY <3>1, <6>2, NamesAssumption
          <6> QED
            BY <3>1, <3>3, <6>2, <6>3
        <5> QED
          BY <1>1, <1>2, <4>1, <5>1 DEF PendingHolds
      <4> QED
        BY <4>1, <4>2, <4>3, <4>4, <4>5 DEF StepsHold
    <3>5. CASE ~(streaming /\ step.hasRow)
      <4>1. test' = Pend(v) /\ step' = NoStep /\ at' = at + 1 /\ pc' = "robot"
        BY <2>2, <2>10, <3>5 DEF Returns
      <4>2. /\ test' \in [id : Tests \union {"none"}, cursor : Nat \ {0},
                          pending : Seq([item : Steps, status : Verdicts, log : Logs])]
            /\ test'.id = t0 /\ test'.cursor = i0 + 1
            /\ \A i : (\E k \in 1 .. Len(test'.pending) : test'.pending[k].item = i) <=>
                      i = i0 \/ \E k \in 1 .. Len(test.pending) : test.pending[k].item = i
            /\ PendingHolds'
        <5>1. /\ \A i \in Steps : i # i0 => verdict'[t0][i] = verdict[t0][i]
              /\ \A i \in Steps : failed[t0][i] => failed'[t0][i]
          BY <1>1, <3>1, <3>3
        <5>2. /\ streaming' => streaming /\ t0 \in hit'
              /\ ~failed'[t0][i0] => ~streaming' /\ step.buffer = LinesOf(i0, said[t0][i0])
          BY <1>1, <3>2, <3>5
        <5> QED
          BY <1>1, <1>2, <3>1, <3>2, <3>3, <4>1, <5>1, <5>2, Pended
      <4>3. step'.item = 0 /\ step' \in [item : Steps \union {0}, hasRow : BOOLEAN, buffer : Logs]
        <5>1. <<>> \in Logs
          BY EmptySeq DEF Logs
        <5> QED
          BY <4>1, <5>1 DEF NoStep
      <4>4. TypesHold'
        BY <1>1, <1>2, <2>3, <2>7, <3>1, <4>1, <4>2, <4>3, NamesAssumption DEF TypesHold
      <4>5. ASSUME NEW t \in Tests, NEW i \in Steps PROVE ItemHolds(t, i)'
        <5>1. Keeps(t, i)' <=> Keeps(t, i)
          BY <1>2, <3>1, <4>2, <4>3 DEF Keeps
        <5>2. CASE t = t0 /\ i = i0
          <6>0. \E k \in 1 .. Len(test'.pending) : test'.pending[k].item = i0
            BY <4>2
          <6>1. Keeps(t, i)'
            BY <4>2, <5>2, <6>0 DEF Keeps
          <6>2. t \in followed' /\ i < test'.cursor /\ ~(i >= test'.cursor) /\ t \in Started'
            BY <1>1, <2>8, <3>1, <4>2, <5>2
          <6> QED
            BY <1>1, <2>6, <5>2, <6>1, <6>2 DEF ItemHolds
        <5>3. CASE t # t0 \/ i # i0
          <6>1. t = test'.id /\ verdict[t][i] # "none" => i < test'.cursor
            BY <1>1, <1>2, <3>1, <4>2 DEF ItemHolds
          <6>2. t \notin followed' \/ (t = test'.id /\ i >= test'.cursor /\ i # step'.item) =>
                  t \notin followed \/ (t = test.id /\ i >= test.cursor /\ i # step.item)
            BY <1>1, <1>2, <3>1, <4>2, <5>3
          <6> QED
            BY <1>1, <1>2, <2>5, <2>6, <3>3, <5>1, <5>3, <6>1, <6>2, ItemStays
        <5> QED
          BY <5>2, <5>3
      <4> QED
        BY <4>1, <4>2, <4>4, <4>5 DEF StepsHold
    <3> QED
      BY <3>4, <3>5
  <2> QED
    BY <2>9, <2>10
<1> QED
  BY <1>3, <1>4

LEMMA EndStepSteps == ASSUME WhereHolds, StepsHold, EndStep PROVE StepsHold'
<1>1. CASE Renewing("end_step") /\ UNCHANGED <<test, step, streaming, row, history>>
  <2>1. UNCHANGED tellVars
    BY <1>1 DEF EndStep, robotVars, history, tellVars
  <2> QED
    BY <1>1, <2>1, Renewed, QuietSteps
<1>2. CASE ~(Renewing("end_step") /\ UNCHANGED <<test, step, streaming, row, history>>)
  <2> DEFINE t0 == test.id
             i0 == step.item
             v == verdict[t0][i0]
  <2>1. pc = "end_step" /\ step # NoStep /\ at \in Nat \ {0}
    BY <1>2, WhereFacts DEF EndStep, Answered, WhereHolds, CallHolds, Chained
  <2>2. /\ t0 \in Tests /\ t0 \in followed /\ i0 \in Steps /\ Running = t0 /\ Item = i0
        /\ test # NoTest /\ test.cursor = i0 /\ i0 \in Nat \ {0} /\ i0 # 0
    BY <2>1, StepFacts DEF StepsHold
  <2>3. PICK o \in Outcomes, took \in BOOLEAN :
          /\ Answered("end_step", o, took)
          /\ Writes(took, i0,
                    [status |-> v, log |-> IF step.buffer = <<>> THEN row[t0][i0].log ELSE step.buffer])
          /\ test' = IF o = "ok" THEN MoveOn ELSE Pend(v)
          /\ step' = NoStep
          /\ Notices(o, {i0})
          /\ hit' = IF o = "5xx" THEN hit \union {t0} ELSE hit
          /\ Returns
    BY <1>2, <2>2 DEF EndStep, AfterUpdate
  <2>4. pc' = "robot" /\ at' = at + 1 /\ UNCHANGED <<verdict, said>>
    BY <1>2, <2>3 DEF EndStep, Returns, robotVars
  <2>5. /\ TypesHold /\ PendingHolds
        /\ \A t \in Tests, i \in Steps : ItemHolds(t, i) /\ said[t][i] \in Nat /\ i \in Nat \ {0}
    <3>1. TypesHold /\ PendingHolds /\ \A t \in Tests, i \in Steps : ItemHolds(t, i)
      BY DEF StepsHold
    <3> QED
      BY <3>1, StepFacts
  <2>6. o = "ok" => took
    BY <2>3, OkTakesEffect DEF Answered
  <2>7. /\ InOrder(step.buffer, i0, said[t0][i0]) /\ step.buffer \in Logs
        /\ step.hasRow /\ v # "none" /\ v \in Verdicts
        /\ ~failed[t0][i0] => step.buffer = <<>> /\ row[t0][i0].log = LinesOf(i0, said[t0][i0])
    <3>1. StepHolds /\ Sent(t0, i0) = said[t0][i0]
      BY <2>1 DEF StepsHold, Sent
    <3>2. verdict[t0][i0] \in Verdicts \union {"none"} /\ step.buffer \in Logs
      BY <2>2, <2>5 DEF TypesHold
    <3> QED
      BY <2>1, <3>1, <3>2 DEF StepHolds
  <2>8. ASSUME NEW t \in Tests, NEW i \in Steps
        PROVE  /\ Sent(t, i)' = said[t][i] /\ Sent(t, i) = said[t][i]
               /\ InOrder(row[t][i].log, i, Sent(t, i)')
    <3>1. Sent(t, i)' = said[t][i] /\ Sent(t, i) = said[t][i]
      BY <2>1, <2>4 DEF Sent
    <3> QED
      BY <2>5, <3>1 DEF ItemHolds
  <2>9. /\ row' \in [Tests -> [Steps -> [status : RowStatuses, log : Logs]]]
        /\ InOrder(row'[t0][i0].log, i0, said[t0][i0])
        /\ took => /\ row'[t0][i0].status = v
                   /\ step.buffer = <<>> => row'[t0][i0].log = row[t0][i0].log
        /\ \A t \in Tests, i \in Steps : t # t0 \/ i # i0 => row'[t][i] = row[t][i]
    <3> DEFINE log == IF step.buffer = <<>> THEN row[t0][i0].log ELSE step.buffer
               new == [status |-> v, log |-> log]
    <3>1. row[t0][i0].log \in Logs /\ InOrder(row[t0][i0].log, i0, said[t0][i0])
      <4>1. row[t0][i0] \in [status : RowStatuses, log : Logs]
        BY <2>2, <2>5 DEF TypesHold
      <4>2. InOrder(row[t0][i0].log, i0, said[t0][i0])
        BY <2>1, <2>2, <2>5 DEF ItemHolds, Sent
      <4> QED
        BY <4>1, <4>2
    <3>2. log \in Logs /\ InOrder(log, i0, said[t0][i0])
      BY <2>7, <3>1
    <3> HIDE DEF log
    <3>3. new \in [status : RowStatuses, log : Logs]
      BY <2>7, <3>2 DEF RowStatuses
    <3>4. Writes(took, i0, new) /\ row \in [Tests -> [Steps -> [status : RowStatuses, log : Logs]]]
      BY <2>3, <2>5 DEF TypesHold, log
    <3> HIDE DEF new
    <3>5. /\ row' \in [Tests -> [Steps -> [status : RowStatuses, log : Logs]]]
          /\ took => row'[t0][i0] = new
          /\ ~took => row' = row
          /\ \A t \in Tests, i \in Steps : t # t0 \/ i # i0 => row'[t][i] = row[t][i]
      BY <2>2, <3>3, <3>4, Written
    <3>6. new.status = v /\ new.log = log
      BY DEF new
    <3>7. InOrder(row'[t0][i0].log, i0, said[t0][i0])
      BY <3>1, <3>2, <3>5, <3>6
    <3> QED
      BY <3>5, <3>6, <3>7 DEF log
  <2>10. /\ failed' \in [Tests -> [Steps -> BOOLEAN]] /\ followed' = followed
         /\ streaming' => streaming /\ o \in {"ok", "5xx"}
         /\ o = "ok" => failed' = failed /\ (streaming => streaming')
         /\ streaming' \in BOOLEAN
         /\ \A t \in Tests, i \in Steps :
              /\ failed[t][i] => failed'[t][i]
              /\ t # test.id \/ i # i0 => failed'[t][i] = failed[t][i]
              /\ t = test.id /\ i = i0 /\ o # "ok" => failed'[t][i]
    BY <2>2, <2>3, <2>5, Noticed DEF TypesHold
  <2>11. hit \subseteq hit' /\ (o = "5xx" => t0 \in hit') /\ hit' \subseteq Tests
    BY <2>2, <2>3, <2>5 DEF TypesHold
  <2>12. /\ test' \in [id : Tests \union {"none"}, cursor : Nat \ {0},
                       pending : Seq([item : Steps, status : Verdicts, log : Logs])]
         /\ test'.id = t0 /\ test'.cursor = i0 + 1
         /\ \A i : (\E k \in 1 .. Len(test'.pending) : test'.pending[k].item = i) <=>
                   \/ o # "ok" /\ i = i0
                   \/ \E k \in 1 .. Len(test.pending) : test.pending[k].item = i
         /\ PendingHolds'
    <3>1. CASE o = "ok"
      <4>1. test' = MoveOn
        BY <2>3, <3>1
      <4>2. /\ test'.id = t0 /\ test'.cursor = i0 + 1 /\ test'.pending = test.pending
            /\ test' = [id |-> t0, cursor |-> i0 + 1, pending |-> test.pending]
        BY <2>2, <4>1 DEF MoveOn, WhereHolds, PositionHolds
      <4>3. test' \in [id : Tests \union {"none"}, cursor : Nat \ {0},
                       pending : Seq([item : Steps, status : Verdicts, log : Logs])]
        <5>1. i0 + 1 \in Nat \ {0}
          BY <2>2
        <5>2. test.pending \in Seq([item : Steps, status : Verdicts, log : Logs])
          BY <2>5 DEF TypesHold
        <5> QED
          BY <2>2, <4>2, <5>1, <5>2
      <4>4. PendingHolds'
        <5>1. ASSUME NEW k \in 1 .. Len(test.pending) PROVE test.pending[k].item < i0 + 1
          <6>1. test.pending[k] \in [item : Steps, status : Verdicts, log : Logs]
            BY <2>5, ElementOfSeq DEF TypesHold
          <6>2. test.pending[k].item \in Steps /\ test.pending[k].item < i0
            BY <2>2, <2>5, <6>1 DEF PendingHolds
          <6> QED
            BY <2>2, <2>5, <6>2
        <5> QED
          BY <2>4, <2>5, <2>10, <2>11, <3>1, <4>2, <5>1 DEF PendingHolds
      <4> QED
        BY <3>1, <4>2, <4>3, <4>4
    <3>2. CASE o # "ok"
      <4>1. test' = Pend(v)
        BY <2>3, <3>2
      <4>2. /\ verdict'[t0][i0] = v /\ \A i \in Steps : i # i0 => verdict'[t0][i] = verdict[t0][i]
            /\ \A i \in Steps : failed[t0][i] => failed'[t0][i]
            /\ failed'[t0][i0]
        BY <2>2, <2>4, <2>10, <3>2
      <4>3. streaming' => streaming /\ t0 \in hit'
        BY <2>10, <2>11, <3>2
      <4>4. /\ test' \in [id : Tests \union {"none"}, cursor : Nat \ {0},
                          pending : Seq([item : Steps, status : Verdicts, log : Logs])]
            /\ test'.id = t0 /\ test'.cursor = i0 + 1
            /\ \A i : (\E k \in 1 .. Len(test'.pending) : test'.pending[k].item = i) <=>
                      i = i0 \/ \E k \in 1 .. Len(test.pending) : test.pending[k].item = i
            /\ PendingHolds'
        BY <2>2, <2>4, <2>5, <2>7, <4>1, <4>2, <4>3, Pended
      <4> QED
        BY <3>2, <4>4
    <3> QED
      BY <3>1, <3>2
  <2>13. step'.item = 0 /\ step' \in [item : Steps \union {0}, hasRow : BOOLEAN, buffer : Logs]
         /\ step' = NoStep
    <3>1. <<>> \in Logs
      BY EmptySeq DEF Logs
    <3> QED
      BY <2>3, <3>1 DEF NoStep
  <2>14. TypesHold'
    <3>1. ASSUME NEW t \in Tests, NEW i \in Steps PROVE said'[t][i] < at'
      <4>1. said[t][i] \in Nat /\ said[t][i] < at /\ said'[t][i] = said[t][i]
        BY <2>1, <2>4, <2>5 DEF TypesHold
      <4> QED
        BY <2>1, <2>4, <4>1
    <3>2. test'.id # "none"
      BY <2>2, <2>12, NamesAssumption
    <3> QED
      BY <2>4, <2>5, <2>9, <2>10, <2>11, <2>12, <2>13, <3>1, <3>2 DEF TypesHold
  <2>15. ASSUME NEW t \in Tests, NEW i \in Steps PROVE ItemHolds(t, i)'
    <3>1. ItemHolds(t, i) /\ i \in Nat \ {0}
      BY <2>5
    <3>2. CASE t = t0 /\ i = i0
      <4>1. InOrder(row'[t0][i0].log, i0, said[t0][i0]) /\ Sent(t, i)' = said[t][i]
        BY <2>8, <2>9
      <4>2. i < test'.cursor /\ ~(i >= test'.cursor)
        BY <2>2, <2>12, <3>2
      <4>3. t \in Started
        BY <2>7, <3>1, <3>2 DEF ItemHolds
      <4>4. t \in Started'
        BY <2>1, <2>4, <4>3, StartedGrows
      <4>5. ~Keeps(t, i)' => o = "ok"
        <5>1. o # "ok" => \E k \in 1 .. Len(test'.pending) : test'.pending[k].item = i
          BY <2>12, <3>2
        <5> QED
          BY <2>12, <3>2, <5>1 DEF Keeps
      <4>6. o = "ok" =>
              /\ row'[t0][i0].status = v
              /\ ~failed'[t0][i0] => row'[t0][i0].log = LinesOf(i0, said[t0][i0])
        BY <2>6, <2>7, <2>9, <2>10
      <4> QED
        BY <2>2, <2>4, <2>10, <3>2, <4>1, <4>2, <4>4, <4>5, <4>6 DEF ItemHolds
    <3>3. CASE t # t0 \/ i # i0
      <4>1. row'[t][i] = row[t][i] /\ failed'[t][i] = failed[t][i]
        BY <2>9, <2>10, <3>3
      <4>2. Keeps(t, i)' <=> Keeps(t, i)
        <5>1. (\E k \in 1 .. Len(test'.pending) : test'.pending[k].item = i) <=>
                \/ o # "ok" /\ i = i0
                \/ \E k \in 1 .. Len(test.pending) : test.pending[k].item = i
          BY <2>12
        <5> QED
          BY <2>12, <2>13, <3>1, <3>3, <5>1 DEF Keeps
      <4>3. t = test'.id /\ verdict[t][i] # "none" => i < test'.cursor
        BY <2>2, <2>12, <3>1, <3>3 DEF ItemHolds
      <4>4. t \notin followed' \/ (t = test'.id /\ i >= test'.cursor /\ i # step'.item) =>
              t \notin followed \/ (t = test.id /\ i >= test.cursor /\ i # step.item)
        BY <2>2, <2>10, <2>12, <3>1, <3>3
      <4> QED
        BY <2>1, <2>4, <2>8, <2>10, <2>11, <3>1, <4>1, <4>2, <4>3, <4>4, ItemStays
    <3> QED
      BY <3>2, <3>3
  <2> QED
    BY <2>4, <2>12, <2>13, <2>14, <2>15 DEF StepsHold
<1> QED
  BY <1>1, <1>2

-----------------------------------------------------------------------------
(* A test ends.                                                            *)

\* The listener lets go of the test: what it kept of it must be on the server, or have been
\* refused.
LEMMA TestIsLeft ==
  ASSUME WhereHolds, StepsHold, step = NoStep, test # NoTest, at' = at + 1, pc \notin {"append_log", "end_step"},
         pc' = "robot", UNCHANGED <<verdict, said, streaming, followed>>,
         test' = NoTest, step' = NoStep, hit \subseteq hit', hit' \subseteq Tests,
         row' \in [Tests -> [Steps -> [status : RowStatuses, log : Logs]]],
         failed' \in [Tests -> [Steps -> BOOLEAN]],
         \A t \in Tests, i \in Steps : failed[t][i] => failed'[t][i],
         \A t \in Tests, i \in Steps : t # test.id => row'[t][i] = row[t][i] /\ failed'[t][i] = failed[t][i],
         \A i \in Steps : (~\E k \in 1 .. Len(test.pending) : test.pending[k].item = i) =>
            row'[test.id][i] = row[test.id][i],
         \A k \in 1 .. Len(test.pending) :
            LET r == test.pending[k]
                new == row'[test.id][r.item]
            IN /\ InOrder(new.log, r.item, said[test.id][r.item])
               /\ test.id \notin hit' => new.status = r.status
               /\ ~failed'[test.id][r.item] => new.status = r.status /\ new.log = r.log
  PROVE  StepsHold'
<1> DEFINE t0 == test.id
<1>1. /\ TypesHold /\ PendingHolds
      /\ \A t \in Tests, i \in Steps : ItemHolds(t, i) /\ said[t][i] \in Nat /\ i \in Nat \ {0}
      /\ at \in Nat \ {0}
  <2>1. TypesHold /\ PendingHolds /\ \A t \in Tests, i \in Steps : ItemHolds(t, i)
    BY DEF StepsHold
  <2> QED
    BY <2>1, StepFacts
<1>2. t0 \in Tests /\ t0 \in followed
  BY <1>1, StepFacts
<1>3. NoTest \in [id : Tests \union {"none"}, cursor : Nat \ {0},
                  pending : Seq([item : Steps, status : Verdicts, log : Logs])]
      /\ NoStep \in [item : Steps \union {0}, hasRow : BOOLEAN, buffer : Logs]
  <2>1. <<>> \in Logs
    BY EmptySeq DEF Logs
  <2> QED
    BY <2>1, EmptySeq DEF NoTest, NoStep
<1>4. TypesHold'
  <2>1. ASSUME NEW t \in Tests, NEW i \in Steps PROVE said'[t][i] < at'
    <3>1. said[t][i] \in Nat /\ said[t][i] < at /\ said'[t][i] = said[t][i]
      BY <1>1 DEF TypesHold
    <3> QED
      BY <1>1, <3>1
  <2> QED
    BY <1>1, <1>3, <2>1 DEF TypesHold
<1>5. ASSUME NEW t \in Tests, NEW i \in Steps PROVE ItemHolds(t, i)'
  <2>1. ItemHolds(t, i) /\ t # "none" /\ i # 0
    BY <1>1, NamesAssumption
  <2>2. t # test'.id /\ ~Keeps(t, i)'
    BY <2>1 DEF NoTest, Keeps
  <2>3. Sent(t, i)' = said[t][i] /\ Sent(t, i) = said[t][i]
    BY DEF Sent
  <2>4. InOrder(row[t][i].log, i, Sent(t, i)')
    BY <2>1, <2>3 DEF ItemHolds
  <2>5. CASE t # t0
    <3>1. row'[t][i] = row[t][i] /\ failed'[t][i] = failed[t][i] /\ ~Keeps(t, i)
      BY <2>5 DEF Keeps
    <3> QED
      BY <1>1, <2>1, <2>2, <2>4, <3>1, ItemStays
  <2>6. CASE t = t0 /\ ~Keeps(t, i)
    <3>1. ~\E k \in 1 .. Len(test.pending) : test.pending[k].item = i
      BY <2>6 DEF Keeps
    <3>2. row'[t][i] = row[t][i]
      BY <2>6, <3>1
    <3>3. t \in Started \/ verdict[t][i] = "none"
      BY <2>1 DEF ItemHolds
    <3>4. Started \subseteq Started'
      BY <1>1, StartedGrows
    <3>5. failed[t][i] => failed'[t][i]
      OBVIOUS
    <3>6. verdict[t][i] # "none" =>
            /\ t \notin hit' => row'[t][i].status = verdict[t][i]
            /\ ~failed'[t][i] =>
                 row'[t][i].status = verdict[t][i] /\ row'[t][i].log = LinesOf(i, said[t][i])
      BY <1>2, <2>1, <2>6, <3>2, <3>5 DEF ItemHolds
    <3> QED
      BY <1>2, <2>2, <2>3, <2>4, <2>6, <3>2, <3>3, <3>4, <3>6 DEF ItemHolds
  <2>7. CASE t = t0 /\ Keeps(t, i)
    <3>1. PICK k \in 1 .. Len(test.pending) : test.pending[k].item = i
      BY <2>1, <2>7 DEF Keeps, NoStep
    <3>2. /\ test.pending[k].status = verdict[t][i]
          /\ ~failed[t][i] => test.pending[k].log = LinesOf(i, said[t][i])
      BY <1>1, <2>7, <3>1 DEF PendingHolds
    <3>3. /\ InOrder(row'[t][i].log, i, said[t][i])
          /\ t \notin hit' => row'[t][i].status = verdict[t][i]
          /\ ~failed'[t][i] =>
               row'[t][i].status = verdict[t][i] /\ row'[t][i].log = LinesOf(i, said[t][i])
      BY <2>7, <3>1, <3>2
    <3>4. t \in Started \/ verdict[t][i] = "none"
      BY <2>1 DEF ItemHolds
    <3>5. Started \subseteq Started'
      BY <1>1, StartedGrows
    <3> QED
      BY <1>2, <2>2, <2>3, <2>7, <3>3, <3>4, <3>5 DEF ItemHolds
  <2> QED
    BY <2>5, <2>6, <2>7
<1>6. PendingHolds'
  BY DEF PendingHolds, NoTest
<1> QED
  BY <1>4, <1>5, <1>6 DEF StepsHold

LEMMA UpdateResultSteps == ASSUME WhereHolds, StepsHold, UpdateResult PROVE StepsHold'
<1>1. /\ pc = "end_test" /\ UNCHANGED <<verdict, said, row, failed, hit, streaming, followed>>
  BY DEF UpdateResult, Renewing, Answered, robotVars, serverVars, history
<1>2. CASE UNCHANGED <<test, step>>
  <2>1. UNCHANGED tellVars
    BY <1>1, <1>2 DEF tellVars
  <2>2. \/ UNCHANGED <<at, pc>>
        \/ at' = at /\ pc' = "batch" /\ ~streaming
        \/ at' = at + 1 /\ pc' = "robot"
    BY <1>2 DEF UpdateResult, Renewing, Calls, Returns
  <2>3. Quiet
    BY <1>1, <2>1, <2>2 DEF Quiet
  <2> QED
    BY <2>3, QuietSteps
<1>3. CASE ~UNCHANGED <<test, step>>
  <2>1. /\ streaming \/ test.pending = <<>>
        /\ test' = NoTest /\ step' = NoStep /\ at' = at + 1 /\ pc' = "robot"
    BY <1>3 DEF UpdateResult, Returns
  <2>2. test # NoTest /\ step = NoStep
    <3>1. test # NoTest /\ at \in DOMAIN Script /\ Event.kind = "end_test"
      BY <1>1 DEF WhereHolds, CallHolds, Chained
    <3>2. Here.depth = 0
      BY <3>1, NextPlace DEF WhereHolds, Here, Event
    <3> QED
      BY <3>1, <3>2 DEF WhereHolds, PositionHolds
  <2>3. TypesHold /\ PendingHolds /\ test.id \in Tests
    <3>1. TypesHold
      BY DEF StepsHold
    <3> QED
      BY <2>2, <3>1, StepFacts DEF StepsHold
  <2>4. /\ row' \in [Tests -> [Steps -> [status : RowStatuses, log : Logs]]]
        /\ failed' \in [Tests -> [Steps -> BOOLEAN]] /\ hit' \subseteq Tests
    BY <1>1, <2>3 DEF TypesHold
  <2>5. ASSUME NEW k \in 1 .. Len(test.pending)
        PROVE  LET r == test.pending[k]
                   new == row'[test.id][r.item]
               IN /\ InOrder(new.log, r.item, said[test.id][r.item])
                  /\ test.id \notin hit' => new.status = r.status
                  /\ ~failed'[test.id][r.item] => new.status = r.status /\ new.log = r.log
    <3> DEFINE r == test.pending[k]
    <3>1. test.pending # <<>>
      BY <2>3 DEF TypesHold
    <3>2. streaming /\ test.id \in hit
      BY <2>1, <2>3, <3>1 DEF PendingHolds
    <3>3. failed[test.id][r.item]
      BY <2>3, <3>2 DEF PendingHolds
    <3>4. r.item \in Steps
      <4>1. test.pending[k] \in [item : Steps, status : Verdicts, log : Logs]
        BY <2>3, ElementOfSeq DEF TypesHold
      <4> QED
        BY <4>1
    <3>5. InOrder(row[test.id][r.item].log, r.item, said[test.id][r.item])
      <4>1. Sent(test.id, r.item) = said[test.id][r.item]
        BY <1>1 DEF Sent
      <4>2. ItemHolds(test.id, r.item)
        BY <2>3, <3>4 DEF StepsHold
      <4> QED
        BY <4>1, <4>2 DEF ItemHolds
    <3> QED
      BY <1>1, <3>2, <3>3, <3>5
  <2> QED
    BY <1>1, <2>1, <2>2, <2>4, <2>5, TestIsLeft
<1> QED
  BY <1>2, <1>3

\* What the batch makes of the rows, of items each of which is in it once.
LEMMA Upserted ==
  ASSUME NEW rows \in [Steps -> [status : RowStatuses, log : Logs]],
         NEW results \in Seq([item : Steps, status : Verdicts, log : Logs]),
         \A j, k \in 1 .. Len(results) : j # k => results[j].item # results[k].item
  PROVE  /\ Upsert(rows, results) \in [Steps -> [status : RowStatuses, log : Logs]]
         /\ \A i \in Steps : (~\E k \in 1 .. Len(results) : results[k].item = i) =>
              Upsert(rows, results)[i] = rows[i]
         /\ \A k \in 1 .. Len(results) :
              /\ Upsert(rows, results)[results[k].item].status = results[k].status
              /\ Upsert(rows, results)[results[k].item].log = results[k].log
<1> DEFINE S(i) == {k \in DOMAIN results : results[k].item = i}
           u(i) == IF S(i) = {} THEN rows[i]
                   ELSE [status |-> results[Max(S(i))].status, log |-> results[Max(S(i))].log]
<1>1. Upsert(rows, results) = [i \in Steps |-> u(i)]
  BY DEF Upsert
<1>2. /\ DOMAIN results = 1 .. Len(results) /\ Len(results) \in Nat
      /\ \A k \in 1 .. Len(results) : results[k] \in [item : Steps, status : Verdicts, log : Logs]
  BY ElementOfSeq, LenProperties
<1>3. ASSUME NEW i \in Steps, ~\E k \in 1 .. Len(results) : results[k].item = i PROVE u(i) = rows[i]
  <2>1. S(i) = {}
    BY <1>2, <1>3
  <2> QED
    BY <2>1
<1>4. ASSUME NEW k \in 1 .. Len(results)
      PROVE  u(results[k].item) = [status |-> results[k].status, log |-> results[k].log]
  <2>1. S(results[k].item) = {k}
    BY <1>2
  <2>2. Max({k}) = k
    <3>1. k \in Int
      BY <1>2
    <3> QED
      BY <3>1 DEF Max
  <2> QED
    BY <2>1, <2>2
<1> HIDE DEF u
<1>5. ASSUME NEW i \in Steps PROVE u(i) \in [status : RowStatuses, log : Logs]
  <2>1. CASE \E k \in 1 .. Len(results) : results[k].item = i
    <3>1. PICK k \in 1 .. Len(results) : results[k].item = i
      BY <2>1
    <3>2. results[k] \in [item : Steps, status : Verdicts, log : Logs]
      BY <1>2
    <3>3. [status |-> results[k].status, log |-> results[k].log] \in [status : Verdicts, log : Logs]
      BY <3>2
    <3> QED
      BY <1>4, <3>1, <3>3 DEF RowStatuses
  <2>2. CASE ~\E k \in 1 .. Len(results) : results[k].item = i
    BY <1>3, <2>2
  <2> QED
    BY <2>1, <2>2
<1>6. \A k \in 1 .. Len(results) : results[k].item \in Steps
  BY <1>2
<1>7. ASSUME NEW k \in 1 .. Len(results)
      PROVE  u(results[k].item).status = results[k].status /\ u(results[k].item).log = results[k].log
  <2>1. u(results[k].item) = [status |-> results[k].status, log |-> results[k].log]
    BY <1>4
  <2> QED
    BY <2>1
<1> QED
  BY <1>1, <1>3, <1>5, <1>6, <1>7

LEMMA BatchSteps == ASSUME WhereHolds, StepsHold, Batch PROVE StepsHold'
<1> DEFINE t0 == test.id
           p == test.pending
<1>1. CASE Renewing("batch") /\ UNCHANGED <<test, step, row, failed, hit>>
  <2>1. UNCHANGED tellVars
    BY <1>1 DEF Batch, robotVars, tellVars
  <2> QED
    BY <1>1, <2>1, Renewed, QuietSteps
<1>2. CASE ~(Renewing("batch") /\ UNCHANGED <<test, step, row, failed, hit>>)
  <2>1. PICK o \in Outcomes, took \in BOOLEAN :
          /\ Answered("batch", o, took)
          /\ row' = IF took THEN [row EXCEPT ![t0] = Upsert(row[t0], p)] ELSE row
          /\ failed' = IF o = "ok" THEN failed
                       ELSE [failed EXCEPT ![t0] = [i \in Steps |-> TRUE]]
          /\ hit' = IF o = "ok" THEN hit ELSE hit \union {t0}
          /\ test' = NoTest /\ step' = NoStep
          /\ Returns
    BY <1>2 DEF Batch
  <2>2. /\ pc = "batch" /\ pc' = "robot" /\ at' = at + 1
        /\ UNCHANGED <<verdict, said, streaming, followed>>
    BY <1>2, <2>1 DEF Batch, Answered, Returns, robotVars
  <2>3. test # NoTest /\ step = NoStep
    <3>1. test # NoTest /\ at \in DOMAIN Script /\ Event.kind = "end_test"
      BY <2>2 DEF WhereHolds, CallHolds, Chained
    <3>2. Here.depth = 0
      BY <3>1, NextPlace DEF WhereHolds, Here, Event
    <3> QED
      BY <3>1, <3>2 DEF WhereHolds, PositionHolds
  <2>4. /\ TypesHold /\ PendingHolds /\ t0 \in Tests /\ t0 \in followed
        /\ \A t \in Tests, i \in Steps : ItemHolds(t, i) /\ said[t][i] \in Nat
    <3>1. TypesHold /\ PendingHolds /\ \A t \in Tests, i \in Steps : ItemHolds(t, i)
      BY DEF StepsHold
    <3> QED
      BY <2>3, <3>1, StepFacts
  <2>5. o = "ok" => took
    BY <2>1, OkTakesEffect DEF Answered
  <2>6. /\ p \in Seq([item : Steps, status : Verdicts, log : Logs])
        /\ row \in [Tests -> [Steps -> [status : RowStatuses, log : Logs]]]
        /\ failed \in [Tests -> [Steps -> BOOLEAN]] /\ hit \subseteq Tests
    BY <2>4 DEF TypesHold
  <2>7. /\ \A k \in 1 .. Len(p) : p[k].item \in Steps
        /\ \A j, k \in 1 .. Len(p) : j # k => p[j].item # p[k].item
    <3>1. ASSUME NEW k \in 1 .. Len(p) PROVE p[k].item \in Steps
      <4>1. p[k] \in [item : Steps, status : Verdicts, log : Logs]
        BY <2>6, ElementOfSeq
      <4> QED
        BY <4>1
    <3> QED
      BY <2>4, <3>1 DEF PendingHolds
  <2> DEFINE u == Upsert(row[t0], p)
  <2>8. /\ u \in [Steps -> [status : RowStatuses, log : Logs]]
        /\ \A i \in Steps : (~\E k \in 1 .. Len(p) : p[k].item = i) => u[i] = row[t0][i]
        /\ \A k \in 1 .. Len(p) : u[p[k].item].status = p[k].status /\ u[p[k].item].log = p[k].log
    <3>1. row[t0] \in [Steps -> [status : RowStatuses, log : Logs]]
      BY <2>4, <2>6
    <3> DEFINE rows == row[t0]
    <3> HIDE DEF rows, p
    <3>2. p \in Seq([item : Steps, status : Verdicts, log : Logs])
      BY <2>6
    <3>3. rows \in [Steps -> [status : RowStatuses, log : Logs]]
      BY <3>1 DEF rows
    <3>4. \A j, k \in 1 .. Len(p) : j # k => p[j].item # p[k].item
      BY <2>7
    <3>5. /\ Upsert(rows, p) \in [Steps -> [status : RowStatuses, log : Logs]]
          /\ \A i \in Steps : (~\E k \in 1 .. Len(p) : p[k].item = i) => Upsert(rows, p)[i] = rows[i]
          /\ \A k \in 1 .. Len(p) :
               /\ Upsert(rows, p)[p[k].item].status = p[k].status
               /\ Upsert(rows, p)[p[k].item].log = p[k].log
      BY <3>2, <3>3, <3>4, Upserted
    <3> QED
      BY <3>5 DEF rows
  <2> HIDE DEF u
  <2>9. /\ row' \in [Tests -> [Steps -> [status : RowStatuses, log : Logs]]]
        /\ \A t \in Tests : t # t0 => row'[t] = row[t]
        /\ row'[t0] = IF took THEN u ELSE row[t0]
    BY <2>1, <2>4, <2>6, <2>8 DEF u
  <2>10. /\ failed' \in [Tests -> [Steps -> BOOLEAN]]
         /\ \A t \in Tests : t # t0 => failed'[t] = failed[t]
         /\ o = "ok" => failed' = failed
         /\ o # "ok" => failed'[t0] = [i \in Steps |-> TRUE]
    BY <2>1, <2>4, <2>6
  <2>11. \A t \in Tests, i \in Steps : failed[t][i] => failed'[t][i]
    BY <2>10
  <2>12. hit \subseteq hit' /\ hit' \subseteq Tests /\ (o # "ok" => t0 \in hit')
    BY <2>1, <2>4, <2>6
  <2>13. ASSUME NEW i \in Steps, ~\E k \in 1 .. Len(p) : p[k].item = i PROVE row'[t0][i] = row[t0][i]
    BY <2>8, <2>9, <2>13
  <2>14. ASSUME NEW k \in 1 .. Len(p)
         PROVE  LET r == p[k]
                    new == row'[t0][r.item]
                IN /\ InOrder(new.log, r.item, said[t0][r.item])
                   /\ t0 \notin hit' => new.status = r.status
                   /\ ~failed'[t0][r.item] => new.status = r.status /\ new.log = r.log
    <3>1. p[k].item \in Steps /\ InOrder(p[k].log, p[k].item, said[t0][p[k].item])
      BY <2>4, <2>7 DEF PendingHolds
    <3>2. InOrder(row[t0][p[k].item].log, p[k].item, said[t0][p[k].item])
      <4>1. Sent(t0, p[k].item) = said[t0][p[k].item] /\ ItemHolds(t0, p[k].item)
        BY <2>2, <2>4, <3>1 DEF Sent
      <4> QED
        BY <4>1 DEF ItemHolds
    <3>3. took => row'[t0][p[k].item].status = p[k].status /\ row'[t0][p[k].item].log = p[k].log
      BY <2>8, <2>9
    <3>4. ~took => row'[t0][p[k].item] = row[t0][p[k].item]
      BY <2>9
    <3>5. o # "ok" => t0 \in hit' /\ failed'[t0][p[k].item]
      BY <2>10, <2>12, <3>1
    <3> QED
      BY <2>5, <3>1, <3>2, <3>3, <3>4, <3>5
  <2>15. \A t \in Tests, i \in Steps : t # t0 => row'[t][i] = row[t][i] /\ failed'[t][i] = failed[t][i]
    BY <2>9, <2>10
  <2>16. test' = NoTest /\ step' = NoStep
    BY <2>1
  <2> QED
    BY <2>2, <2>3, <2>9, <2>10, <2>11, <2>12, <2>13, <2>14, <2>15, <2>16, TestIsLeft
<1> QED
  BY <1>1, <1>2

-----------------------------------------------------------------------------
(* All steps.                                                              *)

LEMMA StepsInit == Init => StepsHold
<1> SUFFICES ASSUME Init PROVE StepsHold
  OBVIOUS
<1>1. <<>> \in Logs
  BY EmptySeq DEF Logs
<1>2. streaming \in BOOLEAN /\ pc = "robot" /\ at = 1
  BY Zenon DEF Init
<1>3. failed \in [Tests -> [Steps -> BOOLEAN]]
  BY DEF Init
<1>4. TypesHold
  <2>1. row \in [Tests -> [Steps -> [status : RowStatuses, log : Logs]]]
    BY <1>1 DEF Init, NoRow, RowStatuses
  <2>2. /\ test \in [id : Tests \union {"none"}, cursor : Nat \ {0},
                     pending : Seq([item : Steps, status : Verdicts, log : Logs])]
        /\ step \in [item : Steps \union {0}, hasRow : BOOLEAN, buffer : Logs]
    BY <1>1, EmptySeq DEF Init, NoTest, NoStep
  <2>3. /\ verdict \in [Tests -> [Steps -> Verdicts \union {"none"}]]
        /\ said \in [Tests -> [Steps -> Nat]]
        /\ hit = {} /\ test = NoTest /\ step = NoStep
        /\ \A t \in Tests, i \in Steps : said[t][i] < 1
    BY DEF Init
  <2> QED
    BY <1>2, <1>3, <2>1, <2>2, <2>3 DEF TypesHold
<1>5. ASSUME NEW t \in Tests, NEW i \in Steps PROVE ItemHolds(t, i)
  <2>1. row[t][i] = NoRow /\ said[t][i] = 0 /\ ~failed[t][i] /\ verdict[t][i] = "none"
    BY DEF Init
  <2>2. Sent(t, i) = 0
    BY <1>2, <2>1 DEF Sent
  <2>3. InOrder(row[t][i].log, i, 0)
    BY <2>1, NoLines DEF NoRow
  <2> QED
    BY <2>1, <2>2, <2>3 DEF ItemHolds
<1>6. PendingHolds /\ step = NoStep
  BY DEF Init, NoTest, PendingHolds
<1> QED
  BY <1>2, <1>4, <1>5, <1>6 DEF StepsHold

\* What the rest of the run does is quiet.
LEMMA QuietMoves ==
  ASSUME WhereHolds, StartSuite \/ FindOrCreateSuite \/ EndSuite \/ StartTest \/ ChainActions
                     \/ EndTest \/ Clock \/ OtherCreatesCase \/ UNCHANGED vars
  PROVE  Quiet
<1>1. CASE StartSuite \/ FindOrCreateSuite \/ EndSuite
  <2>1. UNCHANGED tellVars
    BY <1>1 DEF StartSuite, FindOrCreateSuite, EndSuite, robotVars, testVars, serverVars, history, tellVars
  <2>2. /\ pc \in {"robot", "find_or_create_suite"} /\ at' \in {at, at + 1}
        /\ pc' \in {"robot", "find_or_create_suite"}
    BY <1>1 DEF StartSuite, FindOrCreateSuite, EndSuite, On, Renewing, Answered, Calls, Returns
  <2> QED
    BY <2>1, <2>2 DEF Quiet
<1>2. CASE StartTest
  <2>1. test = NoTest
    BY <1>2, WhereFacts, NextPlace DEF StartTest, On, WhereHolds, Here, Event
  <2>2. UNCHANGED tellVars
    BY <1>2, <2>1 DEF StartTest, robotVars, serverVars, history, tellVars
  <2>3. pc = "robot" /\ pc' \in {"robot", "find_case"} /\ at' \in {at, at + 1}
    BY <1>2 DEF StartTest, On, Calls, Returns
  <2> QED
    BY <2>2, <2>3 DEF Quiet
<1>3. CASE ChainActions
  <2>1. /\ pc \in Chained /\ UNCHANGED <<robotVars, suiteVars, testVars, row, history>>
        /\ UNCHANGED <<at, pc>> \/ Returns \/ (pc' \in Chained /\ at' = at)
    BY <1>3, ChainMoves
  <2>2. UNCHANGED tellVars
    BY <2>1 DEF robotVars, testVars, history, tellVars
  <2> QED
    BY <2>1, <2>2 DEF Quiet, Chained, Returns
<1>4. CASE EndTest
  <2>1. UNCHANGED tellVars
    BY <1>4 DEF EndTest, robotVars, testVars, serverVars, history, tellVars
  <2>2. pc = "robot" /\ pc' \in {"robot", "end_test"} /\ at' \in {at, at + 1}
    BY <1>4 DEF EndTest, On, Calls, Returns
  <2> QED
    BY <2>1, <2>2 DEF Quiet
<1>5. CASE Clock \/ OtherCreatesCase \/ UNCHANGED vars
  BY <1>5 DEF Clock, OtherCreatesCase, vars, robotVars, testVars, serverVars, history, tellVars, Quiet
<1> QED
  BY <1>1, <1>2, <1>3, <1>4, <1>5

LEMMA StepsNext == WhereHolds /\ BegunHolds /\ StepsHold /\ [Next]_vars => StepsHold'
<1> SUFFICES ASSUME WhereHolds, BegunHolds, StepsHold, [Next]_vars PROVE StepsHold'
  OBVIOUS
<1>1. CASE MarkRunning \/ StartItem \/ StartStep \/ Log \/ AppendLog
  BY <1>1, MarkSteps, StartItemSteps, StartStepSteps, LogSteps, AppendLogSteps
<1>2. CASE EndItem \/ EndStep \/ UpdateResult \/ Batch
  BY <1>2, EndItemSteps, EndStepSteps, UpdateResultSteps, BatchSteps
<1>3. CASE StartSuite \/ FindOrCreateSuite \/ EndSuite \/ StartTest \/ ChainActions
           \/ EndTest \/ Clock \/ OtherCreatesCase \/ UNCHANGED vars
  BY <1>3, QuietMoves, QuietSteps
<1> QED
  BY <1>1, <1>2, <1>3 DEF Next, Handlers, ChainActions, Ended

-----------------------------------------------------------------------------
(* What follows.                                                           *)

BooleansHold == isRoot \in BOOLEAN /\ escaped \in BOOLEAN

LEMMA BooleansNext == WhereHolds /\ BooleansHold /\ [Next]_vars => BooleansHold'
<1> SUFFICES ASSUME WhereHolds, BooleansHold, [Next]_vars PROVE BooleansHold'
  OBVIOUS
<1>1. CASE StartSuite
  <2>1. isRoot' = FALSE /\ escaped' = escaped
    BY <1>1, Zenon DEF StartSuite, history
  <2> QED
    BY <2>1, Zenon DEF BooleansHold
<1>2. CASE FindOrCreateSuite
  <2>1. isRoot' = isRoot
    BY <1>2, Zenon DEF FindOrCreateSuite
  <2>2. escaped' = escaped \/ \E o : escaped' = (escaped \/ o \in {"4xx", "5xx"})
    BY <1>2, Zenon DEF FindOrCreateSuite
  <2>3. escaped' \in BOOLEAN
    BY <2>2, Zenon DEF BooleansHold
  <2> QED
    BY <2>1, <2>3, Zenon DEF BooleansHold
<1>3. CASE EndSuite
  BY <1>3, Zenon DEF EndSuite, history, BooleansHold
<1>4. CASE Clock \/ OtherCreatesCase \/ UNCHANGED vars
  BY <1>4, Zenon DEF Clock, OtherCreatesCase, vars, suiteVars, history, BooleansHold
<1>5. CASE StartTest \/ ChainActions \/ MarkRunning \/ ItemActions \/ EndActions
  <2>1. isRoot' = isRoot /\ escaped' = escaped
    BY <1>5, TestActions
  <2> QED
    BY <2>1, Zenon DEF BooleansHold
<1> QED
  BY <1>1, <1>2, <1>3, <1>4, <1>5 DEF Next, Handlers, ChainActions, ItemActions, EndActions, Ended

\* The inductive invariant of a run.
ListenerHolds ==
  WhereHolds /\ BegunHolds /\ SuitesHold /\ CasesHold /\ StepsHold /\ WaitHolds /\ BooleansHold

LEMMA ListenerInit == Init => ListenerHolds
<1> SUFFICES ASSUME Init PROVE ListenerHolds
  OBVIOUS
<1>1. WaitHolds
  <2>1. cooling \in BOOLEAN
    BY Zenon DEF Init, AdapterInit
  <2> QED
    BY <2>1, MaxFailuresAssumption DEF Init, AdapterInit, WaitHolds, AdapterTypeOK, WaitIsBounded
<1>2. BooleansHold
  BY Zenon DEF Init, BooleansHold
<1> QED
  BY <1>1, <1>2, WhereInit, BegunInit, SuitesInit, CasesInit, StepsInit DEF ListenerHolds

LEMMA ListenerNext == ListenerHolds /\ [Next]_vars => ListenerHolds'
<1> SUFFICES ASSUME ListenerHolds, [Next]_vars PROVE ListenerHolds'
  OBVIOUS
<1>1. WaitHolds'
  BY AdapterSteps, WaitNext DEF ListenerHolds
<1> QED
  BY <1>1, WhereNext, BegunNext, SuitesNext, CasesNext, StepsNext, BooleansNext DEF ListenerHolds

LEMMA ListenerSafe == Spec => []ListenerHolds
  BY ListenerInit, ListenerNext, PTL DEF Spec

LEMMA NothingIsLost == ASSUME WhereHolds, StepsHold PROVE NothingForgotten
<1> SUFFICES ASSUME NEW t \in followed \ hit, NEW i \in Steps, verdict[t][i] # "none"
             PROVE  \/ row[t][i].status = verdict[t][i]
                    \/ /\ test.id = t
                       /\ \/ step.item = i
                          \/ \E k \in DOMAIN test.pending :
                               test.pending[k].item = i /\ test.pending[k].status = verdict[t][i]
  BY DEF NothingForgotten
<1>1. TypesHold /\ PendingHolds /\ t \in Tests /\ ItemHolds(t, i)
  BY DEF StepsHold, WhereHolds, PositionHolds
<1>2. DOMAIN test.pending = 1 .. Len(test.pending)
  <2>1. test.pending \in Seq([item : Steps, status : Verdicts, log : Logs])
    BY <1>1 DEF TypesHold
  <2> QED
    BY <2>1, LenProperties
<1>3. CASE ~Keeps(t, i)
  BY <1>1, <1>3 DEF ItemHolds
<1>4. CASE Keeps(t, i)
  <2>1. test.id = t /\ (step.item = i \/ \E k \in 1 .. Len(test.pending) : test.pending[k].item = i)
    BY <1>4 DEF Keeps
  <2>2. ASSUME NEW k \in 1 .. Len(test.pending), test.pending[k].item = i
        PROVE  test.pending[k].status = verdict[t][i]
    BY <1>1, <2>1, <2>2 DEF PendingHolds
  <2> QED
    BY <1>2, <2>1, <2>2
<1> QED
  BY <1>3, <1>4

LEMMA StepsFollow == ASSUME WhereHolds, StepsHold PROVE StepsAreFaithful
<1>1. TypesHold /\ \A t \in Tests, i \in Steps : ItemHolds(t, i) /\ said[t][i] \in Nat
  BY DEF StepsHold, TypesHold
<1>2. CleanStepIsComplete
  <2> SUFFICES ASSUME NEW t \in Tests, NEW i \in Steps, verdict[t][i] # "none", ~failed[t][i],
                      row[t][i].status # "none", test.id # t
               PROVE  row[t][i].status = verdict[t][i] /\ row[t][i].log = LinesOf(i, said[t][i])
    BY DEF CleanStepIsComplete, LinesOf
  <2>1. t \in followed
    BY <1>1 DEF ItemHolds, NoRow
  <2>2. ~Keeps(t, i)
    BY DEF Keeps
  <2> QED
    BY <1>1, <2>1, <2>2 DEF ItemHolds
<1>3. LogInOrder
  <2> SUFFICES ASSUME NEW t \in Tests, NEW i \in Steps
               PROVE  LET log == row[t][i].log IN
                      /\ \A k \in DOMAIN log : log[k][1] = i /\ log[k][2] \in 1 .. said[t][i]
                      /\ \A j, k \in DOMAIN log : j < k => log[j][2] < log[k][2]
    BY DEF LogInOrder
  <2> DEFINE log == row[t][i].log
             n == Sent(t, i)
  <2>1. n \in Nat /\ n <= said[t][i] /\ said[t][i] \in Nat
    <3>1. CASE pc = "append_log" /\ t = test.id /\ i = step.item
      <4>1. said[t][i] > 0
        BY <3>1 DEF StepsHold, StepHolds, WhereHolds, CallHolds, Chained
      <4>2. said[t][i] \in Nat /\ n = said[t][i] - 1
        BY <1>1, <3>1 DEF Sent
      <4> QED
        BY <4>1, <4>2
    <3>2. CASE ~(pc = "append_log" /\ t = test.id /\ i = step.item)
      BY <1>1, <3>2 DEF Sent
    <3> QED
      BY <3>1, <3>2
  <2>2. InOrder(log, i, n)
    BY <1>1 DEF ItemHolds
  <2> HIDE DEF n
  <2>3. /\ DOMAIN log = 1 .. Len(log)
        /\ \A k \in 1 .. Len(log) : log[k][1] = i /\ log[k][2] \in 1 .. n
    BY <2>1, <2>2, LinesAre
  <2>4. \A j, k \in 1 .. Len(log) : j < k => log[j][2] < log[k][2]
    BY <2>2 DEF InOrder
  <2>5. \A x \in 1 .. n : x \in 1 .. said[t][i]
    BY <2>1
  <2> QED
    BY <2>3, <2>4, <2>5
<1> QED
  BY <1>2, <1>3 DEF StepsAreFaithful

LEMMA TypesFollow == ASSUME ListenerHolds PROVE TypeOK
<1>1. WhereHolds /\ TypesHold /\ StepsHold /\ BooleansHold /\ AdapterTypeOK
  BY DEF ListenerHolds, StepsHold, WaitHolds
<1>2. Len(Script) \in Nat \ {0} /\ DOMAIN Script = 1 .. Len(Script)
  BY ScriptFacts
<1>3. at \in 1 .. Len(Script) + 1
  BY <1>1 DEF WhereHolds, RobotHolds
<1>4. ASSUME NEW t \in Tests, NEW i \in Steps
      PROVE  /\ verdict[t][i] \in Verdicts \union {"none"}
             /\ said[t][i] \in 0 .. Len(Script)
             /\ row[t][i].status \in RowStatuses
             /\ failed[t][i] \in BOOLEAN
  <2>1. said[t][i] \in Nat /\ (said[t][i] < at \/ (pc = "append_log" /\ said[t][i] <= at))
    BY <1>1 DEF TypesHold
  <2>2. pc = "append_log" => at <= Len(Script)
    BY <1>1, <1>2 DEF WhereHolds, CallHolds
  <2>3. said[t][i] \in 0 .. Len(Script)
    BY <1>2, <1>3, <2>1, <2>2
  <2>4. row[t][i] \in [status : RowStatuses, log : Logs]
    BY <1>1 DEF TypesHold
  <2>5. failed[t][i] \in BOOLEAN /\ verdict[t][i] \in Verdicts \union {"none"}
    BY <1>1 DEF TypesHold
  <2> QED
    BY <2>3, <2>4, <2>5
<1>5. case \in [Tests -> CaseStates]
  BY DEF ListenerHolds, CasesHold
<1>6. test.id \in Tests \union {NoTest.id} /\ step.item \in Steps \union {NoStep.item}
  BY <1>1 DEF TypesHold, NoTest, NoStep
<1>7. Here.item \in Nat /\ Here.depth \in Nat /\ Here.depth <= Len(Script)
      /\ (Here.test # "none" => Here.item + 1 <= Len(Script)) /\ (Here.depth > 0 => Here.item >= 1)
  <2>1. Here \in Places /\ Here.depth < at /\ (Here.test # "none" => Here.item + 2 <= at)
        /\ (Here.depth > 0 => Here.item # 0)
    BY <1>1 DEF WhereHolds, RobotHolds
  <2>2. Here.item \in Nat /\ Here.depth \in Nat
    <3>1. (Here.item \in Steps \/ Here.item = 0) /\ Here.depth \in Nat
      BY <2>1 DEF Places
    <3>2. ASSUME NEW i \in Steps PROVE i \in Nat
      BY NamesAssumption
    <3> QED
      BY <3>1, <3>2
  <2> QED
    BY <1>2, <1>3, <2>1, <2>2
<1>8. test.cursor \in 1 .. Len(Script)
  <2>1. CASE test = NoTest
    BY <1>2, <2>1 DEF NoTest
  <2>2. CASE test # NoTest
    <3>1. test.cursor = IF Here.depth > 0 THEN Here.item ELSE Here.item + 1
      BY <1>1, <2>2 DEF WhereHolds, PositionHolds
    <3>2. Here.test # "none"
      BY <1>1, <2>2, StepFacts, NamesAssumption
    <3> QED
      BY <1>2, <1>7, <3>1, <3>2
  <2> QED
    BY <2>1, <2>2
<1>9. depth \in 0 .. Len(Script)
  <2>1. depth \in {0, 1, Here.depth}
    BY <1>1 DEF WhereHolds, PositionHolds
  <2> QED
    BY <1>2, <1>7, <2>1
<1>10. streaming \in BOOLEAN /\ hit \subseteq Tests
  BY <1>1 DEF TypesHold
<1>11. followed \subseteq Tests
  BY <1>1 DEF WhereHolds, PositionHolds
<1> QED
  BY <1>1, <1>3, <1>4, <1>5, <1>6, <1>8, <1>9, <1>10, <1>11 DEF TypeOK, BooleansHold

\* Whatever calls fail, and in any run of Robot, the listener forgets how a step ended only in a
\* test in which the server answered a call about a step with 5xx, or did not accept the batch.
THEOREM NothingIsForgotten == Spec => []NothingForgotten
<1>1. ListenerHolds => NothingForgotten
  BY NothingIsLost DEF ListenerHolds
<1> QED
  BY <1>1, ListenerSafe, PTL

\* In any run of Robot, the steps that are on the server are what Robot said of them, as far as
\* calls have succeeded, and never lines of another step or out of order; and the results are
\* in the suite Robot found their test in, for its own case put right, or for the one that has its
\* name when the server refuses to create its own.
THEOREM StepsStayFaithful == Spec => []StepsAndTests
<1>1. ListenerHolds => StepsAndTests
  BY StepsFollow, TypesFollow DEF ListenerHolds, StepsAndTests, TestsInTheirPlace, SuitesHold, CasesHold
<1> QED
  BY <1>1, ListenerSafe, PTL
=============================================================================
