---------------------------- MODULE MCRobotListener ----------------------------
(* A directory of two suites: one with a test of two steps and an item inside *)
(* the first of them, the other with a test of none.                          *)
EXTENDS RobotListener

Suite(name, directory) == [kind |-> "start_suite", name |-> name, directory |-> directory]
Test(name) == [kind |-> "start_test", name |-> name]
Other(kind) == [kind |-> kind]

MCTests == {"t1", "t2"}
MCSteps == 1 .. 2

MCFound == {[t1 |-> c, t2 |-> "active"] : c \in CaseStates}

MCScript == <<
  Suite("Root", TRUE), Suite("A", TRUE), Suite("A1", FALSE), Test("t1"),
  Other("start_item"), Other("log"), Other("start_item"), Other("log"),
  Other("end_item"), Other("end_item"),
  Other("start_item"), Other("log"), Other("end_item"),
  Other("end_test"), Other("end_suite"),
  Suite("A2", FALSE), Test("t2"), Other("end_test"),
  Other("end_suite"), Other("end_suite"), Other("end_suite") >>

MCPlace[k \in 1 .. Len(MCScript) + 1] ==
  IF k = 1 THEN Nowhere ELSE Leads(MCPlace[k - 1], k - 1)
-----------------------------------------------------------------------------
StepsAndTests == StepsAreFaithful /\ TestsInTheirPlace
=============================================================================
