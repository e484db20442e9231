------------------------------ MODULE MCOutgoing ------------------------------
(* What leaves the process behind its responses: the lines of step logs on    *)
(* their way to subscribers (two of one execution, one of another), and the   *)
(* deliveries of webhooks.  Each behaviour is one of the two machines, and    *)
(* the other stays as it starts.                                              *)
EXTENDS StepLog, WebhookDispatch, TLC

CONSTANTS e1, e2, l1, l2, l3

MCExecutions == {e1, e2}
MCLines == {l1, l2, l3}
MCExecOf == (l1 :> e1) @@ (l2 :> e1) @@ (l3 :> e2)

\* The receiver before another one needs to be slow or quick only.
MCAnswersOf ==
  [h \in HookSet |-> IF h = Hooks[1] THEN {"2xx", "5xx"} ELSE Answers]

VARIABLE part

outgoingVars == <<part, stepVars, dispatchVars>>

\* A part that stays as it starts starts in one way.
MCInit ==
  /\ part \in {"log", "hooks"}
  /\ StepInit /\ DispatchInit
  /\ part = "log" => \A h \in HookSet : hook[h] = "active"
  /\ part = "hooks" => interval = "zero"

LogPart == part = "log" /\ StepNext /\ UNCHANGED <<part, dispatchVars>>
HookPart == part = "hooks" /\ DispatchNext /\ UNCHANGED <<part, stepVars>>

MCNext == LogPart \/ HookPart

\* The fairness of each part; in a part that stays as it starts nothing is enabled
\* that it speaks of.
MCSpec == MCInit /\ [][MCNext]_outgoingVars /\ StepFairness /\ DispatchFairness
=============================================================================
