----------------------- MODULE MCExecutionLifecycle -----------------------
(* Instances of ExecutionLifecycle for TLC. *)
EXTENDS ExecutionLifecycle, TLC

CONSTANTS w1, w2, c1, s1

OneCase == {c1}
OneRow == {1}

\* One row for one case, one step row under it.
OnlyRowCase == [r \in OneRow |-> c1]
OnlyStepRow == [x \in OneRow |-> 1]
OnlyStep == [x \in OneRow |-> s1]

WorkerSymmetry == Permutations(Workers)
=============================================================================
