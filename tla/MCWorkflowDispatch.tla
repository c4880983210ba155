------------------------ MODULE MCWorkflowDispatch ------------------------
(* Instances of WorkflowDispatch for TLC.                                  *)
EXTENDS WorkflowDispatch, TLC

CONSTANTS t1, t2, r1, r2

TwoTasks == {t1, t2}
OneTask == {t1}
TwoRuns == {r1, r2}
OneRun == {r1}

(* Permits and run tasks are interchangeable.                              *)
Symmetry == Permutations(TwoTasks) \cup Permutations(TwoRuns)

(* Bound: one fault in all, a crash or a failed statement.                 *)
OneFault == faults.crashes + faults.errors <= 1
===========================================================================
