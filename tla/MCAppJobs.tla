----------------------------- MODULE MCAppJobs -----------------------------
(* Instances of AppJobs for TLC.                                           *)
EXTENDS AppJobs, TLC

CONSTANTS t1, t2

TwoTasks == {t1, t2}
OneTask == {t1}

(* Dispatch permits are interchangeable.                                   *)
Symmetry == Permutations(TwoTasks)

(* Bound: one fault in all, whatever its kind.                             *)
OneFault ==
  faults.deaths + faults.stops + faults.restarts + faults.errors <= 1
============================================================================
