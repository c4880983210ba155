--------------------------- MODULE WorkflowRunner ---------------------------
(***************************************************************************)
(* runner::run of the workflow engine: one execution driven through its    *)
(* graph snapshot, node by node, with per-node retry, continueOnError,     *)
(* Stop nodes, and the resume of a crashed drive from workflow_node_runs.  *)
(*                                                                         *)
(* At most one drive of an execution is alive at a time (SingleFlight of   *)
(* WorkflowDispatch).  Items are abstracted to the output ports that carry *)
(* any; which ports those are, and whether a tool fails, is chosen anew    *)
(* each time a node is executed.                                           *)
(***************************************************************************)
EXTENDS TopoSort

CONSTANTS Nodes,      \* the snapshot's nodes
          Edges,      \* the snapshot's edge list: from, port, to
          Kind,       \* node -> trigger, tool, route, stop or unsupported
          Attempts,   \* node -> params.retry.maxAttempts
          Continues,  \* node -> params.continueOnError
          MaxCrashes, \* bound: process crashes and panics during a drive
          MaxErrors   \* bound: statements the database fails

Ports == {Edges[i].port : i \in DOMAIN Edges} \cup {0}
Kinds == {"trigger", "tool", "route", "stop", "unsupported"}

ASSUME RunnerAssumption ==
  /\ Edges \in Seq([from : Nodes, port : Nat, to : Nodes])
  /\ Kind \in [Nodes -> Kinds]
  /\ Attempts \in [Nodes -> Nat \ {0}]
  /\ Continues \in [Nodes -> BOOLEAN]
  /\ MaxCrashes \in Nat /\ MaxErrors \in Nat

VARIABLES status,    \* workflow_executions.status
          nodeRuns,  \* workflow_node_runs: status and ports of the output
          drive,     \* the locals of run()
          faults,
          consumed   \* history: the outputs a node was last executed with

runnerVars == <<status, nodeRuns, drive, faults, consumed>>

Terminal == {"succeeded", "failed"}
NodeStatus == {"none", "succeeded", "failed", "skipped"}
Outcome == [st : NodeStatus, ports : SUBSET Ports]
NoRun == [st |-> "none", ports |-> {}]

(* `ports` stands for active_ports and run_outputs: what a node absent     *)
(* from both contributes is no active port.                                *)
NoDrive == [pc |-> "off", order |-> <<>>, at |-> 1, attempt |-> 0, out |-> NoRun,
         done |-> {}, known |-> {}, ports |-> [n \in Nodes |-> {}], ok |-> TRUE]

(* Type correctness of the rows and of the drive.                          *)
RunnerTypeOK ==
  /\ status \in {"queued", "running"} \cup Terminal
  /\ nodeRuns \in [Nodes -> Outcome]
  /\ drive.pc \in {"off", "next", "execute", "persist", "final"}
  /\ drive.order \in Seq(Nodes)
  /\ drive.at \in 1..Len(drive.order) + 1
  /\ drive.attempt \in Nat
  /\ drive.out \in Outcome
  /\ drive.done \subseteq Nodes /\ drive.known \subseteq Nodes
  /\ drive.ports \in [Nodes -> SUBSET Ports]
  /\ drive.ok \in BOOLEAN
  /\ faults \in [crashes : 0..MaxCrashes, errors : 0..MaxErrors]
  /\ consumed \in [Nodes -> SUBSET Nodes]

RunnerInit ==
  /\ status = "queued"
  /\ nodeRuns = [n \in Nodes |-> NoRun]
  /\ drive = NoDrive
  /\ faults = [crashes |-> 0, errors |-> 0]
  /\ consumed = [n \in Nodes |-> {}]

NoFault == UNCHANGED faults
DbError ==
  faults.errors < MaxErrors /\ faults' = [faults EXCEPT !.errors = @ + 1]

Node == drive.order[drive.at]
Upstream(n) == {Edges[i].from : i \in {j \in DOMAIN Edges : Edges[j].to = n}}

(***************************************************************************)
(* Starting and resuming.                                                  *)
(***************************************************************************)
Recorded == {n \in Nodes : nodeRuns[n].st = "succeeded"}

(* A mutant: outputs are reloaded, but no node is marked done.             *)
seed_resume_forgets(order) ==
  [NoDrive EXCEPT !.pc = "next", !.order = order, !.known = Recorded,
               !.ports = [n \in Nodes |-> IF n \in Recorded THEN nodeRuns[n].ports ELSE {}]]

(* Only succeeded nodes are replayed; the others run again.                *)
seed_resume(order) ==
  [NoDrive EXCEPT !.pc = "next", !.order = order, !.done = Recorded, !.known = Recorded,
               !.ports = [n \in Nodes |-> IF n \in Recorded THEN nodeRuns[n].ports ELSE {}]]

(* A delivery of the execution's message: load, mark running, read the     *)
(* prior node runs.  A failing statement ends the drive before any node.   *)
Begin ==
  /\ drive.pc = "off" /\ status \notin Terminal
  /\ \/ /\ status' = "running"
        /\ \E order \in Orders(Nodes, Edges) : drive' = seed_resume(order)
        /\ NoFault
     \/ /\ DbError
        /\ status' \in {status, "running"}
        /\ UNCHANGED drive
  /\ UNCHANGED <<nodeRuns, consumed>>

(***************************************************************************)
(* The loop over the order.                                                *)
(***************************************************************************)
should_execute(n) ==
  LET inbound == {i \in DOMAIN Edges : Edges[i].to = n}
  IN  IF inbound = {} THEN Kind[n] = "trigger"
      ELSE \E i \in inbound : Edges[i].port \in drive.ports[Edges[i].from]

Pass ==
  /\ drive.pc = "next" /\ drive.at <= Len(drive.order)
  /\ Node \in drive.done \/ ~should_execute(Node)
  /\ drive' = [drive EXCEPT !.at = @ + 1]
  /\ UNCHANGED <<status, nodeRuns, faults, consumed>>

Execute ==
  /\ drive.pc = "next" /\ drive.at <= Len(drive.order)
  /\ Node \notin drive.done /\ should_execute(Node)
  /\ drive' = [drive EXCEPT !.pc = "execute", !.attempt = 1]
  /\ consumed' = [consumed EXCEPT ![Node] = Upstream(Node) \cap drive.known]
  /\ UNCHANGED <<status, nodeRuns, faults>>

(* What execute_node may return for a kind of node: a trigger and a Stop   *)
(* emit one item, an If or a Switch splits its items over its ports, a     *)
(* tool emits any number of items or fails, the rest is "not implemented". *)
execute_node(k) ==
  CASE k \in {"trigger", "stop"} -> {[st |-> "succeeded", ports |-> {0}]}
    [] k = "route" -> [st : {"succeeded"}, ports : SUBSET Ports]
    [] k = "tool" -> [st : {"succeeded"}, ports : SUBSET {0}]
                       \cup {[st |-> "failed", ports |-> {}]}
    [] k = "unsupported" -> {[st |-> "skipped", ports |-> {}]}

(* continueOnError records the last failure as a success with one item.    *)
Recast(n, out, attempt) ==
  IF out.st = "failed" /\ attempt >= Attempts[n] /\ Continues[n]
  THEN [st |-> "succeeded", ports |-> {0}] ELSE out

NodeReturns(out) ==
  /\ drive.pc = "execute"
  /\ out \in execute_node(Kind[Node])
  /\ drive' = [drive EXCEPT !.pc = "persist", !.out = Recast(Node, out, drive.attempt)]
  /\ UNCHANGED <<status, nodeRuns, faults, consumed>>

(* Retry after the backoff; else route the output, or spoil the run, and   *)
(* go on, unless a Stop halts it or a failure aborts it.                   *)
AfterPersist ==
  LET out == drive.out
      moved == [drive EXCEPT !.at = @ + 1, !.attempt = 0, !.out = NoRun]
  IN  IF out.st = "failed" /\ drive.attempt < Attempts[Node]
        THEN [drive EXCEPT !.pc = "execute", !.attempt = @ + 1, !.out = NoRun]
      ELSE IF out.st = "succeeded"
        THEN [moved EXCEPT !.pc = IF Kind[Node] = "stop" THEN "final" ELSE "next",
                           !.known = @ \cup {Node}, !.ports[Node] = out.ports]
      ELSE [moved EXCEPT !.pc = IF out.st = "failed" THEN "final" ELSE "next",
                         !.ok = FALSE]

(* persist_node_run: an upsert whose error is thrown away.                 *)
persist_node_run ==
  /\ drive.pc = "persist"
  /\ \/ nodeRuns' = [nodeRuns EXCEPT ![Node] = drive.out] /\ NoFault
     \/ DbError /\ UNCHANGED nodeRuns
  /\ drive' = AfterPersist
  /\ UNCHANGED <<status, consumed>>

(***************************************************************************)
(* The end of a drive.                                                     *)
(***************************************************************************)
EndOfOrder ==
  /\ drive.pc = "next" /\ drive.at > Len(drive.order)
  /\ drive' = [drive EXCEPT !.pc = "final"]
  /\ UNCHANGED <<status, nodeRuns, faults, consumed>>

Final ==
  /\ drive.pc = "final"
  /\ drive' = NoDrive
  /\ \/ status' = (IF drive.ok THEN "succeeded" ELSE "failed") /\ NoFault
     \/ DbError /\ UNCHANGED status
  /\ UNCHANGED <<nodeRuns, consumed>>

Crash ==
  /\ drive.pc # "off"
  /\ faults.crashes < MaxCrashes
  /\ faults' = [faults EXCEPT !.crashes = @ + 1]
  /\ drive' = NoDrive
  /\ UNCHANGED <<status, nodeRuns, consumed>>

RunnerNext ==
  \/ Begin \/ Pass \/ Execute \/ persist_node_run \/ EndOfOrder \/ Final \/ Crash
  \/ \E out \in Outcome : NodeReturns(out)

RunnerSpec == RunnerInit /\ [][RunnerNext]_runnerVars

(***************************************************************************)
(* Properties.                                                             *)
(***************************************************************************)
Executing(n) == drive.pc = "execute" /\ Node = n

(* "On redelivery ... already-succeeded nodes are skipped": a node whose   *)
(* success is in workflow_node_runs is never executed again, whatever      *)
(* crashed, failed or changed order since.                                 *)
SucceededNodeIsSkipped ==
  \A n \in Nodes : Executing(n) => nodeRuns[n].st # "succeeded"

(* Resume is seamless: each node whose success is recorded was executed    *)
(* with the outputs of exactly those upstream nodes whose success is       *)
(* recorded, as in one drive without a crash (unless the database failed   *)
(* to save one, which persist_node_run ignores).                           *)
ResumeIsSeamless ==
  faults.errors = 0 => \A n \in Recorded : consumed[n] = Upstream(n) \cap Recorded

StopRecorded == \E n \in Recorded : Kind[n] = "stop"

Routed(n) ==
  LET inbound == {i \in DOMAIN Edges : Edges[i].to = n}
  IN  IF inbound = {} THEN Kind[n] = "trigger"
      ELSE \E i \in inbound : /\ Edges[i].from \in Recorded
                              /\ Edges[i].port \in nodeRuns[Edges[i].from].ports

(* The reported outcome is the recorded one: an execution that succeeded   *)
(* has, unless a Stop ended it, run every node its outputs were routed to, *)
(* without a failed or skipped one; an execution that failed has one       *)
(* (again unless a result could not be saved).                             *)
OutcomeMatchesNodes ==
  faults.errors = 0 =>
    /\ status = "succeeded" /\ ~StopRecorded =>
         \A n \in Nodes : nodeRuns[n].st = IF Routed(n) THEN "succeeded" ELSE "none"
    /\ status = "failed" => \E n \in Nodes : nodeRuns[n].st \in {"failed", "skipped"}

(* NodeExecution.halt, "A Stop node: record it, then halt the whole        *)
(* execution (no further nodes)": once a Stop is recorded nothing runs.    *)
StopHalts == \A n \in Nodes : Executing(n) => ~StopRecorded

(* A crash and a resumption cannot be told from one uninterrupted drive by *)
(* what is recorded: nothing succeeded runs again, every node read what it *)
(* would have read, and the outcome is the one the nodes had.              *)
ResumeIsTransparent ==
  RunnerTypeOK /\ SucceededNodeIsSkipped /\ ResumeIsSeamless /\ OutcomeMatchesNodes
=============================================================================
