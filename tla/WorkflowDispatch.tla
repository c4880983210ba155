-------------------------- MODULE WorkflowDispatch --------------------------
(***************************************************************************)
(* Durable workflow runs: the path from a queued message, through the      *)
(* scheduler's dispatch tasks (core/src/scheduler.rs), to the run task     *)
(* that drives one execution row (extensions/workflows/runner.rs), with    *)
(* the manual-run route that creates its row before it enqueues.           *)
(*                                                                         *)
(* Every database statement is a step of its own, and any of them may      *)
(* fail; the process may crash and a run may panic.  Both kinds of fault   *)
(* are bounded.  What a run does between its first and its last UPDATE is  *)
(* one step here; module WorkflowRunner opens it.                          *)
(***************************************************************************)
EXTENDS JobQueue

CONSTANTS MaxExecs,   \* bound: execution rows ever inserted
          Tasks,      \* dispatch permits, MAX_CONCURRENT_DISPATCH of them
          Runs,       \* bound: run tasks alive at once
          MaxManual,  \* bound: rows inserted by run_workflow
          Editable,   \* bound: whether the workflow is edited or deleted
          MaxCrashes, \* bound: process crashes and panics of a run
          MaxErrors   \* bound: statements the database fails

ASSUME DispatchAssumption ==
  /\ MaxExecs \in Nat \ {0} /\ MaxManual \in Nat /\ Editable \in BOOLEAN
  /\ MaxCrashes \in Nat /\ MaxErrors \in Nat

VARIABLES execs,      \* workflow_executions
          workflow,   \* the workflows row: enabled, disabled or deleted
          http,       \* run_workflow handlers between their two statements
          tasks,      \* Dispatcher::handle calls in progress, one per permit
          runs,       \* tasks spawned by spawn_workflow_run
          inFlight,   \* Dispatcher.in_flight
          faults,
          started     \* history: message -> the deliveries that spawned a run

vars == <<queue, dlq, execs, workflow, http, tasks, runs, inFlight, faults, started>>

Execs == 1..MaxExecs
NoMsg == 0
NoExec == 0

TaskPcs == {"idle", "lookup", "gate", "bind", "create", "spawn", "fail",
            "bound", "perms", "failDenied", "failExec",
            "dlqFind", "dlqFailExec", "dlqSend", "dlqArchive"}
RunPcs == {"off", "load", "start", "nodes", "final", "complete"}

Live == {"queued", "running"}
Terminal == {"succeeded", "failed"}

(* `valid`: the graph snapshot passes validate(), which no route asks      *)
(* before the run does.  `msg` is a history field: the message the row was *)
(* created for.                                                            *)
Row == [st : {"absent"} \cup Live \cup Terminal \cup {"removed"},
        lease : {NoMsg} \cup Msgs, valid : BOOLEAN, msg : {NoMsg} \cup Msgs]
Task == [pc : TaskPcs, m : {NoMsg} \cup Msgs, ct : Nat, e : {NoExec} \cup Execs]
Run == [pc : RunPcs, m : {NoMsg} \cup Msgs, e : {NoExec} \cup Execs,
        hb : BOOLEAN, res : Terminal]

IdleTask == [pc |-> "idle", m |-> NoMsg, ct |-> 0, e |-> NoExec]
NoRun == [pc |-> "off", m |-> NoMsg, e |-> NoExec, hb |-> FALSE, res |-> "failed"]

(* Type correctness of the queue, the rows and the tasks.                  *)
TypeOK ==
  /\ QueueTypeOK({NoExec} \cup Execs)
  /\ execs \in [Execs -> Row]
  /\ workflow \in {"enabled", "disabled", "deleted"}
  /\ http \subseteq Execs
  /\ tasks \in [Tasks -> Task]
  /\ runs \in [Runs -> Run]
  /\ inFlight \subseteq Msgs
  /\ faults \in [crashes : 0..MaxCrashes, errors : 0..MaxErrors]
  /\ started \in [Msgs -> SUBSET Nat]

Init ==
  /\ QueueInit(NoExec)
  /\ execs = [e \in Execs |->
       [st |-> "absent", lease |-> NoMsg, valid |-> TRUE, msg |-> NoMsg]]
  /\ workflow = "enabled"
  /\ http = {}
  /\ tasks = [t \in Tasks |-> IdleTask]
  /\ runs = [r \in Runs |-> NoRun]
  /\ inFlight = {}
  /\ faults = [crashes |-> 0, errors |-> 0]
  /\ started = [m \in Msgs |-> {}]

NoFault == UNCHANGED faults
DbError ==
  faults.errors < MaxErrors /\ faults' = [faults EXCEPT !.errors = @ + 1]
Dies ==
  faults.crashes < MaxCrashes /\ faults' = [faults EXCEPT !.crashes = @ + 1]

(***************************************************************************)
(* Producers.                                                              *)
(***************************************************************************)
Absent == {e \in Execs : execs[e].st = "absent"}

create_execution(e, m) ==
  /\ e \in Absent /\ \A k \in Absent : e <= k
  /\ workflow = "enabled"
  /\ \E v \in BOOLEAN :
       execs' = [execs EXCEPT ![e] =
                   [st |-> "queued", lease |-> m, valid |-> v, msg |-> m]]

(* A cron or a record hook enqueues a run of the workflow.                 *)
Trigger(m) ==
  /\ enqueue_message(m, NoExec)
  /\ UNCHANGED <<dlq, execs, workflow, http, tasks, runs, inFlight, faults, started>>

ManualRows ==
  {e \in Execs : /\ execs[e].st # "absent"
                 /\ execs[e].msg = NoMsg \/ queue[execs[e].msg].body = e}

(* run_workflow, first statement: the row exists before its message does.  *)
RunWorkflow(e) ==
  /\ Cardinality(ManualRows) < MaxManual
  /\ create_execution(e, NoMsg)
  /\ http' = http \cup {e}
  /\ UNCHANGED <<queue, dlq, workflow, tasks, runs, inFlight, faults, started>>

(* run_workflow, second statement: one transaction sends and binds.        *)
EnqueueManual(e, m) ==
  /\ e \in http
  /\ http' = http \ {e}
  /\ \/ /\ execs[e].st = "queued" /\ execs[e].lease = NoMsg
        /\ enqueue_message(m, e)
        /\ execs' = [execs EXCEPT ![e].lease = m, ![e].msg = m]
        /\ NoFault
     \/ /\ execs[e].st # "queued"
        /\ UNCHANGED <<queue, execs, faults>>
     \/ /\ DbError
        /\ UNCHANGED <<queue, execs>>
  /\ UNCHANGED <<dlq, workflow, tasks, runs, inFlight, started>>

(* update_workflow flips `enabled`; delete_workflow cascades to the rows.  *)
EditWorkflow ==
  /\ Editable
  /\ workflow # "deleted"
  /\ \/ /\ workflow' \in {"enabled", "disabled"} \ {workflow}
        /\ UNCHANGED execs
     \/ /\ workflow' = "deleted"
        /\ execs' = [e \in Execs |->
             IF execs[e].st = "absent" THEN execs[e]
             ELSE [execs[e] EXCEPT !.st = "removed", !.lease = NoMsg]]
  /\ UNCHANGED <<queue, dlq, http, tasks, runs, inFlight, faults, started>>

(***************************************************************************)
(* Dispatcher::handle, one step per statement.                             *)
(***************************************************************************)
At(t, pc) == tasks[t].pc = pc
Goto(t, pc) == tasks' = [tasks EXCEPT ![t].pc = pc]
Finish(t) == tasks' = [tasks EXCEPT ![t] = IdleTask]

(* The result of a statement is thrown away (`let _ =`): whether it ran or *)
(* failed, the handler returns.                                            *)
LastStatement(t, A) ==
  /\ Finish(t)
  /\ \/ A /\ NoFault
     \/ DbError /\ UNCHANGED queue
  /\ UNCHANGED <<dlq, execs, workflow, http, runs, inFlight, started>>

LeaseRows(m) == {e \in Execs : execs[e].lease = m /\ execs[e].st \in Live}

(* The newest live row of the lease, or none.                              *)
inflight_for_lease(m, e) ==
  IF LeaseRows(m) = {} THEN e = NoExec
  ELSE e \in LeaseRows(m) /\ \A k \in LeaseRows(m) : k <= e

(* A mutant: no condition on the status it overwrites.                     *)
fail_any_execution(e) ==
  execs' = [execs EXCEPT ![e] = [@ EXCEPT !.st = "failed", !.lease = NoMsg]]

fail_execution(e) ==
  execs' = [execs EXCEPT ![e] =
              IF @.st \in Live THEN [@ EXCEPT !.st = "failed", !.lease = NoMsg] ELSE @]

FindExec(t, none, found) ==
  \E e \in {NoExec} \cup Execs :
    /\ inflight_for_lease(tasks[t].m, e)
    /\ tasks' = [tasks EXCEPT ![t].e = e, ![t].pc = IF e = NoExec THEN none ELSE found]

(* scheduler_loop: a permit first, then one leased message.                *)
Poll(t, m) ==
  /\ At(t, "idle")
  /\ read_next(m)
  /\ tasks' = [tasks EXCEPT ![t] =
       [pc |-> IF queue[m].body = NoExec THEN "lookup" ELSE "bound",
        m |-> m, ct |-> queue[m].ct + 1, e |-> queue[m].body]]
  /\ UNCHANGED <<dlq, execs, workflow, http, runs, inFlight, faults, started>>

(* dispatch_workflow_job: an unreadable workflow row is a missing one.     *)
Lookup(t) ==
  /\ At(t, "lookup")
  /\ \/ /\ workflow # "deleted"
        /\ Goto(t, IF delivery_exhausted(tasks[t].ct) THEN "dlqFind" ELSE "gate")
        /\ NoFault
     \/ /\ workflow = "deleted" /\ Goto(t, "fail") /\ NoFault
     \/ DbError /\ Goto(t, "fail")
  /\ UNCHANGED <<queue, dlq, execs, workflow, http, runs, inFlight, started>>

(* assert_can_fire_workflow, then perms_or_fail: both drop the message     *)
(* when they refuse, and what they read may change between deliveries.     *)
Gate(t) ==
  /\ At(t, "gate")
  /\ Goto(t, "bind") \/ Goto(t, "fail")
  /\ UNCHANGED <<queue, dlq, execs, workflow, http, runs, inFlight, faults, started>>

(* Resume the lease's execution; a failed lookup reads as "none".          *)
Bind(t) ==
  /\ At(t, "bind")
  /\ \/ /\ FindExec(t, "create", "spawn")
        /\ NoFault
     \/ DbError /\ Goto(t, "create")
  /\ UNCHANGED <<queue, dlq, execs, workflow, http, runs, inFlight, started>>

Create(t, e) ==
  /\ At(t, "create")
  /\ \/ /\ create_execution(e, tasks[t].m)
        /\ tasks' = [tasks EXCEPT ![t].e = e, ![t].pc = "spawn"]
        /\ NoFault
     \/ workflow # "enabled" /\ Goto(t, "fail") /\ UNCHANGED execs /\ NoFault
     \/ DbError /\ Goto(t, "fail") /\ UNCHANGED execs
  /\ UNCHANGED <<queue, dlq, workflow, http, runs, inFlight, started>>

FailJob(t) == At(t, "fail") /\ LastStatement(t, fail(tasks[t].m))

(* dispatch_manual_workflow: an unreadable binding counts as no binding.   *)
CheckBound(t) ==
  /\ At(t, "bound")
  /\ \/ /\ execs[tasks[t].e].lease = tasks[t].m
        /\ Goto(t, IF delivery_exhausted(tasks[t].ct) THEN "dlqFailExec" ELSE "perms")
        /\ NoFault
     \/ execs[tasks[t].e].lease # tasks[t].m /\ Goto(t, "dlqSend") /\ NoFault
     \/ DbError /\ Goto(t, "dlqSend")
  /\ UNCHANGED <<queue, dlq, execs, workflow, http, runs, inFlight, started>>

Perms(t) ==
  /\ At(t, "perms")
  /\ Goto(t, "spawn") \/ Goto(t, "failDenied")
  /\ UNCHANGED <<queue, dlq, execs, workflow, http, runs, inFlight, faults, started>>

(* perms_or_fail has dropped the message before the row is failed.         *)
FailDenied(t) ==
  /\ At(t, "failDenied")
  /\ Goto(t, "failExec")
  /\ \/ fail(tasks[t].m) /\ NoFault
     \/ DbError /\ UNCHANGED queue
  /\ UNCHANGED <<dlq, execs, workflow, http, runs, inFlight, started>>

(* fail_execution, with what the handler does after it.                    *)
FailExec(t) ==
  /\ At(t, "failExec") \/ At(t, "dlqFailExec")
  /\ IF At(t, "failExec") THEN Finish(t) ELSE Goto(t, "dlqSend")
  /\ \/ fail_execution(tasks[t].e) /\ NoFault
     \/ DbError /\ UNCHANGED execs
  /\ UNCHANGED <<queue, dlq, workflow, http, runs, inFlight, started>>

(* dead_letter_workflow.                                                   *)
DlqFind(t) ==
  /\ At(t, "dlqFind")
  /\ \/ FindExec(t, "dlqSend", "dlqFailExec") /\ NoFault
     \/ DbError /\ Goto(t, "dlqSend")
  /\ UNCHANGED <<queue, dlq, execs, workflow, http, runs, inFlight, started>>

DlqSend(t) ==
  /\ At(t, "dlqSend")
  /\ \/ dead_letter_send(tasks[t].m) /\ Goto(t, "dlqArchive") /\ NoFault
     \/ DbError /\ Finish(t) /\ UNCHANGED dlq
  /\ UNCHANGED <<queue, execs, workflow, http, runs, inFlight, started>>

DlqArchive(t) ==
  At(t, "dlqArchive") /\ LastStatement(t, dead_letter_archive(tasks[t].m))

(***************************************************************************)
(* The run task: spawn_workflow_run and the statements of runner::run.     *)
(***************************************************************************)
RunAt(r, pc) == runs[r].pc = pc
Heartbeating == {runs[r].m : r \in {q \in Runs : runs[q].hb}}

(* A mutant: no single-flight guard.                                       *)
SpawnAlways(t, r) ==
  /\ At(t, "spawn") /\ RunAt(r, "off")
  /\ inFlight' = inFlight \cup {tasks[t].m}
  /\ started' = [started EXCEPT ![tasks[t].m] = @ \cup {tasks[t].ct}]
  /\ runs' = [runs EXCEPT ![r] = [NoRun EXCEPT !.pc = "load", !.m = tasks[t].m,
                                               !.e = tasks[t].e]]
  /\ Finish(t)
  /\ UNCHANGED <<queue, dlq, execs, workflow, http, faults>>

(* Single-flight: a message already in in_flight starts no second run.     *)
Spawn(t, r) ==
  /\ At(t, "spawn")
  /\ \/ /\ tasks[t].m \notin inFlight
        /\ RunAt(r, "off")
        /\ inFlight' = inFlight \cup {tasks[t].m}
        /\ started' = [started EXCEPT ![tasks[t].m] = @ \cup {tasks[t].ct}]
        /\ runs' = [runs EXCEPT ![r] = [NoRun EXCEPT !.pc = "load", !.m = tasks[t].m,
                                                     !.e = tasks[t].e]]
     \/ tasks[t].m \in inFlight /\ UNCHANGED <<inFlight, runs, started>>
  /\ Finish(t)
  /\ UNCHANGED <<queue, dlq, execs, workflow, http, faults>>

(* Dropping InFlightGuard and the heartbeat's drop guard.                  *)
EndRun(r) ==
  /\ runs' = [runs EXCEPT ![r] = NoRun]
  /\ inFlight' = inFlight \ {runs[r].m}

RunGoto(r, pc) ==
  runs' = [runs EXCEPT ![r].pc = pc] /\ UNCHANGED inFlight

(* Returning Err: the message is left to its lease.                        *)
RunErr(r) == EndRun(r) /\ UNCHANGED <<queue, execs>>

RunLoad(r) ==
  /\ RunAt(r, "load")
  /\ LET x == execs[runs[r].e]
         loaded == x.lease = runs[r].m /\ x.st \in Live /\ x.valid
     IN  \/ /\ loaded
            /\ runs' = [runs EXCEPT ![r].pc = "start", ![r].hb = TRUE]
            /\ UNCHANGED <<queue, execs, inFlight, faults>>
         \/ ~loaded /\ RunErr(r) /\ NoFault
         \/ DbError /\ RunErr(r)
  /\ UNCHANGED <<dlq, workflow, http, tasks, started>>

(* An UPDATE by primary key: no condition on the status it overwrites.     *)
SetStatus(e, st, lease) ==
  execs' = [execs EXCEPT ![e] =
              IF @.st = "removed" THEN @ ELSE [@ EXCEPT !.st = st, !.lease = lease]]

RunStart(r) ==
  /\ RunAt(r, "start")
  /\ \/ /\ SetStatus(runs[r].e, "running", execs[runs[r].e].lease)
        /\ RunGoto(r, "nodes")
        /\ UNCHANGED <<queue, faults>>
     \/ DbError /\ RunErr(r)
  /\ UNCHANGED <<dlq, workflow, http, tasks, started>>

RunNodes(r) ==
  /\ RunAt(r, "nodes")
  /\ \/ \E res \in Terminal :
          /\ runs' = [runs EXCEPT ![r].pc = "final", ![r].res = res]
          /\ UNCHANGED <<queue, execs, inFlight, faults>>
     \/ Dies /\ RunErr(r)                           \* a panic in a node's tool
  /\ UNCHANGED <<dlq, workflow, http, tasks, started>>

(* The heartbeat is dropped as run() returns, after this UPDATE.           *)
RunFinal(r) ==
  /\ RunAt(r, "final")
  /\ \/ /\ SetStatus(runs[r].e, runs[r].res, NoMsg)
        /\ runs' = [runs EXCEPT ![r].pc = "complete", ![r].hb = FALSE]
        /\ UNCHANGED <<queue, inFlight, faults>>
     \/ DbError /\ RunErr(r)
  /\ UNCHANGED <<dlq, workflow, http, tasks, started>>

RunComplete(r) ==
  /\ RunAt(r, "complete")
  /\ EndRun(r)
  /\ \/ complete(runs[r].m) /\ NoFault
     \/ DbError /\ UNCHANGED queue
  /\ UNCHANGED <<dlq, execs, workflow, http, tasks, started>>

(***************************************************************************)
(* Leases, heartbeats and the process.                                     *)
(***************************************************************************)
(* A mutant: the heartbeat renews for ever.                                *)
HeartbeatNeverGivesUp(r) == r \in {} /\ UNCHANGED vars

(* lease_heartbeat returns once MAX_LEASE_LIFETIME has passed.             *)
HeartbeatGivesUp(r) ==
  /\ runs[r].hb
  /\ runs' = [runs EXCEPT ![r].hb = FALSE]
  /\ UNCHANGED <<queue, dlq, execs, workflow, http, tasks, inFlight, faults, started>>

Renew(r) ==
  /\ runs[r].hb
  /\ extend_lease(runs[r].m)
  /\ UNCHANGED <<dlq, execs, workflow, http, tasks, runs, inFlight, faults, started>>

(* Nobody renews, or every renewal of the last two minutes failed.         *)
LeaseExpires(m) ==
  /\ lease_runs_out(m)
  /\ IF m \in Heartbeating THEN DbError ELSE NoFault
  /\ UNCHANGED <<dlq, execs, workflow, http, tasks, runs, inFlight, started>>

(* The process dies and starts again: memory is lost, the database stays.  *)
Crash ==
  /\ Dies
  /\ http' = {}
  /\ tasks' = [t \in Tasks |-> IdleTask]
  /\ runs' = [r \in Runs |-> NoRun]
  /\ inFlight' = {}
  /\ UNCHANGED <<queue, dlq, execs, workflow, started>>

TaskStep(t) ==
  \/ Lookup(t) \/ Gate(t) \/ Bind(t) \/ FailJob(t)
  \/ CheckBound(t) \/ Perms(t) \/ FailDenied(t) \/ FailExec(t)
  \/ DlqFind(t) \/ DlqSend(t) \/ DlqArchive(t)
  \/ \E e \in Execs : Create(t, e)
  \/ \E r \in Runs : Spawn(t, r)

RunStep(r) ==
  \/ RunLoad(r) \/ RunStart(r) \/ RunNodes(r) \/ RunFinal(r) \/ RunComplete(r)

Next ==
  \/ \E m \in Msgs : Trigger(m) \/ LeaseExpires(m)
  \/ \E e \in Execs : RunWorkflow(e) \/ \E m \in Msgs : EnqueueManual(e, m)
  \/ EditWorkflow
  \/ \E t \in Tasks : TaskStep(t) \/ \E m \in Msgs : Poll(t, m)
  \/ \E r \in Runs : RunStep(r) \/ HeartbeatGivesUp(r) \/ Renew(r)
  \/ Crash

Spec == Init /\ [][Next]_vars

(***************************************************************************)
(* Fairness.  The scheduler loop polls, its tasks and the statements of a  *)
(* run make progress, time passes for leases and heartbeats.  The nodes of *)
(* a run are never assumed to finish: a tool may hang for ever.            *)
(***************************************************************************)
RunStatement(r) == RunLoad(r) \/ RunStart(r) \/ RunFinal(r) \/ RunComplete(r)

FairSpec ==
  /\ Spec
  /\ WF_vars(\E t \in Tasks, m \in Msgs : Poll(t, m))
  /\ \A t \in Tasks : WF_vars(TaskStep(t))
  /\ \A r \in Runs : WF_vars(RunStatement(r)) /\ WF_vars(HeartbeatGivesUp(r))
  /\ \A m \in Msgs : WF_vars(LeaseExpires(m))

(***************************************************************************)
(* Properties.                                                             *)
(***************************************************************************)
(* spawn_workflow_run promises single flight: whatever leases are lost and *)
(* whatever is redelivered, no execution is driven by two run tasks.       *)
SingleFlight ==
  \A r, q \in Runs :
    r # q /\ ~RunAt(r, "off") /\ ~RunAt(q, "off") => runs[r].e # runs[q].e

(* A run that reported success stays successful: neither a redelivery nor  *)
(* the status guard of fail_execution lets a later write undo it.          *)
SucceededIsFinal ==
  [][\A e \in Execs :
       execs[e].st = "succeeded" => execs'[e].st \in {"succeeded", "removed"}]_vars

Busy == {runs[r].m : r \in {q \in Runs : runs[q].pc # "off"}}

Contract == INSTANCE JobContract WITH phase <- Phase, busy <- Busy

(* Workflow runs honour the queue's contract: one run per message at a     *)
(* time, one per delivery, none past MAX_DELIVERIES, settled for good.     *)
HonoursContract == Contract!Spec

(* MAX_LEASE_LIFETIME exists so that a hung run cannot pin its message:    *)
(* every message leaves the queue, by completing, by being dropped or      *)
(* through redelivery and the dead-letter queue.                           *)
EveryMessageSettles ==
  \A m \in Msgs : queue[m].st \in InQueue ~> Settled(m)

(* dispatch_manual_workflow: "fail the (already-created) execution so it   *)
(* can't sit in 'queued' forever, then drop the message".  Once the        *)
(* message of a manual run is dropped and no task holds it any more, its   *)
(* execution is no longer live.                                            *)
DeniedRunIsFailed ==
  \A m \in Msgs :
    queue[m].st = "deleted" /\ queue[m].body # NoExec /\ (\A t \in Tasks : tasks[t].m # m)
      => execs[queue[m].body].st \notin Live
=============================================================================
