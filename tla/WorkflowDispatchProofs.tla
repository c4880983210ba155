----------------------- MODULE WorkflowDispatchProofs -----------------------
(***************************************************************************)
(* Proofs about WorkflowDispatch, for any number of messages, execution    *)
(* rows, dispatch permits, run tasks and faults.                           *)
(***************************************************************************)
EXTENDS WorkflowDispatch, JobQueueProofs

(* Zenon proves every leaf that does not cite SMTT or PTL.                 *)
USE ZenonT(60)

(***************************************************************************)
(* The inductive invariant behind single flight.  A run task is entered in *)
(* inFlight under its message, so two run tasks have two messages; and an  *)
(* execution row belongs to one message for good, so they have two rows.   *)
(***************************************************************************)
(* A row is leased to no message or to the one it was created for, and an  *)
(* HTTP handler that has not enqueued yet holds a row without a message.   *)
RowsKeepTheirMessage ==
  /\ \A e \in Execs : execs[e].lease \in {NoMsg, execs[e].msg}
  /\ \A e \in Execs : execs[e].st = "absent" => execs[e].msg = NoMsg /\ e \notin http
  /\ \A e \in http : execs[e].msg = NoMsg

(* A task about to spawn a run holds a row of its own message.             *)
TasksHoldTheirRow ==
  \A t \in Tasks :
    /\ tasks[t].pc # "idle" => tasks[t].m \in Msgs
    /\ tasks[t].pc \in {"bound", "perms", "spawn"} => tasks[t].e \in Execs
    /\ tasks[t].pc \in {"perms", "spawn"} => execs[tasks[t].e].msg = tasks[t].m

(* Run tasks hold rows of their own message, and one message each; only a  *)
(* run task renews a lease.                                                *)
RunsAreInFlight ==
  /\ \A r \in Runs : runs[r].hb => runs[r].pc # "off"
  /\ \A r \in Runs : runs[r].pc # "off" =>
       /\ runs[r].m \in inFlight
       /\ runs[r].e \in Execs /\ execs[runs[r].e].msg = runs[r].m
  /\ \A r, q \in Runs :
       r # q /\ runs[r].pc # "off" /\ runs[q].pc # "off" => runs[r].m # runs[q].m

FlightInv == TypeOK /\ RowsKeepTheirMessage /\ TasksHoldTheirRow /\ RunsAreInFlight

(***************************************************************************)
(* Type correctness.                                                       *)
(***************************************************************************)
Queue == [Msgs -> [st : QueueStates, ct : Nat, body : {NoExec} \cup Execs]]

(* Message and row ids start at 1, so that 0 names neither.                *)
LEMMA Ids == NoMsg \notin Msgs /\ NoExec \notin Execs
BY SMTT(30), QueueAssumption, DispatchAssumption DEF NoMsg, NoExec, Msgs, Execs

(* The statements of jobs.rs keep the queue a table of queue rows.         *)
LEMMA QueueStatements ==
  ASSUME queue \in Queue, NEW m \in Msgs
  PROVE  /\ complete(m) \/ fail(m) \/ dead_letter_archive(m) => queue' \in Queue
         /\ extend_lease(m) \/ lease_runs_out(m) => queue' \in Queue
         /\ read_next(m) => queue' \in Queue
         /\ \A b \in {NoExec} \cup Execs : enqueue_message(m, b) => queue' \in Queue
<1>0. Queue = QueueRows({NoExec} \cup Execs) BY DEF Queue, QueueRows
<1>1. complete(m) \/ fail(m) \/ dead_letter_archive(m) => queue' \in Queue
  BY <1>0, LeaveRows DEF Leaves
<1>2. extend_lease(m) \/ lease_runs_out(m) => queue' \in Queue
  BY <1>0, HideRows DEF Hides
<1>3. read_next(m) => queue' \in Queue
  BY <1>0, ReadRows
<1>4. \A b \in {NoExec} \cup Execs : enqueue_message(m, b) => queue' \in Queue
  BY <1>0, EnqueueRows
<1> QED BY <1>1, <1>2, <1>3, <1>4

(* A fault is counted only below its bound.                                *)
LEMMA FaultsStayBounded ==
  ASSUME faults \in [crashes : 0..MaxCrashes, errors : 0..MaxErrors],
         NoFault \/ DbError \/ Dies
  PROVE  faults' \in [crashes : 0..MaxCrashes, errors : 0..MaxErrors]
BY SMTT(30), DispatchAssumption DEF NoFault, DbError, Dies

(***************************************************************************)
(* The invariant is inductive.  One lemma per kind of step: what producers *)
(* do, what a dispatch task does, what a run task does, and the rest.      *)
(***************************************************************************)
(* The initial state satisfies the invariant.                              *)
LEMMA FlightInit == Init => FlightInv
BY SMTT(30), Ids, DispatchAssumption
DEF Init, QueueInit, FlightInv, TypeOK, QueueTypeOK, QueueStates, Row, Task, Run, TaskPcs,
    RunPcs, Live, Terminal, IdleTask, NoRun, RowsKeepTheirMessage, TasksHoldTheirRow,
    RunsAreInFlight

(* A step that only moves rows between statuses, and never leases a row to *)
(* another message, keeps what the invariant says of rows.                 *)
RowKept(e) ==
  /\ execs'[e] \in Row
  /\ execs'[e].msg = execs[e].msg
  /\ execs'[e].lease \in {NoMsg, execs[e].lease}
  /\ execs'[e].st = "absent" => execs[e].st = "absent"

(* Every UPDATE of a row's status, in the runner or the scheduler, keeps   *)
(* the row, as long as it keeps its lease or clears it.                    *)
LEMMA RowUpdate ==
  ASSUME execs \in [Execs -> Row], NEW e \in Execs,
         NEW st \in Live \cup Terminal \cup {"removed"},
         NEW lease \in {NoMsg, execs[e].lease},
         execs'[e] = [execs[e] EXCEPT !.st = st, !.lease = lease]
  PROVE  RowKept(e)
<1>1. execs[e] \in Row OBVIOUS
<1>2. execs'[e].st = st /\ execs'[e].lease = lease /\ execs'[e].msg = execs[e].msg
  BY <1>1 DEF Row
<1>3. execs'[e] \in Row BY <1>1 DEF Row, Live, Terminal
<1>4. st # "absent" BY DEF Live, Terminal
<1> QED BY <1>2, <1>3, <1>4 DEF RowKept

(* When every row is kept, rows still belong to the message they were      *)
(* created for.                                                            *)
LEMMA RowsKept ==
  ASSUME FlightInv, \A e \in Execs : RowKept(e), UNCHANGED http
  PROVE  RowsKeepTheirMessage'
<1>1. http \subseteq Execs BY DEF FlightInv, TypeOK
<1> QED BY <1>1 DEF FlightInv, RowsKeepTheirMessage, RowKept

(* Crons, hooks, the manual-run route and edits of the workflow.           *)
LEMMA ProducersKeepFlight ==
  ASSUME FlightInv,
         \/ \E m \in Msgs : Trigger(m)
         \/ \E e \in Execs : RunWorkflow(e)
         \/ \E e \in Execs, m \in Msgs : EnqueueManual(e, m)
         \/ EditWorkflow
  PROVE  FlightInv'
<1> USE Ids DEF FlightInv, TypeOK, QueueTypeOK, Queue
<1>1. ASSUME NEW m \in Msgs, Trigger(m) PROVE FlightInv'
  BY <1>1, QueueStatements DEF Trigger, RowsKeepTheirMessage, TasksHoldTheirRow, RunsAreInFlight
<1>2. ASSUME NEW e \in Execs, RunWorkflow(e) PROVE FlightInv'
  <2> USE <1>2 DEF RunWorkflow, create_execution, Absent
  <2>1. TypeOK' BY SMTT(30) DEF Row, Live
  <2>2. RowsKeepTheirMessage' BY SMTT(30) DEF Row, RowsKeepTheirMessage
  <2>3. TasksHoldTheirRow' BY SMTT(30) DEF Row, RowsKeepTheirMessage, TasksHoldTheirRow
  <2>4. RunsAreInFlight' BY SMTT(30) DEF Row, RowsKeepTheirMessage, RunsAreInFlight
  <2> QED BY <2>1, <2>2, <2>3, <2>4
<1>3. ASSUME NEW e \in Execs, NEW m \in Msgs, EnqueueManual(e, m) PROVE FlightInv'
  <2> USE <1>3 DEF EnqueueManual
  <2>a. queue' \in Queue BY QueueStatements
  <2>b. execs' \in [Execs -> Row] BY SMTT(30) DEF Row
  <2>1. TypeOK' BY <2>a, <2>b, FaultsStayBounded DEF NoFault
  <2>2. RowsKeepTheirMessage' BY SMTT(30) DEF Row, RowsKeepTheirMessage
  <2>3. TasksHoldTheirRow' BY SMTT(30) DEF Row, RowsKeepTheirMessage, TasksHoldTheirRow
  <2>4. RunsAreInFlight' BY SMTT(30) DEF Row, RowsKeepTheirMessage, RunsAreInFlight
  <2> QED BY <2>1, <2>2, <2>3, <2>4
<1>4. ASSUME EditWorkflow PROVE FlightInv'
  <2>a. ASSUME NEW e \in Execs PROVE RowKept(e)
    <3>1. \/ execs'[e] = execs[e]
          \/ execs'[e] = [execs[e] EXCEPT !.st = "removed", !.lease = NoMsg]
      BY <1>4 DEF EditWorkflow
    <3> QED BY <3>1, RowUpdate DEF RowKept
  <2>b. execs' \in [Execs -> Row] BY <1>4, <2>a DEF EditWorkflow, RowKept
  <2>c. /\ workflow' \in {"enabled", "disabled", "deleted"}
        /\ UNCHANGED <<queue, dlq, http, tasks, runs, inFlight, faults, started>>
    BY <1>4 DEF EditWorkflow
  <2>1. TypeOK' BY <2>b, <2>c
  <2>2. RowsKeepTheirMessage' BY <2>a, <2>c, RowsKept
  <2>3. TasksHoldTheirRow' BY <2>a, <2>c DEF RowKept, TasksHoldTheirRow
  <2>4. RunsAreInFlight' BY <2>a, <2>c DEF RowKept, RunsAreInFlight
  <2> QED BY <2>1, <2>2, <2>3, <2>4
<1> QED BY <1>1, <1>2, <1>3, <1>4

(* The row found for a lease belongs to that message.                      *)
LEMMA FoundRow ==
  ASSUME FlightInv, NEW m \in Msgs, NEW e, inflight_for_lease(m, e), e # NoExec
  PROVE  e \in Execs /\ execs[e].msg = m
BY Ids DEF FlightInv, RowsKeepTheirMessage, inflight_for_lease, LeaseRows

(* Moving a task, or ending it, keeps the type of the tasks.               *)
LEMMA TaskMoves ==
  ASSUME tasks \in [Tasks -> Task], NEW t \in Tasks
  PROVE  /\ Finish(t) => tasks' \in [Tasks -> Task]
         /\ \A pc \in TaskPcs : Goto(t, pc) => tasks' \in [Tasks -> Task]
BY SMTT(30) DEF Finish, Goto, Task, TaskPcs, IdleTask

(* Giving a task a row, or none, keeps the type of the tasks.              *)
LEMMA TaskBinds ==
  ASSUME tasks \in [Tasks -> Task], NEW t \in Tasks, NEW pc \in TaskPcs,
         NEW e \in {NoExec} \cup Execs,
         tasks' = [tasks EXCEPT ![t].e = e, ![t].pc = pc]
  PROVE  tasks' \in [Tasks -> Task]
BY DEF Task

(* Steps of a dispatch task that leave the rows and the runs alone.  Such  *)
(* a step keeps the invariant if the task it moves still holds its row.    *)
LEMMA TaskMoveKeepsFlight ==
  ASSUME FlightInv, NEW t \in Tasks,
         queue' \in Queue, dlq' \in [Msgs -> Nat], tasks' \in [Tasks -> Task],
         NoFault \/ DbError,
         UNCHANGED <<execs, workflow, http, runs, inFlight, started>>,
         \A u \in Tasks \ {t} : tasks'[u] = tasks[u],
         tasks'[t].pc # "idle" => tasks'[t].m \in Msgs,
         tasks'[t].pc \in {"bound", "perms", "spawn"} => tasks'[t].e \in Execs,
         tasks'[t].pc \in {"perms", "spawn"} => execs[tasks'[t].e].msg = tasks'[t].m
  PROVE  FlightInv'
<1>1. TypeOK' BY FaultsStayBounded DEF FlightInv, TypeOK, QueueTypeOK, Queue
<1>2. RowsKeepTheirMessage' BY DEF FlightInv, RowsKeepTheirMessage
<1>3. TasksHoldTheirRow' BY DEF FlightInv, TasksHoldTheirRow
<1>4. RunsAreInFlight' BY DEF FlightInv, RunsAreInFlight
<1> QED BY <1>1, <1>2, <1>3, <1>4 DEF FlightInv

(* Every statement of a dispatch task, one case per action.                *)
LEMMA TasksKeepFlight ==
  ASSUME FlightInv, NEW t \in Tasks, TaskStep(t) \/ \E m \in Msgs : Poll(t, m)
  PROVE  FlightInv'
<1> DEFINE m == tasks[t].m
<1>0. /\ queue \in Queue /\ dlq \in [Msgs -> Nat] /\ tasks \in [Tasks -> Task]
      /\ tasks[t].pc # "idle" => m \in Msgs
      /\ tasks[t].pc \in {"bound", "perms", "spawn"} => tasks[t].e \in Execs
      /\ tasks[t].pc \in {"perms", "spawn"} => execs[tasks[t].e].msg = m
  BY DEF FlightInv, TypeOK, QueueTypeOK, Queue, TasksHoldTheirRow
<1> HIDE DEF m
<1>1. ASSUME NEW k \in Msgs, Poll(t, k) PROVE FlightInv'
  <2>1. queue' \in Queue BY <1>0, <1>1, QueueStatements DEF Poll
  <2>2. tasks' \in [Tasks -> Task]
    BY SMTT(30), <1>0, <1>1 DEF Poll, Task, TaskPcs, Queue
  <2> QED BY <1>0, <1>1, <2>1, <2>2, TaskMoveKeepsFlight DEF Poll, Task, NoFault
<1>2. CASE Lookup(t)
  BY SMTT(30), <1>0, <1>2, TaskMoves, TaskMoveKeepsFlight DEF Lookup, Goto, At, Task, TaskPcs, NoFault, m
<1>3. CASE Gate(t)
  BY SMTT(30), <1>0, <1>3, TaskMoves, TaskMoveKeepsFlight DEF Gate, Goto, At, Task, TaskPcs, NoFault, m
<1>4. CASE Perms(t)
  BY SMTT(30), <1>0, <1>4, TaskMoves, TaskMoveKeepsFlight DEF Perms, Goto, At, Task, TaskPcs, NoFault, m
<1>5. CASE CheckBound(t)
  <2>1. m \in Msgs /\ tasks[t].e \in Execs /\ queue' \in Queue /\ dlq' = dlq
    BY <1>0, <1>5 DEF CheckBound, At
  <2>2. execs[tasks[t].e].lease = m => execs[tasks[t].e].msg = m
    BY <2>1, Ids DEF FlightInv, RowsKeepTheirMessage
  <2> QED
    BY SMTT(30), <1>0, <1>5, <2>1, <2>2, TaskMoves, TaskMoveKeepsFlight
    DEF CheckBound, Goto, At, Task, TaskPcs, NoFault, m
<1>6. CASE FailJob(t)
  BY <1>0, <1>6, TaskMoves, TaskMoveKeepsFlight, QueueStatements
  DEF FailJob, LastStatement, Finish, At, IdleTask, NoFault, m
<1>7. CASE DlqArchive(t)
  BY <1>0, <1>7, TaskMoves, TaskMoveKeepsFlight, QueueStatements
  DEF DlqArchive, LastStatement, Finish, At, IdleTask, NoFault, m
<1>8. CASE FailDenied(t)
  BY <1>0, <1>8, TaskMoves, TaskMoveKeepsFlight, QueueStatements
  DEF FailDenied, Goto, At, Task, TaskPcs, NoFault, m
<1>9. CASE DlqSend(t)
  BY SMTT(30), <1>0, <1>9, TaskMoves, TaskMoveKeepsFlight
  DEF DlqSend, dead_letter_send, Finish, Goto, At, Task, TaskPcs, IdleTask, NoFault, m
<1>10. CASE Bind(t)
  <2>1. m \in Msgs /\ queue' \in Queue /\ dlq' = dlq BY <1>0, <1>10 DEF Bind, At
  <2>2. ASSUME FindExec(t, "create", "spawn"), NoFault PROVE FlightInv'
    <3>1. PICK e \in {NoExec} \cup Execs :
            /\ inflight_for_lease(m, e)
            /\ tasks' = [tasks EXCEPT ![t].e = e,
                           ![t].pc = IF e = NoExec THEN "create" ELSE "spawn"]
      BY <2>2 DEF FindExec, m
    <3>2. e # NoExec => e \in Execs /\ execs[e].msg = m
      BY <2>1, <3>1, FoundRow
    <3>3. tasks' \in [Tasks -> Task]
      <4>1. (IF e = NoExec THEN "create" ELSE "spawn") \in TaskPcs BY DEF TaskPcs
      <4> QED BY <1>0, <3>1, <4>1, TaskBinds
    <3> QED
      BY <1>0, <1>10, <2>1, <2>2, <3>1, <3>2, <3>3, TaskMoveKeepsFlight DEF Bind, Task, m
  <2>3. ASSUME DbError, Goto(t, "create") PROVE FlightInv'
    BY <1>0, <1>10, <2>1, <2>3, TaskMoves, TaskMoveKeepsFlight DEF Bind, Goto, Task, TaskPcs, m
  <2> QED BY <1>10, <2>2, <2>3 DEF Bind
<1>11. CASE DlqFind(t)
  <2>1. m \in Msgs /\ queue' \in Queue /\ dlq' = dlq BY <1>0, <1>11 DEF DlqFind, At
  <2>2. ASSUME FindExec(t, "dlqSend", "dlqFailExec"), NoFault PROVE FlightInv'
    <3>1. PICK e \in {NoExec} \cup Execs :
            tasks' = [tasks EXCEPT ![t].e = e,
                        ![t].pc = IF e = NoExec THEN "dlqSend" ELSE "dlqFailExec"]
      BY <2>2 DEF FindExec
    <3>2. tasks' \in [Tasks -> Task]
      <4>1. (IF e = NoExec THEN "dlqSend" ELSE "dlqFailExec") \in TaskPcs BY DEF TaskPcs
      <4> QED BY <1>0, <3>1, <4>1, TaskBinds
    <3> QED
      BY <1>0, <1>11, <2>1, <2>2, <3>1, <3>2, TaskMoveKeepsFlight DEF DlqFind, Task, m
  <2>3. ASSUME DbError, Goto(t, "dlqSend") PROVE FlightInv'
    BY <1>0, <1>11, <2>1, <2>3, TaskMoves, TaskMoveKeepsFlight DEF DlqFind, Goto, Task, TaskPcs, m
  <2> QED BY <1>11, <2>2, <2>3 DEF DlqFind
<1>12. CASE FailExec(t)
  <2>1. tasks' \in [Tasks -> Task] /\ \A u \in Tasks \ {t} : tasks'[u] = tasks[u]
    BY <1>0, <1>12, TaskMoves DEF FailExec, At, Finish, Goto, TaskPcs
  <2>2. tasks'[t].pc \in {"idle", "dlqSend"}
    <3>1. CASE Finish(t) BY <1>0, <3>1 DEF Finish, IdleTask
    <3>2. CASE Goto(t, "dlqSend") BY <1>0, <3>2 DEF Goto, Task
    <3> QED BY <1>12, <3>1, <3>2 DEF FailExec
  <2>3. tasks'[t].pc # "idle" => tasks'[t].m \in Msgs
    <3>1. CASE Finish(t) BY <1>0, <3>1 DEF Finish, IdleTask
    <3>2. CASE Goto(t, "dlqSend") BY <1>0, <1>12, <3>2 DEF FailExec, At, Goto, Task, m
    <3> QED BY <1>12, <3>1, <3>2 DEF FailExec
  <2>4. ASSUME NEW e \in Execs PROVE RowKept(e)
    <3>1. \/ execs'[e] = execs[e]
          \/ execs'[e] = [execs[e] EXCEPT !.st = "failed", !.lease = NoMsg]
      BY <1>12 DEF FailExec, fail_execution, FlightInv, TypeOK
    <3> QED BY <3>1, RowUpdate DEF RowKept, FlightInv, TypeOK, Terminal
  <2>5. execs' \in [Execs -> Row]
    BY <1>12, <2>4 DEF FailExec, fail_execution, FlightInv, TypeOK, RowKept
  <2>6. /\ NoFault \/ DbError
        /\ UNCHANGED <<queue, dlq, workflow, http, runs, inFlight, started>>
    BY <1>12 DEF FailExec
  <2>7. TypeOK' BY <2>1, <2>5, <2>6, FaultsStayBounded DEF FlightInv, TypeOK, QueueTypeOK
  <2>8. RowsKeepTheirMessage' BY <2>4, <2>6, RowsKept
  <2>9. TasksHoldTheirRow' BY SMTT(30), <2>1, <2>2, <2>3, <2>4 DEF FlightInv, TasksHoldTheirRow, RowKept
  <2>10. RunsAreInFlight' BY <2>4, <2>6 DEF FlightInv, RunsAreInFlight, RowKept
  <2> QED BY <2>7, <2>8, <2>9, <2>10 DEF FlightInv
<1>13. ASSUME NEW e \in Execs, Create(t, e) PROVE FlightInv'
  <2>0. /\ m \in Msgs
        /\ UNCHANGED <<queue, dlq, workflow, http, runs, inFlight, started>>
    BY <1>0, <1>13 DEF Create, At
  <2>1. ASSUME Goto(t, "fail"), NoFault \/ DbError, UNCHANGED execs PROVE FlightInv'
    BY <1>0, <2>0, <2>1, TaskMoves, TaskMoveKeepsFlight DEF Goto, Task, TaskPcs, m
  <2>2. ASSUME create_execution(e, m), NoFault,
               tasks' = [tasks EXCEPT ![t].e = e, ![t].pc = "spawn"]
        PROVE  FlightInv'
    <3>1. /\ execs[e].st = "absent" /\ execs[e].msg = NoMsg /\ e \notin http
          /\ execs \in [Execs -> Row] /\ inFlight \subseteq Msgs
      BY <2>2 DEF create_execution, Absent, FlightInv, TypeOK, RowsKeepTheirMessage
    <3>2. PICK v \in BOOLEAN :
            execs' = [execs EXCEPT ![e] =
                        [st |-> "queued", lease |-> m, valid |-> v, msg |-> m]]
      BY <2>2 DEF create_execution
    <3>3. execs' \in [Execs -> Row] BY <2>0, <3>1, <3>2 DEF Row, Live
    <3>4. /\ execs'[e].msg = m /\ execs'[e].lease = m /\ execs'[e].st = "queued"
          /\ \A k \in Execs \ {e} : execs'[k] = execs[k]
      BY <3>1, <3>2
    <3>5. tasks' \in [Tasks -> Task] BY <1>0, <2>2 DEF Task, TaskPcs
    <3>6. TypeOK'
      BY <2>0, <2>2, <3>3, <3>5 DEF NoFault, FlightInv, TypeOK, QueueTypeOK
    <3>7. RowsKeepTheirMessage'
      BY <2>0, <3>1, <3>4 DEF FlightInv, RowsKeepTheirMessage, TypeOK
    <3>8. TasksHoldTheirRow'
      BY SMTT(30), <1>0, <2>0, <2>2, <3>1, <3>4, Ids DEF FlightInv, TasksHoldTheirRow, Task, m
    <3>9. RunsAreInFlight'
      BY SMTT(30), <2>0, <3>1, <3>4, Ids DEF FlightInv, RunsAreInFlight
    <3> QED BY <3>6, <3>7, <3>8, <3>9 DEF FlightInv
  <2> QED BY <1>13, <2>1, <2>2 DEF Create, m
<1>14. ASSUME NEW r \in Runs, Spawn(t, r) PROVE FlightInv'
  <2>0. /\ m \in Msgs /\ tasks[t].e \in Execs /\ execs[tasks[t].e].msg = m
        /\ UNCHANGED <<queue, dlq, execs, workflow, http, faults>>
    BY <1>0, <1>14 DEF Spawn, At
  <2>1. /\ tasks' \in [Tasks -> Task] /\ tasks'[t].pc = "idle"
        /\ \A u \in Tasks \ {t} : tasks'[u] = tasks[u]
    BY <1>0, <1>14, TaskMoves DEF Spawn, Finish, IdleTask
  <2>2. RowsKeepTheirMessage' BY <2>0 DEF FlightInv, RowsKeepTheirMessage
  <2>3. TasksHoldTheirRow' BY <2>0, <2>1 DEF FlightInv, TasksHoldTheirRow
  <2>4. CASE UNCHANGED <<inFlight, runs, started>>
    <3>1. TypeOK' BY <2>0, <2>1, <2>4 DEF FlightInv, TypeOK, QueueTypeOK
    <3>2. RunsAreInFlight' BY <2>0, <2>4 DEF FlightInv, RunsAreInFlight
    <3> QED BY <2>2, <2>3, <3>1, <3>2 DEF FlightInv
  <2>5. ASSUME m \notin inFlight, runs[r].pc = "off", inFlight' = inFlight \cup {m},
               started' = [started EXCEPT ![m] = @ \cup {tasks[t].ct}],
               runs' = [runs EXCEPT ![r] = [NoRun EXCEPT !.pc = "load", !.m = m,
                                                         !.e = tasks[t].e]]
        PROVE  FlightInv'
    <3>0. runs \in [Runs -> Run] /\ started \in [Msgs -> SUBSET Nat] /\ tasks[t].ct \in Nat
      BY <1>0 DEF FlightInv, TypeOK, Task
    <3>1. /\ runs'[r] \in Run /\ runs'[r].m = m /\ runs'[r].e = tasks[t].e /\ runs'[r].pc = "load"
          /\ \A q \in Runs \ {r} : runs'[q] = runs[q]
      BY <2>0, <2>5, <3>0 DEF NoRun, Run, RunPcs, Terminal
    <3>2. runs' \in [Runs -> Run] BY <2>5, <3>0, <3>1
    <3>3. started' \in [Msgs -> SUBSET Nat] BY <2>0, <2>5, <3>0
    <3>4. TypeOK' BY <2>0, <2>1, <2>5, <3>2, <3>3 DEF FlightInv, TypeOK, QueueTypeOK
    <3>5. RunsAreInFlight'
      BY SMTT(30), <2>0, <2>5, <3>1 DEF FlightInv, RunsAreInFlight
    <3> QED BY <2>2, <2>3, <3>4, <3>5 DEF FlightInv
  <2> QED BY <1>14, <2>4, <2>5 DEF Spawn, RunAt, m
<1> QED
  BY <1>1, <1>2, <1>3, <1>4, <1>5, <1>6, <1>7, <1>8, <1>9, <1>10, <1>11, <1>12, <1>13, <1>14
  DEF TaskStep

(* A step of a run task: it keeps its message and its row, or ends.        *)
RunKept(r) ==
  /\ runs' \in [Runs -> Run]
  /\ \A q \in Runs \ {r} : runs'[q] = runs[q]
  /\ runs[r].pc # "off" /\ runs'[r].pc # "off"
  /\ runs'[r].m = runs[r].m /\ runs'[r].e = runs[r].e
  /\ UNCHANGED inFlight

(* A step that advances one run task, or ends it with its guard, keeps the *)
(* invariant: the message of a run that goes on stays in flight.           *)
LEMMA RunMoveKeepsFlight ==
  ASSUME FlightInv, NEW r \in Runs, queue' \in Queue,
         execs' \in [Execs -> Row], \A e \in Execs : RowKept(e),
         NoFault \/ DbError \/ Dies,
         UNCHANGED <<dlq, workflow, http, tasks, started>>,
         RunKept(r) \/ (EndRun(r) /\ runs[r].pc # "off")
  PROVE  FlightInv'
<1>0. runs \in [Runs -> Run] BY DEF FlightInv, TypeOK
<1>1. RowsKeepTheirMessage' BY RowsKept
<1>2. TasksHoldTheirRow' BY DEF FlightInv, TasksHoldTheirRow, RowKept
<1>3. RunsAreInFlight BY DEF FlightInv
<1>4. \A e \in Execs : execs'[e].msg = execs[e].msg BY DEF RowKept
<1>5. CASE RunKept(r)
  <2>1. TypeOK' BY <1>5, FaultsStayBounded DEF FlightInv, TypeOK, QueueTypeOK, Queue, RunKept
  <2>2. RunsAreInFlight'
    <3>1. ASSUME NEW q \in Runs, runs'[q].pc # "off"
          PROVE  runs[q].pc # "off" /\ runs'[q].m = runs[q].m /\ runs'[q].e = runs[q].e
      BY <1>5, <3>1 DEF RunKept
    <3>2. \A q \in Runs : runs'[q].hb => runs'[q].pc # "off"
      BY <1>5, <1>3 DEF RunKept, RunsAreInFlight
    <3>3. \A q \in Runs : runs'[q].pc # "off" =>
            runs'[q].m \in inFlight' /\ runs'[q].e \in Execs /\ execs'[runs'[q].e].msg = runs'[q].m
      BY SMTT(30), <1>5, <1>3, <1>4, <3>1 DEF RunKept, RunsAreInFlight
    <3>4. \A q, k \in Runs : q # k /\ runs'[q].pc # "off" /\ runs'[k].pc # "off" => runs'[q].m # runs'[k].m
      BY SMTT(30), <1>3, <3>1 DEF RunsAreInFlight
    <3> QED BY <3>2, <3>3, <3>4 DEF RunsAreInFlight
  <2> QED BY <1>1, <1>2, <2>1, <2>2 DEF FlightInv
<1>6. CASE EndRun(r) /\ runs[r].pc # "off"
  <2>1. /\ runs' \in [Runs -> Run] /\ runs'[r].pc = "off" /\ ~runs'[r].hb
        /\ \A q \in Runs \ {r} : runs'[q] = runs[q]
        /\ inFlight' = inFlight \ {runs[r].m}
    BY <1>0, <1>6 DEF EndRun, NoRun, Run, RunPcs, Terminal
  <2>2. TypeOK' BY <2>1, FaultsStayBounded DEF FlightInv, TypeOK, QueueTypeOK, Queue
  <2>3. RunsAreInFlight'
    <3>1. ASSUME NEW q \in Runs, runs'[q].pc # "off"
          PROVE  q # r /\ runs[q].pc # "off" /\ runs'[q] = runs[q]
      BY <2>1, <3>1
    <3>2. \A q \in Runs : runs'[q].hb => runs'[q].pc # "off"
      BY <1>3, <2>1 DEF RunsAreInFlight
    <3>3. \A q \in Runs : runs'[q].pc # "off" =>
            runs'[q].m \in inFlight' /\ runs'[q].e \in Execs /\ execs'[runs'[q].e].msg = runs'[q].m
      BY SMTT(30), <1>6, <1>3, <1>4, <2>1, <3>1 DEF RunsAreInFlight
    <3>4. \A q, k \in Runs : q # k /\ runs'[q].pc # "off" /\ runs'[k].pc # "off" => runs'[q].m # runs'[k].m
      BY SMTT(30), <1>3, <3>1 DEF RunsAreInFlight
    <3> QED BY <3>2, <3>3, <3>4 DEF RunsAreInFlight
  <2> QED BY <1>1, <1>2, <2>2, <2>3 DEF FlightInv
<1> QED BY <1>5, <1>6

(* Every statement of a run task, one case per action.                     *)
LEMMA RunsKeepFlight ==
  ASSUME FlightInv, NEW r \in Runs, RunStep(r) \/ HeartbeatGivesUp(r) \/ Renew(r)
  PROVE  FlightInv'
<1>0. /\ queue \in Queue /\ execs \in [Execs -> Row] /\ runs \in [Runs -> Run]
      /\ runs[r].pc # "off" => runs[r].m \in Msgs /\ runs[r].e \in Execs
  BY DEF FlightInv, TypeOK, QueueTypeOK, Queue, RunsAreInFlight
<1>1. ASSUME UNCHANGED execs PROVE execs' \in [Execs -> Row] /\ \A e \in Execs : RowKept(e)
  BY <1>0, <1>1 DEF RowKept
<1>2. ASSUME NEW st \in Live \cup Terminal, NEW lease \in {NoMsg, execs[runs[r].e].lease},
             SetStatus(runs[r].e, st, lease), runs[r].pc # "off"
      PROVE  execs' \in [Execs -> Row] /\ \A e \in Execs : RowKept(e)
  <2>1. ASSUME NEW e \in Execs PROVE RowKept(e)
    <3>1. CASE execs'[e] = execs[e] BY <1>0, <3>1 DEF RowKept
    <3>2. CASE e = runs[r].e /\ execs'[e] = [execs[e] EXCEPT !.st = st, !.lease = lease]
      BY <1>0, <3>2, RowUpdate
    <3> QED BY <1>0, <1>2, <3>1, <3>2 DEF SetStatus
  <2> QED BY <1>0, <1>2, <2>1 DEF SetStatus, RowKept
<1>3. CASE RunLoad(r)
  <2>1. /\ queue' \in Queue /\ runs[r].pc # "off"
        /\ NoFault \/ DbError
        /\ UNCHANGED <<execs, dlq, workflow, http, tasks, started>>
    BY <1>0, <1>3 DEF RunLoad, RunErr, RunAt, NoFault
  <2>2. RunKept(r) \/ EndRun(r)
    <3>1. ASSUME runs' = [runs EXCEPT ![r].pc = "start", ![r].hb = TRUE], UNCHANGED inFlight
          PROVE  RunKept(r)
      BY <1>0, <2>1, <3>1 DEF RunKept, Run, RunPcs
    <3> QED BY <1>3, <3>1 DEF RunLoad, RunErr
  <2> QED BY <1>1, <2>1, <2>2, RunMoveKeepsFlight
<1>4. CASE RunStart(r)
  <2>1. CASE DbError /\ RunErr(r)
    BY <1>0, <1>1, <1>4, <2>1, RunMoveKeepsFlight DEF RunStart, RunErr, RunAt
  <2>2. CASE SetStatus(runs[r].e, "running", execs[runs[r].e].lease) /\ RunGoto(r, "nodes")
             /\ UNCHANGED <<queue, faults>>
    <3>1. RunKept(r) BY <1>0, <1>4, <2>2 DEF RunStart, RunAt, RunGoto, RunKept, Run, RunPcs
    <3>2. execs' \in [Execs -> Row] /\ \A e \in Execs : RowKept(e)
      BY <1>2, <1>4, <2>2 DEF Live, RunStart, RunAt
    <3> QED BY <1>0, <1>4, <2>2, <3>1, <3>2, RunMoveKeepsFlight DEF RunStart, NoFault
  <2> QED BY <1>4, <2>1, <2>2 DEF RunStart
<1>5. CASE RunNodes(r)
  <2>1. /\ queue' \in Queue /\ runs[r].pc # "off"
        /\ NoFault \/ Dies
        /\ UNCHANGED <<execs, dlq, workflow, http, tasks, started>>
    BY <1>0, <1>5 DEF RunNodes, RunErr, RunAt, NoFault
  <2>2. RunKept(r) \/ EndRun(r)
    <3>1. ASSUME NEW res \in Terminal, UNCHANGED inFlight,
                 runs' = [runs EXCEPT ![r].pc = "final", ![r].res = res]
          PROVE  RunKept(r)
      BY <1>0, <2>1, <3>1 DEF RunKept, Run, RunPcs
    <3> QED BY <1>5, <3>1 DEF RunNodes, RunErr
  <2> QED BY <1>1, <2>1, <2>2, RunMoveKeepsFlight
<1>6. CASE RunFinal(r)
  <2>1. CASE DbError /\ RunErr(r)
    BY <1>0, <1>1, <1>6, <2>1, RunMoveKeepsFlight DEF RunFinal, RunErr, RunAt
  <2>2. CASE SetStatus(runs[r].e, runs[r].res, NoMsg)
             /\ runs' = [runs EXCEPT ![r].pc = "complete", ![r].hb = FALSE]
             /\ UNCHANGED <<queue, inFlight, faults>>
    <3>1. RunKept(r) BY <1>0, <1>6, <2>2 DEF RunFinal, RunAt, RunKept, Run, RunPcs
    <3>2. runs[r].res \in Terminal BY <1>0 DEF Run
    <3>3. execs' \in [Execs -> Row] /\ \A e \in Execs : RowKept(e)
      BY <1>2, <1>6, <2>2, <3>2 DEF RunFinal, RunAt
    <3> QED BY <1>0, <1>6, <2>2, <3>1, <3>3, RunMoveKeepsFlight DEF RunFinal, NoFault
  <2> QED BY <1>6, <2>1, <2>2 DEF RunFinal
<1>7. CASE RunComplete(r)
  BY <1>0, <1>1, <1>7, QueueStatements, RunMoveKeepsFlight DEF RunComplete, RunAt, NoFault
<1>8. CASE HeartbeatGivesUp(r)
  <2>1. runs[r].pc # "off" BY <1>8 DEF HeartbeatGivesUp, FlightInv, RunsAreInFlight
  <2>2. RunKept(r) BY <1>0, <1>8, <2>1 DEF HeartbeatGivesUp, RunKept, Run
  <2> QED BY <1>0, <1>1, <1>8, <2>2, RunMoveKeepsFlight DEF HeartbeatGivesUp, NoFault
<1>9. CASE Renew(r)
  <2>1. runs[r].pc # "off" BY <1>9 DEF Renew, FlightInv, RunsAreInFlight
  <2>2. RunKept(r) BY <1>0, <1>9, <2>1 DEF Renew, RunKept
  <2>3. queue' \in Queue BY <1>0, <1>9, <2>1, QueueStatements DEF Renew
  <2> QED BY <1>0, <1>1, <1>9, <2>2, <2>3, RunMoveKeepsFlight DEF Renew, NoFault
<1> QED
  BY <1>3, <1>4, <1>5, <1>6, <1>7, <1>8, <1>9 DEF RunStep

(* Heartbeats, expiring leases and the crash of the process.               *)
LEMMA OthersKeepFlight ==
  ASSUME FlightInv, Crash \/ (\E m \in Msgs : LeaseExpires(m)) \/ UNCHANGED vars
  PROVE  FlightInv'
<1> USE DEF FlightInv, TypeOK, QueueTypeOK
<1>1. CASE UNCHANGED vars
  BY <1>1 DEF vars, RowsKeepTheirMessage, TasksHoldTheirRow, RunsAreInFlight
<1>2. ASSUME NEW m \in Msgs, LeaseExpires(m) PROVE FlightInv'
  <2>1. queue' \in Queue BY <1>2, QueueStatements DEF LeaseExpires, Queue
  <2>2. TypeOK' BY <1>2, <2>1, FaultsStayBounded DEF LeaseExpires, Queue
  <2>3. UNCHANGED <<execs, http, tasks, runs, inFlight>> BY <1>2 DEF LeaseExpires
  <2> QED BY <2>2, <2>3 DEF RowsKeepTheirMessage, TasksHoldTheirRow, RunsAreInFlight
<1>3. CASE Crash
  <2>1. TypeOK'
    BY <1>3, FaultsStayBounded DEF Crash, IdleTask, NoRun, Task, Run, TaskPcs, RunPcs, Terminal
  <2>2. RowsKeepTheirMessage' BY <1>3 DEF Crash, RowsKeepTheirMessage
  <2>3. TasksHoldTheirRow' BY <1>3 DEF Crash, TasksHoldTheirRow, IdleTask
  <2>4. RunsAreInFlight' BY <1>3 DEF Crash, RunsAreInFlight, NoRun
  <2> QED BY <2>1, <2>2, <2>3, <2>4
<1> QED BY <1>1, <1>2, <1>3

(* Every reachable state satisfies the invariant.                          *)
THEOREM FlightInvariant == Spec => []FlightInv
<1>1. FlightInv /\ [Next]_vars => FlightInv'
  BY ProducersKeepFlight, TasksKeepFlight, RunsKeepFlight, OthersKeepFlight DEF Next
<1> QED BY FlightInit, <1>1, PTL DEF Spec

(* The queue, the rows and the tasks stay within their types, whatever     *)
(* fails, crashes or is redelivered.                                       *)
THEOREM DispatchTypeCorrect == Spec => []TypeOK
<1>1. FlightInv => TypeOK BY DEF FlightInv
<1> QED BY FlightInvariant, <1>1, PTL

(* spawn_workflow_run's in_flight set is enough: no execution row is ever  *)
(* driven by two run tasks at once.                                        *)
THEOREM DispatchSingleFlight == Spec => []SingleFlight
<1>1. FlightInv => SingleFlight
  BY SMTT(30) DEF FlightInv, RunsAreInFlight, SingleFlight, RunAt
<1> QED BY FlightInvariant, <1>1, PTL

(***************************************************************************)
(* A succeeded execution stays succeeded.  The UPDATEs of a run carry no   *)
(* condition on the status, so this rests on single flight: the only run   *)
(* that could overwrite the row is the one that wrote it, and it is done.  *)
(***************************************************************************)
Driving == {"start", "nodes", "final"}

DrivenInv == \A r \in Runs : runs[r].pc \in Driving => execs[runs[r].e].st # "succeeded"

(* Steps that write a row are these; what they do to a succeeded one.      *)
LEMMA StatusStep ==
  ASSUME FlightInv, DrivenInv, [Next]_vars, NEW e \in Execs
  PROVE  /\ execs[e].st = "succeeded" => execs'[e].st \in {"succeeded", "removed"}
         /\ execs'[e].st = "succeeded" =>
              \/ execs[e].st = "succeeded"
              \/ \E r \in Runs : runs[r].pc = "final" /\ runs'[r].pc = "complete" /\ runs[r].e = e
<1> DEFINE Goal ==
      /\ execs[e].st = "succeeded" => execs'[e].st \in {"succeeded", "removed"}
      /\ execs'[e].st = "succeeded" =>
           \/ execs[e].st = "succeeded"
           \/ \E r \in Runs : runs[r].pc = "final" /\ runs'[r].pc = "complete" /\ runs[r].e = e
<1>0. execs \in [Execs -> Row] /\ runs \in [Runs -> Run]
  BY DEF FlightInv, TypeOK
<1>1. ASSUME UNCHANGED execs PROVE Goal
  BY <1>1
<1>2. ASSUME NEW k \in Execs, NEW m, create_execution(k, m) PROVE Goal
  BY SMTT(30), <1>0, <1>2 DEF create_execution, Absent
<1>3. ASSUME NEW k \in Execs, NEW m \in Msgs, EnqueueManual(k, m) PROVE Goal
  BY <1>0, <1>3 DEF EnqueueManual, Row
<1>4. ASSUME EditWorkflow PROVE Goal
  <2>1. \/ execs'[e] = execs[e]
        \/ execs'[e] = [execs[e] EXCEPT !.st = "removed", !.lease = NoMsg]
    BY <1>4 DEF EditWorkflow
  <2>2. execs[e] \in Row BY <1>0
  <2>3. execs'[e] = execs[e] \/ execs'[e].st = "removed" BY <2>1, <2>2 DEF Row
  <2> QED BY <2>3
<1>5. ASSUME NEW t \in Tasks, FailExec(t) PROVE Goal
  <2>1. \/ execs'[e] = execs[e]
        \/ execs[e].st \in Live /\ execs'[e] = [execs[e] EXCEPT !.st = "failed", !.lease = NoMsg]
    BY <1>0, <1>5 DEF FailExec, fail_execution
  <2> QED BY <1>0, <2>1 DEF Row, Live
<1>6. ASSUME NEW r \in Runs, RunStart(r) PROVE Goal
  <2>1. execs[runs[r].e].st # "succeeded" BY <1>6 DEF RunStart, RunAt, DrivenInv, Driving
  <2>2. \/ execs'[e] = execs[e]
        \/ e = runs[r].e /\ execs'[e] = [execs[e] EXCEPT !.st = "running", !.lease = execs[e].lease]
    BY <1>0, <1>6 DEF RunStart, RunErr, SetStatus
  <2> QED BY <1>0, <2>1, <2>2 DEF Row
<1>7. ASSUME NEW r \in Runs, RunFinal(r) PROVE Goal
  <2>1. execs[runs[r].e].st # "succeeded" BY <1>7 DEF RunFinal, RunAt, DrivenInv, Driving
  <2>2. CASE UNCHANGED execs BY <1>1, <2>2
  <2>3. CASE /\ SetStatus(runs[r].e, runs[r].res, NoMsg)
             /\ runs' = [runs EXCEPT ![r].pc = "complete", ![r].hb = FALSE]
    <3>1. runs'[r].pc = "complete" /\ runs[r].pc = "final"
      BY <1>0, <1>7, <2>3 DEF RunFinal, RunAt, Run
    <3>2. e # runs[r].e => execs'[e] = execs[e] BY <1>0, <2>3 DEF SetStatus
    <3> QED BY <2>1, <3>1, <3>2
  <2> QED BY <1>7, <2>2, <2>3 DEF RunFinal, RunErr
<1>8. ASSUME NEW t \in Tasks, TaskStep(t) PROVE Goal
  BY <1>1, <1>2, <1>5, <1>8
  DEF TaskStep, Lookup, Gate, Bind, FailJob, CheckBound, Perms, FailDenied, DlqFind, DlqSend,
      DlqArchive, Create, Spawn, LastStatement
<1>9. ASSUME NEW r \in Runs, RunStep(r) \/ HeartbeatGivesUp(r) \/ Renew(r) PROVE Goal
  BY <1>1, <1>6, <1>7, <1>9
  DEF RunStep, RunLoad, RunNodes, RunComplete, RunErr, HeartbeatGivesUp, Renew
<1> QED
  BY <1>1, <1>2, <1>3, <1>4, <1>8, <1>9
  DEF Next, Trigger, LeaseExpires, RunWorkflow, Poll, Crash, vars

(* A run starts driving a row it has just read as live, and drives no      *)
(* other.                                                                  *)
LEMMA DrivingStep ==
  ASSUME FlightInv, [Next]_vars, NEW r \in Runs, runs'[r].pc \in Driving
  PROVE  /\ runs'[r].e = runs[r].e
         /\ \/ runs[r].pc \in Driving
            \/ UNCHANGED execs /\ execs[runs[r].e].st \in Live
<1> DEFINE Goal ==
      /\ runs'[r].e = runs[r].e
      /\ \/ runs[r].pc \in Driving
         \/ UNCHANGED execs /\ execs[runs[r].e].st \in Live
<1>0. runs \in [Runs -> Run] BY DEF FlightInv, TypeOK
<1>1. ASSUME UNCHANGED runs PROVE Goal
  BY <1>1
<1>2. ASSUME NEW q \in Runs, EndRun(q) PROVE Goal
  BY <1>0, <1>2 DEF EndRun, NoRun, Driving
<1>3. ASSUME NEW t \in Tasks, NEW q \in Runs, Spawn(t, q) PROVE Goal
  <2>1. ASSUME NEW mm, NEW e,
               runs' = [runs EXCEPT ![q] = [NoRun EXCEPT !.pc = "load", !.m = mm, !.e = e]]
        PROVE  Goal
    <3>1. runs'[q].pc = "load" BY <1>0, <2>1 DEF NoRun
    <3>2. q # r BY <3>1 DEF Driving
    <3> QED BY <1>0, <2>1, <3>2
  <2> QED BY <1>1, <1>3, <2>1 DEF Spawn
<1>4. ASSUME NEW q \in Runs, RunLoad(q) PROVE Goal
  <2>1. CASE /\ execs[runs[q].e].st \in Live /\ UNCHANGED execs
             /\ runs' = [runs EXCEPT ![q].pc = "start", ![q].hb = TRUE]
    BY <1>0, <2>1 DEF Run
  <2> QED BY <1>2, <1>4, <2>1 DEF RunLoad, RunErr
<1>5. ASSUME NEW q \in Runs, RunStart(q) PROVE Goal
  BY SMTT(30), <1>0, <1>2, <1>5 DEF RunStart, RunErr, RunGoto, RunAt, Run, Driving
<1>6. ASSUME NEW q \in Runs, RunNodes(q) PROVE Goal
  BY SMTT(30), <1>0, <1>2, <1>6 DEF RunNodes, RunErr, RunAt, Run, Driving
<1>7. ASSUME NEW q \in Runs, RunFinal(q) PROVE Goal
  BY <1>0, <1>2, <1>7 DEF RunFinal, RunErr, RunAt, Run, Driving
<1>8. ASSUME NEW q \in Runs, RunComplete(q) PROVE Goal
  BY <1>2, <1>8 DEF RunComplete
<1>9. ASSUME NEW q \in Runs, HeartbeatGivesUp(q) PROVE Goal
  BY <1>0, <1>9 DEF HeartbeatGivesUp, Run
<1>10. ASSUME Crash PROVE Goal
  BY <1>10 DEF Crash, NoRun, Driving
<1>11. ASSUME NEW t \in Tasks, TaskStep(t) PROVE Goal
  BY <1>1, <1>3, <1>11
  DEF TaskStep, Lookup, Gate, Bind, FailJob, CheckBound, Perms, FailDenied, FailExec, DlqFind,
      DlqSend, DlqArchive, Create, LastStatement
<1> QED
  BY <1>1, <1>4, <1>5, <1>6, <1>7, <1>8, <1>9, <1>10, <1>11
  DEF Next, Trigger, LeaseExpires, RunWorkflow, EnqueueManual, EditWorkflow, Poll, RunStep,
      Renew, vars

(* No step makes a row under a driving run read succeeded, so that the     *)
(* unguarded UPDATE to running cannot overwrite a success.                 *)
LEMMA DrivenStep ==
  ASSUME FlightInv, DrivenInv, [Next]_vars
  PROVE  DrivenInv'
<1> SUFFICES ASSUME NEW r \in Runs, runs'[r].pc \in Driving, execs'[runs'[r].e].st = "succeeded"
             PROVE  FALSE
  BY DEF DrivenInv
<1>1. runs'[r].e = runs[r].e BY DrivingStep
<1>2. CASE runs[r].pc \in Driving
  <2>1. runs[r].e \in Execs /\ execs[runs[r].e].st # "succeeded"
    BY <1>2 DEF DrivenInv, FlightInv, RunsAreInFlight, Driving
  <2>2. PICK q \in Runs :
          runs[q].pc = "final" /\ runs'[q].pc = "complete" /\ runs[q].e = runs[r].e
    BY SMTT(30), <1>1, <2>1, StatusStep
  <2>3. q # r BY <2>2 DEF Driving
  <2> QED BY SMTT(30), <1>2, <2>2, <2>3 DEF FlightInv, RunsAreInFlight, Driving
<1>3. CASE UNCHANGED execs /\ execs[runs[r].e].st \in Live
  BY <1>1, <1>3 DEF Live
<1> QED BY <1>2, <1>3, DrivingStep

(* No redelivery, dead letter, edit or late UPDATE undoes a success.       *)
THEOREM DispatchSucceededIsFinal == Spec => SucceededIsFinal
<1>1. Init => DrivenInv BY SMTT(30) DEF Init, DrivenInv, Driving, NoRun
<1>2. FlightInv /\ DrivenInv /\ [Next]_vars => DrivenInv' BY DrivenStep
<1>3. FlightInv /\ DrivenInv /\ [Next]_vars =>
        [\A e \in Execs :
           execs[e].st = "succeeded" => execs'[e].st \in {"succeeded", "removed"}]_vars
  BY StatusStep
<1> QED BY FlightInvariant, <1>1, <1>2, <1>3, PTL DEF Spec, SucceededIsFinal

(***************************************************************************)
(* WorkflowDispatch implements JobContract.  A delivery is identified by   *)
(* the read counter it was handed; the tasks of one message hold different *)
(* counters, none of which has started a run yet, and a task past the      *)
(* delivery_exhausted check holds one within MAX_DELIVERIES.  Spawning     *)
(* with such a counter is a step Start.                                    *)
(***************************************************************************)
Admitted == {"gate", "bind", "create", "perms", "spawn"}

(* Counters only grow, and bound the deliveries that were handed out.      *)
CountersInv ==
  \A m \in Msgs :
    /\ started[m] \subseteq 1..queue[m].ct
    /\ queue[m].st = "unsent" => queue[m].ct = 0

(* Each task holds a delivery nobody else holds and nobody has started.    *)
DeliveriesInv ==
  /\ \A t \in Tasks : tasks[t].pc # "idle" =>
       /\ queue[tasks[t].m].st # "unsent"
       /\ tasks[t].ct \in 1..queue[tasks[t].m].ct
       /\ tasks[t].ct \notin started[tasks[t].m]
       /\ tasks[t].pc \in Admitted => tasks[t].ct <= MaxDeliveries
  /\ \A t, u \in Tasks :
       t # u /\ tasks[t].pc # "idle" /\ tasks[u].pc # "idle" /\ tasks[t].m = tasks[u].m
         => tasks[t].ct # tasks[u].ct

DeliveryInv == CountersInv /\ DeliveriesInv

(***************************************************************************)
(* What the steps do to the queue, seen from the contract.                 *)
(***************************************************************************)
(* A step that hands out, ends or settles nothing new.                     *)
QueueCalm ==
  /\ \A m \in Msgs : queue'[m].ct = queue[m].ct /\ (queue'[m].st = "unsent" <=> queue[m].st = "unsent")
  /\ \/ Phase' = Phase
     \/ \E m \in Msgs : Phase[m] = "pending" /\ Phase' = [Phase EXCEPT ![m] = "settled"]

(* The queue of this module is one of the queues of JobQueueProofs.        *)
LEMMA DispatchQueue == FlightInv => queue \in QueueRows({NoExec} \cup Execs)
BY DEF FlightInv, TypeOK, QueueTypeOK, QueueRows

(* Settling, renewing, losing a lease or doing nothing is calm.            *)
LEMMA CalmStatements ==
  ASSUME FlightInv,
         UNCHANGED queue \/ \E m \in Msgs : Leaves(m) \/ Hides(m)
  PROVE  QueueCalm
<1>0. queue \in QueueRows({NoExec} \cup Execs) BY DispatchQueue
<1>1. CASE UNCHANGED queue BY <1>1 DEF QueueCalm, Phase, Settled
<1>2. ASSUME NEW m \in Msgs, Leaves(m) PROVE QueueCalm
  <2>1. /\ \A k \in Msgs : queue'[k].ct = queue[k].ct /\ (k # m => queue'[k] = queue[k])
        /\ queue'[m].st = queue[m].st
             \/ (queue[m].st \in InQueue /\ queue'[m].st \in {"archived", "deleted"})
    BY <1>0, <1>2, LeaveRows
  <2>2. \/ Phase' = Phase
        \/ Phase[m] = "pending" /\ Phase' = [Phase EXCEPT ![m] = "settled"]
    BY <1>0, <1>2, LeavePhase
  <2>3. \A k \in Msgs : queue'[k].st = "unsent" <=> queue[k].st = "unsent"
    BY <2>1 DEF InQueue
  <2> QED BY <2>1, <2>2, <2>3 DEF QueueCalm
<1>3. ASSUME NEW m \in Msgs, Hides(m) PROVE QueueCalm
  <2>1. /\ \A k \in Msgs : queue'[k].ct = queue[k].ct /\ (k # m => queue'[k] = queue[k])
        /\ queue[m].st \in InQueue /\ queue'[m].st \in InQueue
    BY <1>0, <1>3, HideRows
  <2>2. Phase' = Phase BY <1>0, <1>3, HidePhase
  <2>3. \A k \in Msgs : queue'[k].st = "unsent" <=> queue[k].st = "unsent"
    BY <2>1 DEF InQueue
  <2> QED BY <2>1, <2>2, <2>3 DEF QueueCalm
<1> QED BY <1>1, <1>2, <1>3

(* Tasks end or go on with the delivery they hold; the exhaustion check    *)
(* stands between Poll and every admitted program point.                   *)
TasksCalm ==
  \A t \in Tasks :
    \/ tasks'[t].pc = "idle"
    \/ /\ tasks[t].pc # "idle" /\ tasks'[t].m = tasks[t].m /\ tasks'[t].ct = tasks[t].ct
       /\ tasks'[t].pc \in Admitted => tasks[t].pc \in Admitted \/ tasks[t].ct <= MaxDeliveries

(* Run tasks end or go on with the message they hold.                      *)
RunsCalm ==
  \A r \in Runs : runs'[r].pc # "off" => runs[r].pc # "off" /\ runs'[r].m = runs[r].m

Calm == QueueCalm /\ TasksCalm /\ RunsCalm /\ UNCHANGED started

(* The three kinds of step that are not calm.                              *)
Sends(m) ==
  /\ \E b \in {NoExec} \cup Execs : enqueue_message(m, b)
  /\ UNCHANGED <<tasks, runs, started>>
Starts(t, r) ==
  /\ tasks[t].pc = "spawn" /\ tasks[t].m \notin inFlight /\ runs[r].pc = "off"
  /\ started' = [started EXCEPT ![tasks[t].m] = @ \cup {tasks[t].ct}]
  /\ runs' = [runs EXCEPT ![r] = [NoRun EXCEPT !.pc = "load", !.m = tasks[t].m,
                                               !.e = tasks[t].e]]
  /\ Finish(t)
  /\ UNCHANGED queue

(* A task's moves are calm.                                                *)
LEMMA CalmTaskMoves ==
  ASSUME FlightInv, NEW t \in Tasks
  PROVE  /\ UNCHANGED tasks => TasksCalm
         /\ Finish(t) => TasksCalm
         /\ \A pc \in TaskPcs :
              /\ Goto(t, pc) /\ tasks[t].pc # "idle"
              /\ pc \in Admitted => tasks[t].pc \in Admitted \/ tasks[t].ct <= MaxDeliveries
              => TasksCalm
<1>0. tasks \in [Tasks -> Task] BY DEF FlightInv, TypeOK
<1>1. UNCHANGED tasks => TasksCalm BY <1>0 DEF TasksCalm
<1>2. Finish(t) => TasksCalm BY SMTT(30), <1>0 DEF Finish, IdleTask, TasksCalm
<1>3. ASSUME NEW pc \in TaskPcs, Goto(t, pc), tasks[t].pc # "idle",
             pc \in Admitted => tasks[t].pc \in Admitted \/ tasks[t].ct <= MaxDeliveries
      PROVE  TasksCalm
  <2>1. /\ tasks'[t].m = tasks[t].m /\ tasks'[t].ct = tasks[t].ct /\ tasks'[t].pc = pc
        /\ \A u \in Tasks \ {t} : tasks'[u] = tasks[u]
    BY <1>0, <1>3 DEF Goto, Task
  <2> QED BY <1>3, <2>1 DEF TasksCalm
<1> QED BY <1>1, <1>2, <1>3

(* So are a run's.                                                         *)
LEMMA CalmRunMoves ==
  ASSUME FlightInv, NEW r \in Runs
  PROVE  /\ UNCHANGED runs => RunsCalm
         /\ EndRun(r) => RunsCalm
         /\ RunKept(r) => RunsCalm
<1>0. runs \in [Runs -> Run] BY DEF FlightInv, TypeOK
<1> QED BY SMTT(30), <1>0 DEF EndRun, NoRun, RunKept, RunsCalm

(* Steps of a dispatch task are calm, unless they start a run.             *)
LEMMA TaskStepsAreCalm ==
  ASSUME FlightInv, NEW t \in Tasks, TaskStep(t)
  PROVE  Calm \/ \E r \in Runs : Starts(t, r)
<1>0. tasks[t].pc # "idle" /\ tasks[t].m \in Msgs /\ tasks \in [Tasks -> Task]
  <2>1. tasks[t].pc # "idle"
    BY DEF TaskStep, Lookup, Gate, Bind, FailJob, CheckBound, Perms, FailDenied, FailExec,
           DlqFind, DlqSend, DlqArchive, Create, Spawn, At
  <2> QED BY <2>1 DEF FlightInv, TasksHoldTheirRow, TypeOK
<1>1. ASSUME NEW pc \in TaskPcs, NEW e, tasks' = [tasks EXCEPT ![t].e = e, ![t].pc = pc],
             pc \in Admitted => tasks[t].pc \in Admitted
      PROVE  TasksCalm
  <2>1. /\ tasks'[t].m = tasks[t].m /\ tasks'[t].ct = tasks[t].ct /\ tasks'[t].pc = pc
        /\ \A u \in Tasks \ {t} : tasks'[u] = tasks[u]
    BY <1>0, <1>1 DEF Task
  <2> QED BY <1>0, <1>1, <2>1 DEF TasksCalm
<1>2. ASSUME ~\E r \in Runs : Spawn(t, r) PROVE QueueCalm /\ RunsCalm /\ UNCHANGED started
  <2>1. UNCHANGED <<runs, started>>
    BY <1>2 DEF TaskStep, Lookup, Gate, Bind, FailJob, CheckBound, Perms, FailDenied, FailExec,
           DlqFind, DlqSend, DlqArchive, Create, LastStatement
  <2>2. UNCHANGED queue \/ Leaves(tasks[t].m)
    BY <1>2 DEF TaskStep, Lookup, Gate, Bind, FailJob, CheckBound, Perms, FailDenied, FailExec,
           DlqFind, DlqSend, DlqArchive, Create, LastStatement, Leaves
  <2> QED BY <1>0, <2>1, <2>2, CalmStatements DEF RunsCalm
<1>3. ASSUME NEW r \in Runs, Spawn(t, r) PROVE Calm \/ Starts(t, r)
  <2>1. CASE UNCHANGED <<inFlight, runs, started>>
    BY <1>3, <2>1, CalmStatements, CalmTaskMoves DEF Spawn, Calm, RunsCalm
  <2> QED BY <1>3, <2>1 DEF Spawn, Starts, At, RunAt
<1>4. ASSUME ~\E r \in Runs : Spawn(t, r) PROVE TasksCalm
  <2>1. CASE FailJob(t) \/ DlqArchive(t)
    BY <2>1, CalmTaskMoves DEF FailJob, DlqArchive, LastStatement
  <2>2. CASE FailDenied(t) \/ FailExec(t) \/ DlqSend(t)
    BY <1>0, <2>2, CalmTaskMoves DEF FailDenied, FailExec, DlqSend, TaskPcs, Admitted
  <2>3. CASE Lookup(t) \/ CheckBound(t)
    <3>1. tasks[t].ct \in Nat BY <1>0 DEF Task
    <3> QED
      BY SMTT(30), <1>0, <2>3, <3>1, CalmTaskMoves, QueueAssumption
      DEF Lookup, CheckBound, delivery_exhausted, TaskPcs, Admitted
  <2>4. CASE Gate(t) \/ Perms(t)
    BY <1>0, <2>4, CalmTaskMoves DEF Gate, Perms, At, TaskPcs, Admitted
  <2>5. CASE Bind(t)
    BY <1>0, <1>1, <2>5, CalmTaskMoves DEF Bind, FindExec, At, TaskPcs, Admitted
  <2>6. CASE DlqFind(t)
    BY <1>0, <1>1, <2>6, CalmTaskMoves DEF DlqFind, FindExec, At, TaskPcs, Admitted
  <2>7. ASSUME NEW e \in Execs, Create(t, e) PROVE TasksCalm
    BY <1>0, <1>1, <2>7, CalmTaskMoves DEF Create, At, TaskPcs, Admitted
  <2> QED BY <1>4, <2>1, <2>2, <2>3, <2>4, <2>5, <2>6, <2>7 DEF TaskStep
<1> QED BY <1>2, <1>3, <1>4 DEF Calm

(* Steps of a run task are calm.                                           *)
LEMMA RunStepsAreCalm ==
  ASSUME FlightInv, NEW r \in Runs, RunStep(r) \/ HeartbeatGivesUp(r) \/ Renew(r)
  PROVE  Calm
<1>0. runs \in [Runs -> Run] /\ runs[r].pc # "off" /\ runs[r].m \in Msgs
  <2>1. runs[r].pc # "off"
    BY DEF RunStep, RunLoad, RunStart, RunNodes, RunFinal, RunComplete, RunAt,
           HeartbeatGivesUp, Renew, FlightInv, RunsAreInFlight
  <2> QED BY <2>1 DEF FlightInv, RunsAreInFlight, TypeOK
<1>1. UNCHANGED <<tasks, started>>
  BY DEF RunStep, RunLoad, RunStart, RunNodes, RunFinal, RunComplete, HeartbeatGivesUp, Renew
<1>2. UNCHANGED queue \/ Leaves(runs[r].m) \/ Hides(runs[r].m)
  BY DEF RunStep, RunLoad, RunStart, RunNodes, RunFinal, RunComplete, RunErr, HeartbeatGivesUp,
         Renew, Leaves, Hides
<1>3. RunsCalm
  <2>1. ASSUME NEW new \in [Runs -> Run], runs' = new, new[r].m = runs[r].m,
               \A q \in Runs \ {r} : new[q] = runs[q]
        PROVE  RunsCalm
    BY <1>0, <2>1 DEF RunsCalm
  <2>2. CASE RunLoad(r)
    <3>1. CASE runs' = [runs EXCEPT ![r].pc = "start", ![r].hb = TRUE]
      BY <1>0, <3>1 DEF RunsCalm, Run
    <3> QED BY <2>2, <3>1, CalmRunMoves DEF RunLoad, RunErr
  <2>3. CASE RunStart(r)
    BY <1>0, <2>1, <2>3, CalmRunMoves DEF RunStart, RunErr, RunGoto, Run, RunPcs
  <2>4. CASE RunNodes(r)
    BY SMTT(30), <1>0, <2>1, <2>4, CalmRunMoves DEF RunNodes, RunErr, Run, RunPcs
  <2>5. CASE RunFinal(r)
    BY SMTT(30), <1>0, <2>1, <2>5, CalmRunMoves DEF RunFinal, RunErr, Run, RunPcs
  <2>6. CASE RunComplete(r) BY <2>6, CalmRunMoves DEF RunComplete
  <2>7. CASE HeartbeatGivesUp(r)
    BY <1>0, <2>7 DEF HeartbeatGivesUp, RunsCalm, Run
  <2>8. CASE Renew(r) BY <2>8, CalmRunMoves DEF Renew
  <2> QED BY <2>2, <2>3, <2>4, <2>5, <2>6, <2>7, <2>8 DEF RunStep
<1>4. TasksCalm BY <1>1 DEF TasksCalm
<1>5. QueueCalm BY <1>0, <1>2, CalmStatements
<1> QED BY <1>1, <1>3, <1>4, <1>5 DEF Calm

(* Every step is calm, sends a message, hands out a delivery or starts a   *)
(* run.                                                                    *)
LEMMA FourKinds ==
  ASSUME FlightInv, [Next]_vars
  PROVE  \/ Calm
         \/ \E m \in Msgs : Sends(m)
         \/ \E t \in Tasks, m \in Msgs : Poll(t, m)
         \/ \E t \in Tasks, r \in Runs : Starts(t, r)
<1>1. CASE UNCHANGED vars
  BY <1>1, CalmStatements DEF vars, Calm, TasksCalm, RunsCalm
<1>2. ASSUME NEW m \in Msgs, Trigger(m) PROVE Sends(m)
  BY <1>2 DEF Trigger, Sends
<1>3. ASSUME NEW m \in Msgs, LeaseExpires(m) PROVE Calm
  BY <1>3, CalmStatements DEF LeaseExpires, Hides, Calm, TasksCalm, RunsCalm
<1>4. ASSUME NEW e \in Execs, RunWorkflow(e) PROVE Calm
  BY <1>4, CalmStatements DEF RunWorkflow, Calm, TasksCalm, RunsCalm
<1>5. ASSUME NEW e \in Execs, NEW m \in Msgs, EnqueueManual(e, m) PROVE Calm \/ Sends(m)
  BY <1>5, CalmStatements DEF EnqueueManual, Sends, Calm, TasksCalm, RunsCalm
<1>6. CASE EditWorkflow
  BY <1>6, CalmStatements DEF EditWorkflow, Calm, TasksCalm, RunsCalm
<1>7. CASE Crash
  BY <1>7, CalmStatements DEF Crash, Calm, TasksCalm, RunsCalm, IdleTask, NoRun
<1> QED
  BY <1>1, <1>2, <1>3, <1>4, <1>5, <1>6, <1>7, TaskStepsAreCalm, RunStepsAreCalm DEF Next

(***************************************************************************)
(* The deliveries invariant is inductive.                                  *)
(***************************************************************************)
(* Every step keeps the delivery counters: one case per kind of step.      *)
LEMMA DeliveryStep ==
  ASSUME FlightInv, DeliveryInv, [Next]_vars
  PROVE  DeliveryInv'
<1>0. /\ queue \in QueueRows({NoExec} \cup Execs) /\ tasks \in [Tasks -> Task]
      /\ started \in [Msgs -> SUBSET Nat]
      /\ \A t \in Tasks : tasks[t].pc # "idle" => tasks[t].m \in Msgs
  BY DispatchQueue DEF FlightInv, TypeOK, TasksHoldTheirRow
<1>1. CASE Calm
  <2>1. CountersInv' BY <1>1 DEF Calm, QueueCalm, DeliveryInv, CountersInv
  <2>2. DeliveriesInv'
    BY SMTT(30), <1>0, <1>1 DEF Calm, QueueCalm, TasksCalm, DeliveryInv, DeliveriesInv
  <2> QED BY <2>1, <2>2 DEF DeliveryInv
<1>2. ASSUME NEW m \in Msgs, Sends(m) PROVE DeliveryInv'
  <2>1. /\ queue[m].st = "unsent" /\ queue'[m].ct = 0 /\ queue'[m].st = "visible"
        /\ \A k \in Msgs \ {m} : queue'[k] = queue[k]
        /\ UNCHANGED <<tasks, started>>
    BY SMTT(30), <1>0, <1>2 DEF Sends, enqueue_message, NextMsg, Unsent, QueueRows
  <2>2. \A t \in Tasks : tasks[t].pc # "idle" => tasks[t].m # m
    BY <2>1 DEF DeliveryInv, DeliveriesInv
  <2>3. queue[m].ct = 0 BY <2>1 DEF DeliveryInv, CountersInv
  <2>4. CountersInv' BY <2>1, <2>3 DEF DeliveryInv, CountersInv
  <2>5. DeliveriesInv' BY <1>0, <2>1, <2>2 DEF DeliveryInv, DeliveriesInv
  <2> QED BY <2>4, <2>5 DEF DeliveryInv
<1>3. ASSUME NEW t \in Tasks, NEW m \in Msgs, Poll(t, m) PROVE DeliveryInv'
  <2>1. /\ \A k \in Msgs \ {m} : queue'[k] = queue[k]
        /\ queue[m].st \in InQueue /\ queue'[m].st \in InQueue
        /\ queue'[m].ct = queue[m].ct + 1 /\ queue[m].ct \in Nat
    BY <1>0, <1>3, ReadRows DEF Poll, QueueRows
  <2>2. /\ tasks'[t].m = m /\ tasks'[t].ct = queue[m].ct + 1
        /\ tasks'[t].pc \in {"lookup", "bound"}
        /\ \A u \in Tasks \ {t} : tasks'[u] = tasks[u]
        /\ UNCHANGED started
    BY <1>0, <1>3 DEF Poll
  <2>3. CountersInv'
    BY SMTT(30), <1>0, <2>1, <2>2 DEF DeliveryInv, CountersInv, InQueue
  <2>4. queue[m].ct + 1 \notin started[m]
    BY SMTT(30), <2>1 DEF DeliveryInv, CountersInv
  <2>5. \A u \in Tasks \ {t} : tasks[u].pc # "idle" /\ tasks[u].m = m => tasks[u].ct # queue[m].ct + 1
    BY SMTT(30), <2>1 DEF DeliveryInv, DeliveriesInv
  <2>6. DeliveriesInv'
    BY SMTT(30), <1>0, <2>1, <2>2, <2>4, <2>5 DEF DeliveryInv, DeliveriesInv, InQueue, Admitted
  <2> QED BY <2>3, <2>6 DEF DeliveryInv
<1>4. ASSUME NEW t \in Tasks, NEW r \in Runs, Starts(t, r) PROVE DeliveryInv'
  <2>1. /\ tasks[t].pc = "spawn" /\ tasks[t].m \in Msgs /\ UNCHANGED queue
        /\ tasks'[t].pc = "idle" /\ \A u \in Tasks \ {t} : tasks'[u] = tasks[u]
        /\ started' = [started EXCEPT ![tasks[t].m] = @ \cup {tasks[t].ct}]
    BY <1>0, <1>4 DEF Starts, Finish, IdleTask
  <2>2. CountersInv' BY <1>0, <2>1 DEF DeliveryInv, CountersInv, DeliveriesInv
  <2>3. DeliveriesInv' BY SMTT(30), <1>0, <2>1 DEF DeliveryInv, DeliveriesInv
  <2> QED BY <2>2, <2>3 DEF DeliveryInv
<1> QED BY <1>1, <1>2, <1>3, <1>4, FourKinds

(***************************************************************************)
(* The refinement.                                                         *)
(***************************************************************************)
(* Each kind of step is a step of the contract, or none.                   *)
LEMMA ContractStep ==
  ASSUME FlightInv, DeliveryInv, [Next]_vars
  PROVE  [Contract!Next]_(Contract!contractVars)
<1>0. /\ queue \in QueueRows({NoExec} \cup Execs) /\ tasks \in [Tasks -> Task]
      /\ runs \in [Runs -> Run] /\ started \in [Msgs -> SUBSET Nat]
  BY DispatchQueue DEF FlightInv, TypeOK
<1>1. CASE Calm
  <2>1. Busy' \in SUBSET Busy BY <1>1 DEF Calm, RunsCalm, Busy
  <2>2. Contract!Advance
    BY <1>1, <2>1 DEF Calm, QueueCalm, Contract!Advance, Contract!Settled
  <2> QED BY <2>2 DEF Contract!Next
<1>2. ASSUME NEW m \in Msgs, Sends(m) PROVE Contract!Next
  <2>1. Phase[m] = "unsent" /\ Phase' = [Phase EXCEPT ![m] = "pending"]
    BY <1>0, <1>2, EnqueuePhase DEF Sends
  <2>2. UNCHANGED <<Busy, started>> BY <1>2 DEF Sends, Busy
  <2> QED BY <2>1, <2>2 DEF Contract!Next, Contract!Send
<1>3. ASSUME NEW t \in Tasks, NEW m \in Msgs, Poll(t, m) PROVE UNCHANGED Contract!contractVars
  <2>1. Phase' = Phase BY <1>0, <1>3, HidePhase DEF Poll
  <2>2. UNCHANGED <<Busy, started>> BY <1>3 DEF Poll, Busy
  <2> QED BY <2>1, <2>2 DEF Contract!contractVars
<1>4. ASSUME NEW t \in Tasks, NEW r \in Runs, Starts(t, r) PROVE Contract!Next
  <2> DEFINE m == tasks[t].m
             d == tasks[t].ct
  <2>1. /\ m \in Msgs /\ queue[m].st # "unsent" /\ d \notin started[m]
        /\ d \in 1..MaxDeliveries
    BY SMTT(30), <1>0, <1>4, QueueAssumption
    DEF Starts, FlightInv, TasksHoldTheirRow, DeliveryInv, DeliveriesInv, Admitted, QueueRows
  <2>2. m \notin Busy
    BY <1>4 DEF Starts, Busy, FlightInv, RunsAreInFlight
  <2>3. /\ runs'[r].pc = "load" /\ runs'[r].m = m /\ runs[r].pc = "off"
        /\ \A q \in Runs \ {r} : runs'[q] = runs[q]
    BY <1>0, <1>4 DEF Starts, NoRun
  <2>4. Busy' = Busy \cup {m} BY SMTT(30), <2>3 DEF Busy
  <2>5. Phase[m] # "unsent" /\ UNCHANGED Phase
    BY <1>4, <2>1 DEF Starts, Phase, Settled
  <2>6. started' = [started EXCEPT ![m] = @ \cup {d}] BY <1>4 DEF Starts
  <2>7. Contract!Start(m, d)
    BY <2>1, <2>2, <2>4, <2>5, <2>6 DEF Contract!Start
  <2> QED BY <2>1, <2>7 DEF Contract!Next
<1> QED BY <1>1, <1>2, <1>3, <1>4, FourKinds

(* Workflow runs honour the queue's contract, for any number of messages,  *)
(* permits, runs and faults: the work of a message is never in progress    *)
(* twice, each delivery starts it at most once and none past               *)
(* MAX_DELIVERIES does, and a settled message stays settled.               *)
THEOREM DispatchHonoursContract == Spec => HonoursContract
<1>1. Init => DeliveryInv
  BY SMTT(30) DEF Init, QueueInit, DeliveryInv, CountersInv, DeliveriesInv, IdleTask
<1>2. FlightInv /\ DeliveryInv /\ [Next]_vars => DeliveryInv' BY DeliveryStep
<1>3. Init => Contract!Init
  BY SMTT(30) DEF Init, QueueInit, Contract!Init, Phase, Busy, NoRun
<1>4. FlightInv /\ DeliveryInv /\ [Next]_vars => [Contract!Next]_(Contract!contractVars)
  BY ContractStep
<1> QED BY FlightInvariant, <1>1, <1>2, <1>3, <1>4, PTL DEF Spec, HonoursContract, Contract!Spec
=============================================================================
