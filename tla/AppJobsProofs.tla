--------------------------- MODULE AppJobsProofs ---------------------------
(***************************************************************************)
(* Proofs about AppJobs, for any number of messages, dispatch permits,     *)
(* commands in the channel and faults: a running job is always leased, and *)
(* app jobs honour the queue's contract.                                   *)
(***************************************************************************)
EXTENDS AppJobs, JobQueueProofs

(* Zenon proves every leaf that does not cite SMTT or PTL.                 *)
USE ZenonT(60)

(***************************************************************************)
(* The worker's side.  A lease entry outlives the job: it stays while the  *)
(* job's result waits in the pipe, so that dropping it on a result never   *)
(* uncovers another job of the same message.                               *)
(***************************************************************************)
ProcessInv == ~proc.alive => proc.jobs = {}

(* A result not yet read still has its lease, its message has no running   *)
(* job and no second result.                                               *)
ResultsInv ==
  \A i \in 1..Len(pipe) :
    /\ pipe[i].m \in leases
    /\ \A j \in proc.jobs : j.m # pipe[i].m
    /\ \A k \in 1..Len(pipe) : k # i => pipe[k].m # pipe[i].m

(* The supervisor writes a job it has not leased yet, and settles a        *)
(* message it has in hand; it runs, or backs off, below the crash limit.   *)
SupervisorInv ==
  /\ sup.pc = "writing" => sup.m \in Msgs \ leases
  /\ sup.pc \in {"complete", "dlqSend", "dlqArchive"} => sup.m \in Msgs
  /\ sup.st = "running" \/ sup.pc = "backoff" => crashes.recent < MAX_CRASHES

WorkerInv == ProcessInv /\ RunningJobIsLeased /\ ResultsInv /\ SupervisorInv

(***************************************************************************)
(* The scheduler's side.  A delivery is in one place at a time: with the   *)
(* task that read it, in a command on its way to the supervisor, or with a *)
(* supervisor blocked on writing it.                                       *)
(***************************************************************************)
Admitted == {"resolve", "waiting", "spawn", "send", "stale"}

(* A status request belongs to the one task that waits for its answer.     *)
WaitingInv ==
  \A i \in 1..Len(cmds) : cmds[i].op = "status" =>
    /\ tasks[cmds[i].t].pc = "waiting"
    /\ \A k \in 1..Len(cmds) : k # i /\ cmds[k].op = "status" => cmds[k].t # cmds[i].t

(* Counters only grow, and bound the deliveries that were handed out.      *)
CountersInv ==
  \A m \in Msgs :
    /\ started[m] \subseteq 1..queue[m].ct
    /\ queue[m].st = "unsent" => queue[m].ct = 0

(* Delivery d of m was handed out and has not started a job.               *)
Pending(m, d) ==
  /\ m \in Msgs /\ queue[m].st # "unsent"
  /\ d \in 1..queue[m].ct /\ d \notin started[m]

(* Whoever holds a delivery holds a pending one, within MAX_DELIVERIES     *)
(* once past the check.                                                    *)
HoldersInv ==
  /\ \A t \in Tasks : tasks[t].pc # "idle" =>
       /\ Pending(tasks[t].m, tasks[t].ct)
       /\ tasks[t].pc \in Admitted => tasks[t].ct <= MaxDeliveries
  /\ \A i \in 1..Len(cmds) : cmds[i].op = "job" =>
       Pending(cmds[i].m, cmds[i].d) /\ cmds[i].d <= MaxDeliveries
  /\ sup.pc = "writing" => Pending(sup.m, sup.d) /\ sup.d <= MaxDeliveries

(* No delivery has two holders.                                            *)
ApartInv ==
  /\ \A t, u \in Tasks :
       t # u /\ tasks[t].pc # "idle" /\ tasks[u].pc # "idle" /\ tasks[t].m = tasks[u].m
         => tasks[t].ct # tasks[u].ct
  /\ \A t \in Tasks, i \in 1..Len(cmds) :
       tasks[t].pc # "idle" /\ cmds[i].op = "job" /\ tasks[t].m = cmds[i].m
         => tasks[t].ct # cmds[i].d
  /\ \A i, k \in 1..Len(cmds) :
       i # k /\ cmds[i].op = "job" /\ cmds[k].op = "job" /\ cmds[i].m = cmds[k].m
         => cmds[i].d # cmds[k].d
  /\ sup.pc = "writing" =>
       /\ \A t \in Tasks : tasks[t].pc # "idle" /\ tasks[t].m = sup.m => tasks[t].ct # sup.d
       /\ \A i \in 1..Len(cmds) :
            cmds[i].op = "job" /\ cmds[i].m = sup.m => cmds[i].d # sup.d

DeliveryInv == WaitingInv /\ CountersInv /\ HoldersInv /\ ApartInv

JobsInv == TypeOK /\ WorkerInv /\ DeliveryInv

(***************************************************************************)
(* Sequences and records.                                                  *)
(***************************************************************************)
(* Taking the first element shifts the others down by one.                 *)
LEMMA TailShift ==
  ASSUME NEW S, NEW s \in Seq(S), s # <<>>
  PROVE  /\ Head(s) \in S /\ Head(s) = s[1] /\ 1 \in 1..Len(s)
         /\ Tail(s) \in Seq(S) /\ Len(Tail(s)) = Len(s) - 1
         /\ \A i \in 1..Len(Tail(s)) : i + 1 \in 1..Len(s) /\ Tail(s)[i] = s[i + 1]
BY SMTT(30)

(* Appending keeps what is there and adds one element at the end.          *)
LEMMA AppendLast ==
  ASSUME NEW S, NEW s \in Seq(S), NEW c \in S
  PROVE  /\ Append(s, c) \in Seq(S) /\ Len(Append(s, c)) = Len(s) + 1
         /\ Append(s, c)[Len(s) + 1] = c
         /\ \A i \in 1..Len(Append(s, c)) : i # Len(s) + 1 =>
              i \in 1..Len(s) /\ Append(s, c)[i] = s[i]
BY SMTT(30)

(* What a command carries depends on its kind.                             *)
LEMMA CommandFields ==
  ASSUME NEW c \in Command
  PROVE  /\ c.op \in {"job", "status", "stop"}
         /\ c.op = "job" => c.m \in Msgs /\ c.d \in Nat
         /\ c.op = "status" => c.t \in Tasks
BY DEF Command

(* The three commands the code sends.                                      *)
LEMMA Commands ==
  /\ \A m \in Msgs, d \in Nat : [op |-> "job", m |-> m, d |-> d] \in Command
  /\ \A t \in Tasks : [op |-> "status", t |-> t] \in Command
  /\ [op |-> "stop"] \in Command
BY DEF Command

(* Moving a task, ending it, and moving the supervisor.                    *)
LEMMA TaskMoves ==
  ASSUME tasks \in [Tasks -> Task], NEW t \in Tasks
  PROVE  /\ IdleTask \in Task
         /\ \A pc : Goto(t, pc) =>
              /\ tasks'[t] = [tasks[t] EXCEPT !.pc = pc]
              /\ tasks'[t].pc = pc /\ tasks'[t].m = tasks[t].m /\ tasks'[t].ct = tasks[t].ct
              /\ \A u \in Tasks \ {t} : tasks'[u] = tasks[u]
         /\ Finish(t) => /\ tasks'[t].pc = "idle" /\ tasks' \in [Tasks -> Task]
                         /\ \A u \in Tasks \ {t} : tasks'[u] = tasks[u]
<1>1. IdleTask \in Task BY DEF IdleTask, Task
<1>2. ASSUME NEW pc, Goto(t, pc)
      PROVE  /\ tasks'[t] = [tasks[t] EXCEPT !.pc = pc]
             /\ tasks'[t].pc = pc /\ tasks'[t].m = tasks[t].m /\ tasks'[t].ct = tasks[t].ct
             /\ \A u \in Tasks \ {t} : tasks'[u] = tasks[u]
  <2>1. tasks[t] \in Task OBVIOUS
  <2>2. /\ tasks'[t] = [tasks[t] EXCEPT !.pc = pc]
        /\ \A u \in Tasks \ {t} : tasks'[u] = tasks[u]
    BY <1>2 DEF Goto
  <2> QED BY <2>1, <2>2 DEF Task
<1>3. Finish(t) => /\ tasks'[t].pc = "idle" /\ tasks' \in [Tasks -> Task]
                   /\ \A u \in Tasks \ {t} : tasks'[u] = tasks[u]
  BY SMTT(30), <1>1 DEF Finish, IdleTask
<1> QED BY <1>1, <1>2, <1>3

(* The initial state satisfies the invariant.                              *)
LEMMA JobsInit == Init => JobsInv
<1> SUFFICES ASSUME Init PROVE JobsInv OBVIOUS
<1>1. TypeOK
  <2>1. QueueTypeOK({NoMsg}) BY DEF Init, QueueInit, QueueTypeOK, QueueStates
  <2>2. tasks \in [Tasks -> Task] BY DEF Init, Task, IdleTask
  <2>3. sup \in Supervisor /\ proc \in Process
    BY DEF Init, Supervisor, Loop, Process, DeadProc
  <2>4. cmds \in Seq(Command) /\ Len(cmds) <= CmdCap /\ pipe \in Seq(Result)
    BY SMTT(30), JobsAssumption DEF Init
  <2>5. /\ crashes \in [recent : 0..MAX_CRASHES, restarts : 0..2]
        /\ faults \in [deaths : 0..MaxDeaths, stops : 0..MaxStops,
                      restarts : 0..MaxRestarts, errors : 0..MaxErrors]
    BY SMTT(30), JobsAssumption DEF Init
  <2>6. entry \in BOOLEAN /\ leases \subseteq Msgs /\ hb \subseteq leases
    BY DEF Init
  <2>7. started \in [Msgs -> SUBSET Nat] BY DEF Init
  <2> QED BY <2>1, <2>2, <2>3, <2>4, <2>5, <2>6, <2>7 DEF TypeOK
<1>2. WorkerInv
  BY SMTT(30), JobsAssumption
  DEF Init, WorkerInv, ProcessInv, RunningJobIsLeased, ResultsInv, SupervisorInv, DeadProc, Loop
<1>3. DeliveryInv
  BY SMTT(30) DEF Init, QueueInit, DeliveryInv, WaitingInv, CountersInv, HoldersInv, ApartInv, IdleTask,
         Loop
<1> QED BY <1>1, <1>2, <1>3 DEF JobsInv

(***************************************************************************)
(* The worker's side is inductive.                                         *)
(***************************************************************************)
WorkerTypes ==
  /\ sup \in Supervisor /\ proc \in Process /\ pipe \in Seq(Result)
  /\ leases \subseteq Msgs /\ hb \subseteq leases
  /\ crashes \in [recent : 0..MAX_CRASHES, restarts : 0..2]

WorkerOK == WorkerTypes /\ WorkerInv

(* Steps that leave the worker alone.                                      *)
LEMMA WorkerUntouched ==
  ASSUME WorkerOK, UNCHANGED <<sup, leases, hb, proc, pipe, crashes>>
  PROVE  WorkerOK'
BY DEF WorkerOK, WorkerTypes, WorkerInv, ProcessInv, RunningJobIsLeased, ResultsInv, SupervisorInv

(* A process that runs nothing needs no lease: it has just been replaced,  *)
(* stopped or has died.                                                    *)
LEMMA WorkerEmptied ==
  ASSUME WorkerOK, proc' \in Process, proc'.jobs = {},
         \/ pipe' = <<>> /\ leases' \subseteq leases /\ hb' \subseteq leases'
         \/ UNCHANGED <<pipe, leases, hb>>,
         \/ UNCHANGED <<sup, leases, crashes>>
         \/ /\ sup' \in Supervisor /\ sup'.pc \in {"loop", "backoff"}
            /\ crashes' \in [recent : 0..MAX_CRASHES, restarts : 0..2]
            /\ sup'.st = "running" \/ sup'.pc = "backoff" => crashes'.recent < MAX_CRASHES
  PROVE  WorkerOK'
<1>1. WorkerTypes'
  <2>1. pipe' \in Seq(Result)
    <3>1. <<>> \in Seq(Result) BY SMTT(30)
    <3>2. pipe \in Seq(Result) BY DEF WorkerOK, WorkerTypes
    <3>3. pipe' = <<>> \/ pipe' = pipe OBVIOUS
    <3> QED BY <3>1, <3>2, <3>3
  <2>2. sup' \in Supervisor /\ crashes' \in [recent : 0..MAX_CRASHES, restarts : 0..2]
    BY DEF WorkerOK, WorkerTypes
  <2>3. leases' \subseteq Msgs /\ hb' \subseteq leases' BY DEF WorkerOK, WorkerTypes
  <2> QED BY <2>1, <2>2, <2>3 DEF WorkerTypes
<1>2. ProcessInv' /\ RunningJobIsLeased' BY DEF ProcessInv, RunningJobIsLeased
<1>3. ResultsInv'
  <2>1. CASE pipe' = <<>> BY SMTT(30), <2>1 DEF ResultsInv
  <2>2. CASE UNCHANGED <<pipe, leases, hb>> BY <2>2 DEF WorkerOK, WorkerInv, ResultsInv
  <2> QED BY <2>1, <2>2
<1>4. SupervisorInv' BY DEF WorkerOK, WorkerInv, SupervisorInv
<1> QED BY <1>1, <1>2, <1>3, <1>4 DEF WorkerOK, WorkerInv

(* The worker's states after a start, a failed start and a stop.           *)
LEMMA FreshWorker ==
  /\ DeadProc \in Process /\ DeadProc.jobs = {} /\ DeadProc.alive = FALSE
  /\ [DeadProc EXCEPT !.alive = TRUE] \in Process /\ [DeadProc EXCEPT !.alive = TRUE].jobs = {}
  /\ Loop \in Supervisor /\ Loop.pc = "loop"
  /\ \A st \in {"crashed", "stopped"} :
       /\ [Loop EXCEPT !.st = st] \in Supervisor /\ [Loop EXCEPT !.st = st].pc = "loop"
       /\ [Loop EXCEPT !.st = st].st = st
BY DEF DeadProc, Process, Loop, Supervisor

(* A job handed to a living process: its message had no lease, so no job   *)
(* and no result of it is left.                                            *)
LEMMA WorkerDelivers ==
  ASSUME WorkerOK, NEW m \in Msgs \ leases, NEW d \in Nat, proc.alive,
         Deliver(m, d), Lease(m), UNCHANGED <<pipe, crashes>>,
         sup' \in Supervisor, sup'.pc = "loop", sup'.st = sup.st
  PROVE  WorkerOK'
<1> DEFINE j == [m |-> m, d |-> d]
<1>1. j \in Delivery /\ j.m = m BY DEF Delivery
<1>2. proc'.alive /\ proc'.jobs = proc.jobs \cup {j} /\ proc' \in Process
  BY <1>1 DEF Deliver, WorkerOK, WorkerTypes, Process
<1>3. \A k \in proc.jobs : k.m # m BY DEF WorkerOK, WorkerInv, RunningJobIsLeased
<1>4. \A i \in 1..Len(pipe) : pipe[i].m # m BY DEF WorkerOK, WorkerInv, ResultsInv
<1>5. leases' = leases \cup {m} /\ hb' = hb \cup {m} BY DEF Lease
<1> HIDE DEF j
<1>6. WorkerTypes' BY <1>2, <1>5 DEF WorkerOK, WorkerTypes
<1>7. ProcessInv' BY <1>2 DEF ProcessInv
<1>8. RunningJobIsLeased'
  BY <1>1, <1>2, <1>3, <1>5 DEF WorkerOK, WorkerInv, RunningJobIsLeased
<1>9. ResultsInv' BY <1>1, <1>2, <1>4, <1>5 DEF WorkerOK, WorkerInv, ResultsInv
<1>10. SupervisorInv' BY DEF WorkerOK, WorkerInv, SupervisorInv
<1> QED BY <1>6, <1>7, <1>8, <1>9, <1>10 DEF WorkerOK, WorkerInv

(* A job ends: its result keeps the lease.                                 *)
LEMMA WorkerReports ==
  ASSUME WorkerOK, NEW j \in proc.jobs, NEW ok \in BOOLEAN, JobEnds(j, ok)
  PROVE  WorkerOK'
<1> DEFINE r == [m |-> j.m, ok |-> ok]
<1>1. j \in Delivery /\ proc \in Process /\ pipe \in Seq(Result)
  BY DEF WorkerOK, WorkerTypes, Process
<1>2. r \in Result /\ r.m = j.m BY <1>1 DEF Delivery, Result
<1>3. proc'.jobs = proc.jobs \ {j} /\ proc' \in Process /\ proc'.alive = proc.alive
  BY <1>1 DEF JobEnds, Process
<1>4. pipe' = Append(pipe, r) /\ UNCHANGED <<sup, leases, hb, crashes>> BY DEF JobEnds
<1> HIDE DEF r
<1>5. /\ pipe' \in Seq(Result) /\ Len(pipe') = Len(pipe) + 1 /\ pipe'[Len(pipe) + 1] = r
      /\ \A i \in 1..Len(pipe') : i # Len(pipe) + 1 =>
           i \in 1..Len(pipe) /\ pipe'[i] = pipe[i]
  BY SMTT(30), <1>1, <1>2, <1>4, AppendLast
<1>6. j.m \in leases /\ \A k \in proc.jobs \ {j} : k.m # j.m
  BY DEF WorkerOK, WorkerInv, RunningJobIsLeased
<1>7. \A i \in 1..Len(pipe) : pipe[i].m # j.m BY DEF WorkerOK, WorkerInv, ResultsInv
<1>8. WorkerTypes' BY <1>3, <1>4, <1>5 DEF WorkerOK, WorkerTypes
<1>9. ProcessInv' /\ RunningJobIsLeased' /\ SupervisorInv'
  BY <1>3, <1>4 DEF WorkerOK, WorkerInv, ProcessInv, RunningJobIsLeased, SupervisorInv
<1>10. ResultsInv'
  BY SMTT(30), <1>2, <1>3, <1>4, <1>5, <1>6, <1>7 DEF WorkerOK, WorkerInv, ResultsInv
<1> QED BY <1>8, <1>9, <1>10 DEF WorkerOK, WorkerInv

(* A result is read: the lease it drops covered nothing else.              *)
LEMMA WorkerSettles ==
  ASSUME WorkerOK, SupResult
  PROVE  WorkerOK'
<1> DEFINE m == Head(pipe).m
<1>1. pipe \in Seq(Result) /\ pipe # <<>> /\ sup \in Supervisor
  BY DEF WorkerOK, WorkerTypes, SupResult
<1>2. /\ Head(pipe) \in Result /\ Head(pipe) = pipe[1] /\ 1 \in 1..Len(pipe)
      /\ Tail(pipe) \in Seq(Result)
      /\ \A i \in 1..Len(Tail(pipe)) : i + 1 \in 1..Len(pipe) /\ Tail(pipe)[i] = pipe[i + 1]
  BY <1>1, TailShift
<1>3. m \in Msgs BY <1>2 DEF Result
<1>4. /\ sup' \in Supervisor /\ sup'.pc \in {"complete", "dlqSend"} /\ sup'.m = m
      /\ sup'.st = sup.st
  BY <1>1, <1>3 DEF SupResult, Supervisor
<1>5. /\ leases' = leases \ {m} /\ hb' = hb \ {m} /\ pipe' = Tail(pipe)
      /\ UNCHANGED <<proc, crashes>>
  BY DEF SupResult
<1>6. /\ \A j \in proc.jobs : j.m # m
      /\ \A k \in 1..Len(pipe) : k # 1 => pipe[k].m # m
  BY <1>2 DEF WorkerOK, WorkerInv, ResultsInv
<1> HIDE DEF m
<1>7. WorkerTypes' BY <1>2, <1>4, <1>5 DEF WorkerOK, WorkerTypes
<1>8. ProcessInv' /\ RunningJobIsLeased'
  BY <1>5, <1>6 DEF WorkerOK, WorkerInv, ProcessInv, RunningJobIsLeased
<1>9. ResultsInv'
  <2> SUFFICES ASSUME NEW i \in 1..Len(pipe')
               PROVE  /\ pipe'[i].m \in leases'
                      /\ \A j \in proc'.jobs : j.m # pipe'[i].m
                      /\ \A k \in 1..Len(pipe') : k # i => pipe'[k].m # pipe'[i].m
    BY DEF ResultsInv
  <2>1. i \in Nat /\ i + 1 \in 1..Len(pipe) /\ pipe'[i] = pipe[i + 1] /\ i + 1 # 1
    BY SMTT(30), <1>2, <1>5
  <2>2. \A k \in 1..Len(pipe') : k + 1 \in 1..Len(pipe) /\ pipe'[k] = pipe[k + 1]
    BY <1>2, <1>5
  <2>3. /\ pipe[i + 1].m \in leases /\ pipe[i + 1].m # m
        /\ \A j \in proc.jobs : j.m # pipe[i + 1].m
        /\ \A k \in 1..Len(pipe) : k # i + 1 => pipe[k].m # pipe[i + 1].m
    BY <1>6, <2>1 DEF WorkerOK, WorkerInv, ResultsInv
  <2>4. \A k \in 1..Len(pipe') : k # i => k + 1 # i + 1 BY SMTT(30), <2>1
  <2> QED BY <1>5, <2>1, <2>2, <2>3, <2>4
<1>10. SupervisorInv' BY <1>3, <1>4, <1>5 DEF WorkerOK, WorkerInv, SupervisorInv
<1> QED BY <1>7, <1>8, <1>9, <1>10 DEF WorkerOK, WorkerInv

(* The supervisor takes a job from its channel, or a blocked write ends.   *)
LEMMA WorkerTakesJob ==
  ASSUME JobsInv, SupJob
  PROVE  WorkerOK'
<1> DEFINE c == Head(cmds)
<1>0. WorkerOK BY DEF JobsInv, TypeOK, WorkerOK, WorkerTypes
<1>1. c \in Command /\ c.op = "job"
  BY TailShift DEF JobsInv, TypeOK, SupJob, Receive
<1>2. c.m \in Msgs /\ c.d \in Nat BY <1>1, CommandFields
<1>3. sup.pc = "loop" /\ sup \in Supervisor /\ UNCHANGED <<pipe, crashes>>
  BY <1>0 DEF SupJob, Receive, WorkerOK, WorkerTypes
<1>4. CASE UNCHANGED <<sup, leases, hb, proc>> BY <1>0, <1>3, <1>4, WorkerUntouched
<1>5. CASE /\ c.m \notin leases /\ proc.alive
           /\ Deliver(c.m, c.d) /\ Lease(c.m) /\ UNCHANGED sup
  BY <1>0, <1>2, <1>3, <1>5, WorkerDelivers
<1>6. CASE Lease(c.m) /\ ~proc.alive /\ UNCHANGED <<sup, proc>>
  <2>1. proc \in Process /\ proc.jobs = {} BY <1>0, <1>6 DEF WorkerOK, WorkerTypes, WorkerInv, ProcessInv
  <2>2. leases' = leases \cup {c.m} /\ hb' = hb \cup {c.m} BY <1>6 DEF Lease
  <2>3. WorkerTypes' BY <1>0, <1>2, <1>3, <1>6, <2>2 DEF WorkerOK, WorkerTypes
  <2>4. ResultsInv' BY <1>0, <1>3, <1>6, <2>2 DEF WorkerOK, WorkerInv, ResultsInv
  <2>5. ProcessInv' /\ RunningJobIsLeased' BY <1>6, <2>1 DEF ProcessInv, RunningJobIsLeased
  <2>6. SupervisorInv' BY <1>0, <1>3, <1>6 DEF WorkerOK, WorkerInv, SupervisorInv
  <2> QED BY <2>3, <2>4, <2>5, <2>6 DEF WorkerOK, WorkerInv
<1>7. CASE /\ c.m \notin leases
           /\ sup' = [sup EXCEPT !.pc = "writing", !.m = c.m, !.d = c.d]
           /\ UNCHANGED <<leases, hb, proc>>
  <2>1. sup' \in Supervisor /\ sup'.pc = "writing" /\ sup'.m = c.m /\ sup'.st = sup.st
    BY <1>2, <1>3, <1>7 DEF Supervisor
  <2>2. WorkerTypes' BY <1>0, <1>3, <1>7, <2>1 DEF WorkerOK, WorkerTypes
  <2>3. ProcessInv' /\ RunningJobIsLeased' /\ ResultsInv'
    BY <1>0, <1>3, <1>7 DEF WorkerOK, WorkerInv, ProcessInv, RunningJobIsLeased, ResultsInv
  <2>4. SupervisorInv' BY SMTT(30), <1>0, <1>2, <1>3, <1>7, <2>1 DEF WorkerOK, WorkerInv, SupervisorInv
  <2> QED BY <2>2, <2>3, <2>4 DEF WorkerOK, WorkerInv
<1> QED BY <1>4, <1>5, <1>6, <1>7 DEF SupJob, job_already_in_flight

(* The stop of a worker, and the end of a write that blocked.              *)
LEMMA WorkerStops ==
  ASSUME WorkerOK, Stopped
  PROVE  WorkerOK'
<1>1. /\ proc' = DeadProc /\ pipe' = <<>> /\ leases' = {} /\ hb' = {}
      /\ sup' = [Loop EXCEPT !.st = "stopped"]
  BY DEF Stopped, Forget
<1>2. sup' \in Supervisor /\ sup'.pc = "loop" /\ sup'.st = "stopped" /\ proc' \in Process
      /\ proc'.jobs = {}
  BY <1>1, FreshWorker
<1>3. crashes' \in [recent : 0..MAX_CRASHES, restarts : 0..2]
  BY SMTT(30), JobsAssumption DEF Stopped, WorkerOK, WorkerTypes
<1> QED BY <1>1, <1>2, <1>3, WorkerEmptied

(* What the supervisor does in its loop with the database and with a dead  *)
(* process.                                                                *)
LEMMA WorkerMovesOn ==
  ASSUME WorkerOK, UNCHANGED <<leases, hb, proc, pipe, crashes>>,
         \/ Back
         \/ sup' = [sup EXCEPT !.pc = "stopping"]
         \/ sup.pc = "dlqSend" /\ sup' = [sup EXCEPT !.pc = "dlqArchive"]
  PROVE  WorkerOK'
<1>0. sup \in Supervisor BY DEF WorkerOK, WorkerTypes
<1>1. /\ sup' \in Supervisor /\ sup'.st = sup.st /\ sup'.pc \in {"loop", "stopping", "dlqArchive"}
      /\ sup'.pc = "dlqArchive" => sup.pc = "dlqSend" /\ sup'.m = sup.m
  <2>1. CASE Back BY <1>0, <2>1 DEF Back, Supervisor
  <2>2. CASE sup' = [sup EXCEPT !.pc = "stopping"] BY <1>0, <2>2 DEF Supervisor
  <2>3. CASE sup.pc = "dlqSend" /\ sup' = [sup EXCEPT !.pc = "dlqArchive"]
    BY <1>0, <2>3 DEF Supervisor
  <2> QED BY <2>1, <2>2, <2>3
<1>2. WorkerTypes' BY <1>1 DEF WorkerOK, WorkerTypes
<1>3. ProcessInv' /\ RunningJobIsLeased' /\ ResultsInv'
  BY DEF WorkerOK, WorkerInv, ProcessInv, RunningJobIsLeased, ResultsInv
<1>4. SupervisorInv' BY <1>1 DEF WorkerOK, WorkerInv, SupervisorInv
<1> QED BY <1>2, <1>3, <1>4 DEF WorkerOK, WorkerInv

(* A blocked write ends.                                                   *)
LEMMA WorkerUnblocks ==
  ASSUME WorkerOK, SupUnblocked
  PROVE  WorkerOK'
<1>1. CASE Stopped BY <1>1, WorkerStops
<1>2. CASE /\ sup.pc = "writing"
           /\ sup' = [sup EXCEPT !.pc = "loop", !.m = NoMsg, !.d = 0]
           /\ IF proc.alive THEN Deliver(sup.m, sup.d) /\ Lease(sup.m)
                            ELSE UNCHANGED <<leases, hb, proc, started>>
           /\ UNCHANGED <<entry, pipe, crashes>>
  <2>1. sup \in Supervisor /\ sup.m \in Msgs \ leases
    BY <1>2 DEF WorkerOK, WorkerTypes, WorkerInv, SupervisorInv
  <2>2. sup.d \in Nat BY <2>1 DEF Supervisor
  <2>3. sup' \in Supervisor /\ sup'.pc = "loop" /\ sup'.st = sup.st
    BY <1>2, <2>1 DEF Supervisor
  <2>4. CASE proc.alive BY <1>2, <2>1, <2>2, <2>3, <2>4, WorkerDelivers
  <2>5. CASE ~proc.alive
    <3>1. UNCHANGED <<leases, hb, proc, pipe, crashes>> BY <1>2, <2>5
    <3>2. proc' \in Process /\ proc'.jobs = {}
      BY <2>5, <3>1 DEF WorkerOK, WorkerTypes, WorkerInv, ProcessInv
    <3>3. /\ crashes' \in [recent : 0..MAX_CRASHES, restarts : 0..2]
          /\ sup'.st = "running" => crashes'.recent < MAX_CRASHES
      BY <2>3, <3>1 DEF WorkerOK, WorkerTypes, WorkerInv, SupervisorInv
    <3> QED BY <2>3, <3>1, <3>2, <3>3, WorkerEmptied
  <2> QED BY <2>4, <2>5
<1> QED BY <1>1, <1>2 DEF SupUnblocked

(* A new process, or none when it cannot be started.                       *)
LEMMA WorkerRestarts ==
  ASSUME WorkerOK, Restart,
         \/ pipe' = <<>> /\ leases' \subseteq leases /\ hb' \subseteq leases'
         \/ UNCHANGED <<pipe, leases, hb>>,
         crashes' \in [recent : 0..MAX_CRASHES, restarts : 0..2],
         crashes'.recent < MAX_CRASHES
  PROVE  WorkerOK'
<1>1. /\ proc' \in Process /\ proc'.jobs = {}
      /\ sup' \in Supervisor /\ sup'.pc = "loop"
  BY FreshWorker DEF Restart
<1> QED BY <1>1, WorkerEmptied

(* The process has died with its output read to the end.                   *)
LEMMA WorkerCrashes ==
  ASSUME WorkerOK, SupCrash
  PROVE  WorkerOK'
<1>0. /\ sup \in Supervisor /\ sup.pc = "loop" /\ sup.st = "running"
      /\ proc \in Process /\ proc.jobs = {} /\ pipe' = <<>> /\ leases' = {} /\ hb' = {}
      /\ crashes \in [recent : 0..MAX_CRASHES, restarts : 0..2]
      /\ crashes.recent < MAX_CRASHES
  BY DEF SupCrash, WorkerOK, WorkerTypes, WorkerInv, ProcessInv, SupervisorInv
<1>1. PICK n \in 1..crashes.recent + 1 :
        /\ crashes' = [recent |-> n, restarts |-> IF crashes.restarts = 0 THEN 1 ELSE 2]
        /\ \/ n >= MAX_CRASHES /\ sup' = [sup EXCEPT !.st = "crashed"] /\ UNCHANGED proc
           \/ n < MAX_CRASHES /\ crashes.restarts = 0 /\ Restart
           \/ /\ n < MAX_CRASHES /\ crashes.restarts > 0
              /\ sup' = [sup EXCEPT !.pc = "backoff"] /\ UNCHANGED proc
  BY DEF SupCrash
<1>2. crashes' \in [recent : 0..MAX_CRASHES, restarts : 0..2] /\ crashes'.recent = n
  BY SMTT(30), <1>0, <1>1, JobsAssumption
<1>3. CASE Restart /\ n < MAX_CRASHES BY <1>0, <1>2, <1>3, WorkerRestarts
<1>4. CASE \/ sup' = [sup EXCEPT !.st = "crashed"] /\ UNCHANGED proc
           \/ n < MAX_CRASHES /\ sup' = [sup EXCEPT !.pc = "backoff"] /\ UNCHANGED proc
  <2>1. /\ sup' \in Supervisor /\ sup'.pc \in {"loop", "backoff"}
        /\ sup'.st = "running" \/ sup'.pc = "backoff" => n < MAX_CRASHES
    <3>1. CASE sup' = [sup EXCEPT !.st = "crashed"] BY <1>0, <3>1 DEF Supervisor
    <3>2. CASE n < MAX_CRASHES /\ sup' = [sup EXCEPT !.pc = "backoff"]
      BY <1>0, <3>2 DEF Supervisor
    <3> QED BY <1>4, <3>1, <3>2
  <2>2. UNCHANGED proc BY <1>4
  <2> QED BY <1>0, <1>2, <2>1, <2>2, WorkerEmptied
<1> QED BY <1>1, <1>3, <1>4

(* A backoff ends with its delay or with a command.                        *)
LEMMA WorkerBacksOff ==
  ASSUME JobsInv, SupBackoff
  PROVE  WorkerOK'
<1>0. WorkerOK BY DEF JobsInv, TypeOK, WorkerOK, WorkerTypes
<1>1. CASE Stopped BY <1>0, <1>1, WorkerStops
<1>2. CASE Restart /\ UNCHANGED <<leases, hb, pipe, crashes>>
  <2>1. CASE crashes.recent < MAX_CRASHES
    <3>1. crashes' \in [recent : 0..MAX_CRASHES, restarts : 0..2] /\ crashes'.recent < MAX_CRASHES
      BY <1>0, <1>2, <2>1 DEF WorkerOK, WorkerTypes
    <3> QED BY <1>0, <1>2, <3>1, WorkerRestarts
  <2> QED BY <2>1, <1>0 DEF SupBackoff, WorkerOK, WorkerInv, SupervisorInv
<1> QED BY <1>1, <1>2 DEF SupBackoff

(* Every step keeps the worker's side.                                     *)
LEMMA WorkerStep ==
  ASSUME JobsInv, [Next]_vars
  PROVE  WorkerOK'
<1>0. WorkerOK BY DEF JobsInv, TypeOK, WorkerOK, WorkerTypes
<1>1. CASE UNCHANGED <<sup, leases, hb, proc, pipe, crashes>> BY <1>0, <1>1, WorkerUntouched
<1>2. CASE UNCHANGED vars BY <1>1, <1>2 DEF vars
<1>3. ASSUME NEW m \in Msgs, Enqueue(m) \/ Renew(m) \/ LeaseExpires(m) PROVE WorkerOK'
  BY <1>1, <1>3 DEF Enqueue, Renew, LeaseExpires, workerVars
<1>4. ASSUME NEW m \in Msgs, HeartbeatGivesUp(m) PROVE WorkerOK'
  <2>1. hb' = hb \ {m} /\ UNCHANGED <<sup, leases, proc, pipe, crashes>>
    BY <1>4 DEF HeartbeatGivesUp
  <2> QED
    BY <1>0, <2>1 DEF WorkerOK, WorkerTypes, WorkerInv, ProcessInv, RunningJobIsLeased,
                      ResultsInv, SupervisorInv
<1>5. ASSUME NEW t \in Tasks, NEW m \in Msgs, Poll(t, m) PROVE WorkerOK'
  BY <1>1, <1>5 DEF Poll, workerVars
<1>6. ASSUME NEW t \in Tasks, TaskStep(t) PROVE WorkerOK'
  <2>1. CASE Check(t) \/ Resolve(t) \/ Send(t) \/ FailJob(t) \/ DlqSend(t) \/ DlqArchive(t)
    BY <1>1, <2>1 DEF Check, Resolve, Send, FailJob, DlqSend, DlqArchive, workerVars
  <2>2. CASE Spawn(t)
    <3>1. CASE /\ Restart /\ pipe' = <<>> /\ UNCHANGED <<leases, hb>>
               /\ crashes' = [recent |-> 0, restarts |-> 0]
      <4>1. crashes' \in [recent : 0..MAX_CRASHES, restarts : 0..2] /\ crashes'.recent < MAX_CRASHES
        BY SMTT(30), <3>1, JobsAssumption
      <4>2. leases' \subseteq leases /\ hb' \subseteq leases'
        BY <1>0, <3>1 DEF WorkerOK, WorkerTypes
      <4> QED BY <1>0, <3>1, <4>1, <4>2, WorkerRestarts
    <3> QED BY <1>1, <2>2, <3>1 DEF Spawn, Restart
  <2> QED BY <1>6, <2>1, <2>2 DEF TaskStep
<1>7. CASE SupStatus BY <1>1, <1>7 DEF SupStatus, workerVars
<1>8. CASE SupStop
  BY <1>0, <1>8, WorkerStops, WorkerMovesOn DEF SupStop
<1>9. CASE SupComplete \/ SupDlqSend \/ SupDlqArchive
  BY <1>0, <1>9, WorkerMovesOn DEF SupComplete, SupDlqSend, SupDlqArchive
<1>10. CASE ProcDies
  <2>1. proc' \in Process /\ proc'.jobs = {} /\ UNCHANGED <<sup, leases, hb, pipe, crashes>>
    BY <1>10, FreshWorker DEF ProcDies
  <2> QED BY <1>0, <2>1, WorkerEmptied
<1>11. CASE RequestStop BY <1>1, <1>11 DEF RequestStop, workerVars
<1>12. CASE CoreRestarts
  <2>1. /\ proc' = DeadProc /\ pipe' = <<>> /\ leases' = {} /\ hb' = {}
        /\ sup' = [Loop EXCEPT !.st = "stopped"] /\ crashes' = [recent |-> 0, restarts |-> 0]
    BY <1>12 DEF CoreRestarts, Forget
  <2>2. /\ sup' \in Supervisor /\ sup'.pc = "loop" /\ sup'.st = "stopped"
        /\ proc' \in Process /\ proc'.jobs = {}
    BY <2>1, FreshWorker
  <2>3. crashes' \in [recent : 0..MAX_CRASHES, restarts : 0..2] BY SMTT(30), <2>1, JobsAssumption
  <2> QED BY <1>0, <2>1, <2>2, <2>3, WorkerEmptied
<1>13. CASE SupStep
  BY <1>0, <1>7, <1>8, <1>9, <1>13, WorkerTakesJob, WorkerSettles, WorkerCrashes, WorkerBacksOff
  DEF SupStep
<1> QED
  BY <1>0, <1>2, <1>3, <1>4, <1>5, <1>6, <1>10, <1>11, <1>12, <1>13, WorkerUnblocks,
     WorkerReports
  DEF Next

(***************************************************************************)
(* The scheduler's side: what a step does to the holders of deliveries.    *)
(***************************************************************************)
(* A step that hands out, ends or settles nothing new.                     *)
QueueCalm ==
  /\ \A m \in Msgs : queue'[m].ct = queue[m].ct /\ (queue'[m].st = "unsent" <=> queue[m].st = "unsent")
  /\ \/ Phase' = Phase
     \/ \E m \in Msgs : Phase[m] = "pending" /\ Phase' = [Phase EXCEPT ![m] = "settled"]

(* Tasks end or go on with the delivery they hold; the exhaustion check    *)
(* stands between Poll and every admitted program point.                   *)
TasksCalm ==
  \A t \in Tasks :
    \/ tasks'[t].pc = "idle"
    \/ /\ tasks[t].pc # "idle" /\ tasks'[t].m = tasks[t].m /\ tasks'[t].ct = tasks[t].ct
       /\ tasks'[t].pc \in Admitted => tasks[t].pc \in Admitted \/ tasks[t].ct <= MaxDeliveries

(* The jobs in the channel are the ones that were there, less the first    *)
(* `off` commands.                                                         *)
JobsShifted(off) ==
  \A i \in 1..Len(cmds') : cmds'[i].op = "job" =>
    i + off \in 1..Len(cmds) /\ cmds'[i] = cmds[i + off]

(* A supervisor blocked on a job was blocked on it before.                 *)
WriterCalm == sup'.pc = "writing" => sup.pc = "writing" /\ sup'.m = sup.m /\ sup'.d = sup.d

Calm ==
  /\ QueueCalm /\ TasksCalm /\ (\E off \in {0, 1} : JobsShifted(off)) /\ WriterCalm
  /\ proc'.jobs \subseteq proc.jobs /\ UNCHANGED started

(* The other kinds of step: a message is sent, a delivery handed out, put  *)
(* into the channel, taken from it into a write that blocks, or started    *)
(* from the channel or from such a write.                                  *)
Posts(t) ==
  /\ tasks[t].pc = "send" /\ Push([op |-> "job", m |-> tasks[t].m, d |-> tasks[t].ct])
  /\ Finish(t)
  /\ UNCHANGED <<queue, sup, proc, started>>

Takes(m, d) == Receive("job") /\ Head(cmds).m = m /\ Head(cmds).d = d

Blocks(m, d) ==
  /\ Takes(m, d)
  /\ sup' = [sup EXCEPT !.pc = "writing", !.m = m, !.d = d]
  /\ UNCHANGED <<queue, tasks, proc, started>>

Starts(m, d) ==
  /\ \/ Takes(m, d) /\ UNCHANGED sup
     \/ sup.pc = "writing" /\ sup.m = m /\ sup.d = d /\ sup'.pc = "loop" /\ UNCHANGED cmds
  /\ m \notin leases
  /\ Deliver(m, d)
  /\ UNCHANGED <<queue, tasks>>

(* Settling, renewing, losing a lease or doing nothing is calm.            *)
LEMMA CalmStatements ==
  ASSUME TypeOK, UNCHANGED queue \/ \E m \in Msgs : Leaves(m) \/ Hides(m)
  PROVE  QueueCalm
<1>0. queue \in QueueRows({NoMsg}) BY DEF TypeOK, QueueTypeOK, QueueRows
<1>1. CASE UNCHANGED queue BY <1>1 DEF QueueCalm, Phase, Settled
<1>2. ASSUME NEW m \in Msgs, Leaves(m) PROVE QueueCalm
  <2>1. /\ \A k \in Msgs : queue'[k].ct = queue[k].ct /\ (k # m => queue'[k] = queue[k])
        /\ queue'[m].st = queue[m].st
             \/ (queue[m].st \in InQueue /\ queue'[m].st \in {"archived", "deleted"})
    BY <1>0, <1>2, LeaveRows
  <2>2. \/ Phase' = Phase
        \/ Phase[m] = "pending" /\ Phase' = [Phase EXCEPT ![m] = "settled"]
    BY <1>0, <1>2, LeavePhase
  <2>3. \A k \in Msgs : queue'[k].st = "unsent" <=> queue[k].st = "unsent"
    BY <2>1 DEF InQueue
  <2> QED BY <2>1, <2>2, <2>3 DEF QueueCalm
<1>3. ASSUME NEW m \in Msgs, Hides(m) PROVE QueueCalm
  <2>1. /\ \A k \in Msgs : queue'[k].ct = queue[k].ct /\ (k # m => queue'[k] = queue[k])
        /\ queue[m].st \in InQueue /\ queue'[m].st \in InQueue
    BY <1>0, <1>3, HideRows
  <2>2. Phase' = Phase BY <1>0, <1>3, HidePhase
  <2>3. \A k \in Msgs : queue'[k].st = "unsent" <=> queue[k].st = "unsent"
    BY <2>1 DEF InQueue
  <2> QED BY <2>1, <2>2, <2>3 DEF QueueCalm
<1> QED BY <1>1, <1>2, <1>3

(* What does not put a job into the channel shifts the jobs in it.         *)
LEMMA CalmChannel ==
  ASSUME TypeOK
  PROVE  /\ UNCHANGED cmds => JobsShifted(0)
         /\ cmds # <<>> /\ cmds' = Tail(cmds) => JobsShifted(1)
         /\ \A c \in Command : c.op # "job" /\ Push(c) => JobsShifted(0)
         /\ cmds' = <<>> => JobsShifted(0)
<1>0. cmds \in Seq(Command) /\ Len(cmds) \in Nat BY SMTT(30) DEF TypeOK
<1>1. UNCHANGED cmds => JobsShifted(0) BY SMTT(30), <1>0 DEF JobsShifted
<1>2. ASSUME cmds # <<>>, cmds' = Tail(cmds) PROVE JobsShifted(1)
  BY <1>0, <1>2, TailShift DEF JobsShifted
<1>3. ASSUME NEW c \in Command, c.op # "job", Push(c) PROVE JobsShifted(0)
  <2>1. cmds' = Append(cmds, c) BY <1>3 DEF Push
  <2>2. /\ Len(cmds') = Len(cmds) + 1 /\ cmds'[Len(cmds) + 1] = c
        /\ \A i \in 1..Len(cmds') : i # Len(cmds) + 1 => i \in 1..Len(cmds) /\ cmds'[i] = cmds[i]
    BY SMTT(30), <1>0, <2>1, AppendLast
  <2> QED BY SMTT(30), <1>0, <1>3, <2>2 DEF JobsShifted
<1>4. cmds' = <<>> => JobsShifted(0) BY SMTT(30) DEF JobsShifted
<1> QED BY <1>1, <1>2, <1>3, <1>4

(* A task's moves are calm.                                                *)
LEMMA CalmTaskMoves ==
  ASSUME TypeOK
  PROVE  /\ UNCHANGED tasks => TasksCalm
         /\ \A t \in Tasks :
              /\ Finish(t) => TasksCalm
              /\ \A pc : /\ Goto(t, pc) /\ tasks[t].pc # "idle"
                         /\ pc \in Admitted =>
                              tasks[t].pc \in Admitted \/ tasks[t].ct <= MaxDeliveries
                         => TasksCalm
<1>0. tasks \in [Tasks -> Task] BY DEF TypeOK
<1>1. UNCHANGED tasks => TasksCalm BY <1>0 DEF TasksCalm
<1>2. ASSUME NEW t \in Tasks, Finish(t) PROVE TasksCalm
  <2>1. tasks'[t].pc = "idle" /\ \A u \in Tasks \ {t} : tasks'[u] = tasks[u]
    BY <1>0, <1>2, TaskMoves
  <2> QED BY <2>1 DEF TasksCalm
<1>3. ASSUME NEW t \in Tasks, NEW pc, Goto(t, pc), tasks[t].pc # "idle",
             pc \in Admitted => tasks[t].pc \in Admitted \/ tasks[t].ct <= MaxDeliveries
      PROVE  TasksCalm
  <2>1. /\ tasks'[t].m = tasks[t].m /\ tasks'[t].ct = tasks[t].ct /\ tasks'[t].pc = pc
        /\ \A u \in Tasks \ {t} : tasks'[u] = tasks[u]
    BY <1>0, <1>3, TaskMoves
  <2> QED BY <1>3, <2>1 DEF TasksCalm
<1> QED BY <1>1, <1>2, <1>3

(* Steps of a dispatch task are calm, unless they post a job.              *)
LEMMA TaskStepsAreCalm ==
  ASSUME JobsInv, NEW t \in Tasks, TaskStep(t)
  PROVE  Calm \/ Posts(t)
<1>0. TypeOK /\ tasks \in [Tasks -> Task] /\ tasks[t].pc # "idle" /\ tasks[t].m \in Msgs
  <2>1. tasks[t].pc # "idle"
    BY DEF TaskStep, Check, Resolve, Spawn, Send, FailJob, DlqSend, DlqArchive, At
  <2> QED BY <2>1 DEF JobsInv, TypeOK, DeliveryInv, HoldersInv, Pending
<1>1. CASE Send(t) /\ tasks[t].pc = "send"
  BY <1>1 DEF Send, Posts, At, workerVars
<1>2. ASSUME ~(Send(t) /\ tasks[t].pc = "send") PROVE Calm
  <2>1. UNCHANGED started
    BY DEF TaskStep, Check, Resolve, Spawn, Send, FailJob, DlqSend, DlqArchive, workerVars
  <2>2. QueueCalm
    <3>1. UNCHANGED queue \/ Leaves(tasks[t].m)
      BY DEF TaskStep, Check, Resolve, Spawn, Send, FailJob, DlqSend, DlqArchive, Leaves
    <3> QED BY <1>0, <3>1, CalmStatements
  <2>3. JobsShifted(0)
    <3>1. UNCHANGED cmds \/ Push([op |-> "status", t |-> t])
      BY <1>2 DEF TaskStep, Check, Resolve, Spawn, Send, FailJob, DlqSend, DlqArchive, At
    <3> QED BY <1>0, <3>1, CalmChannel, Commands
  <2>4. UNCHANGED <<sup, proc>> \/ (Spawn(t) /\ Restart)
    BY DEF TaskStep, Check, Resolve, Spawn, Send, FailJob, DlqSend, DlqArchive, workerVars, Restart
  <2>5. WriterCalm /\ proc'.jobs \subseteq proc.jobs
    BY <2>4, FreshWorker DEF Restart, WriterCalm
  <2>6. TasksCalm
    <3>1. CASE Send(t) \/ FailJob(t) \/ DlqArchive(t)
      BY <1>0, <3>1, CalmTaskMoves DEF Send, FailJob, DlqArchive
    <3>2. CASE Check(t)
      <4>1. tasks[t].ct \in Nat BY <1>0 DEF Task
      <4> QED
        BY SMTT(30), <1>0, <3>2, <4>1, CalmTaskMoves, QueueAssumption DEF Check, delivery_exhausted, Admitted
    <3>3. CASE Resolve(t) \/ DlqSend(t)
      BY <1>0, <3>3, CalmTaskMoves DEF Resolve, DlqSend, At, Admitted
    <3>4. CASE Spawn(t) /\ (Goto(t, "send") \/ Goto(t, "fail"))
      BY <1>0, <3>4, CalmTaskMoves DEF Spawn, At, Admitted
    <3>5. CASE /\ tasks[t].pc = "spawn"
               /\ tasks' = [u \in Tasks |->
                    IF u = t THEN [tasks[u] EXCEPT !.pc = "send"]
                    ELSE IF At(u, "send") THEN [tasks[u] EXCEPT !.pc = "stale"] ELSE tasks[u]]
      <4> SUFFICES ASSUME NEW u \in Tasks
                   PROVE  \/ tasks'[u].pc = "idle"
                          \/ /\ tasks[u].pc # "idle"
                             /\ tasks'[u].m = tasks[u].m /\ tasks'[u].ct = tasks[u].ct
                             /\ tasks'[u].pc \in Admitted =>
                                  tasks[u].pc \in Admitted \/ tasks[u].ct <= MaxDeliveries
        BY DEF TasksCalm
      <4>1. tasks[u] \in Task BY <1>0
      <4>2. CASE u = t \/ At(u, "send")
        <5>1. PICK pc \in {"send", "stale"} : tasks'[u] = [tasks[u] EXCEPT !.pc = pc]
          BY <3>5, <4>2
        <5>2. tasks'[u].m = tasks[u].m /\ tasks'[u].ct = tasks[u].ct BY <4>1, <5>1 DEF Task
        <5> QED BY <3>5, <4>2, <5>2 DEF Admitted, At
      <4>3. CASE u # t /\ ~At(u, "send")
        <5>1. tasks'[u] = tasks[u] BY <3>5, <4>3
        <5> QED BY <5>1
      <4> QED BY <4>2, <4>3
    <3> QED BY <3>1, <3>2, <3>3, <3>4, <3>5 DEF TaskStep, Spawn, At
  <2> QED BY <2>1, <2>2, <2>3, <2>5, <2>6 DEF Calm
<1> QED BY <1>1, <1>2

(* Steps of the supervisor are calm, unless they block on a job or start   *)
(* one.                                                                    *)
LEMMA SupStepsAreCalm ==
  ASSUME JobsInv, SupStep \/ SupUnblocked
  PROVE  Calm \/ \E m \in Msgs, d \in Nat : Blocks(m, d) \/ Starts(m, d)
<1>0. /\ TypeOK /\ tasks \in [Tasks -> Task] /\ sup \in Supervisor /\ proc \in Process
      /\ cmds \in Seq(Command) /\ WorkerInv /\ DeliveryInv
  BY DEF JobsInv, TypeOK
<1>1. ASSUME cmds # <<>>
      PROVE  /\ Head(cmds) \in Command /\ 1 \in 1..Len(cmds) /\ Head(cmds) = cmds[1]
             /\ Head(cmds).op = "job" => Head(cmds).m \in Msgs /\ Head(cmds).d \in Nat
             /\ Head(cmds).op = "status" =>
                  Head(cmds).t \in Tasks /\ tasks[Head(cmds).t].pc = "waiting"
  <2>1. Head(cmds) \in Command /\ 1 \in 1..Len(cmds) /\ Head(cmds) = cmds[1]
    BY <1>0, <1>1, TailShift
  <2> QED BY <1>0, <2>1, CommandFields DEF DeliveryInv, WaitingInv
<1>2. ASSUME cmds # <<>>, Head(cmds).op = "status",
             NEW pc, Goto(Head(cmds).t, pc)
      PROVE  TasksCalm
  BY <1>0, <1>1, <1>2, CalmTaskMoves DEF Admitted
<1>3. ASSUME Stopped \/ Restart \/ UNCHANGED <<sup, proc>>
      PROVE  WriterCalm /\ proc'.jobs \subseteq proc.jobs
  BY <1>3, FreshWorker DEF Stopped, Forget, Restart, WriterCalm
<1>4. CASE SupStatus
  BY <1>0, <1>2, <1>3, <1>4, CalmStatements, CalmChannel
  DEF SupStatus, Receive, workerVars, Calm
<1>5. CASE SupJob
  <2> DEFINE m == Head(cmds).m
             d == Head(cmds).d
  <2>0. m \in Msgs /\ d \in Nat /\ Takes(m, d)
    BY <1>1, <1>5 DEF SupJob, Receive, Takes
  <2>1. UNCHANGED <<queue, tasks>> /\ cmds # <<>> /\ cmds' = Tail(cmds)
    BY <1>5 DEF SupJob, Receive
  <2>2. CASE UNCHANGED <<sup, proc, started>>
    BY <1>0, <1>3, <2>1, <2>2, CalmStatements, CalmChannel, CalmTaskMoves DEF Calm
  <2>3. CASE m \notin leases /\ Deliver(m, d) /\ UNCHANGED sup
    <3>1. Starts(m, d) BY <2>0, <2>1, <2>3 DEF Starts
    <3> QED BY <2>0, <3>1
  <2>4. CASE /\ sup' = [sup EXCEPT !.pc = "writing", !.m = m, !.d = d]
             /\ UNCHANGED <<proc, started>>
    <3>1. Blocks(m, d) BY <2>0, <2>1, <2>4 DEF Blocks
    <3> QED BY <2>0, <3>1
  <2> QED BY <1>5, <2>2, <2>3, <2>4 DEF SupJob, job_already_in_flight
<1>6. CASE SupStop
  <2>1. UNCHANGED <<queue, tasks, started>> /\ cmds # <<>> /\ cmds' = Tail(cmds)
    BY <1>6 DEF SupStop, Receive
  <2>2. WriterCalm /\ proc'.jobs \subseteq proc.jobs
    <3>1. CASE sup' = [sup EXCEPT !.pc = "stopping"] /\ UNCHANGED proc
      <4>1. sup'.pc = "stopping" BY <1>0, <3>1 DEF Supervisor
      <4> QED BY <3>1, <4>1 DEF WriterCalm
    <3> QED BY <1>3, <1>6, <3>1 DEF SupStop
  <2> QED BY <1>0, <2>1, <2>2, CalmStatements, CalmChannel, CalmTaskMoves DEF Calm
<1>7. CASE SupResult \/ SupComplete \/ SupDlqSend \/ SupDlqArchive
  <2>1. UNCHANGED <<tasks, cmds, proc, started>>
    BY <1>7 DEF SupResult, SupComplete, SupDlqSend, SupDlqArchive
  <2>2. UNCHANGED queue \/ (sup.m \in Msgs /\ Leaves(sup.m))
    BY <1>0, <1>7 DEF SupResult, SupComplete, SupDlqSend, SupDlqArchive, Leaves, WorkerInv,
                      SupervisorInv
  <2>3. WriterCalm
    <3>1. CASE SupResult
      <4>1. sup'.pc \in {"complete", "dlqSend"} BY <1>0, <3>1 DEF SupResult, Supervisor
      <4> QED BY <4>1 DEF WriterCalm
    <3>2. CASE Back
      <4>1. sup'.pc = "loop" BY <1>0, <3>2 DEF Back, Supervisor
      <4> QED BY <4>1 DEF WriterCalm
    <3>3. CASE sup' = [sup EXCEPT !.pc = "dlqArchive"]
      <4>1. sup'.pc = "dlqArchive" BY <1>0, <3>3 DEF Supervisor
      <4> QED BY <4>1 DEF WriterCalm
    <3> QED BY <1>7, <3>1, <3>2, <3>3 DEF SupComplete, SupDlqSend, SupDlqArchive
  <2> QED BY <1>0, <2>1, <2>2, <2>3, CalmStatements, CalmChannel, CalmTaskMoves DEF Calm
<1>8. CASE SupCrash
  <2>1. UNCHANGED <<queue, tasks, cmds, started>> /\ sup.pc = "loop" BY <1>8 DEF SupCrash
  <2>2. WriterCalm /\ proc'.jobs \subseteq proc.jobs
    <3>1. CASE sup' = [sup EXCEPT !.st = "crashed"] /\ UNCHANGED proc
      <4>1. sup'.pc = "loop" BY <1>0, <2>1, <3>1 DEF Supervisor
      <4> QED BY <3>1, <4>1 DEF WriterCalm
    <3>2. CASE sup' = [sup EXCEPT !.pc = "backoff"] /\ UNCHANGED proc
      <4>1. sup'.pc = "backoff" BY <1>0, <3>2 DEF Supervisor
      <4> QED BY <3>2, <4>1 DEF WriterCalm
    <3> QED BY <1>3, <1>8, <3>1, <3>2 DEF SupCrash
  <2> QED BY <1>0, <2>1, <2>2, CalmStatements, CalmChannel, CalmTaskMoves DEF Calm
<1>9. CASE SupBackoff
  <2>1. UNCHANGED <<queue, started>> /\ (Stopped \/ Restart) BY <1>9 DEF SupBackoff
  <2>2. UNCHANGED cmds \/ (cmds # <<>> /\ cmds' = Tail(cmds)) BY <1>9 DEF SupBackoff
  <2>3. TasksCalm
    <3>1. CASE UNCHANGED tasks BY <1>0, <3>1, CalmTaskMoves
    <3>2. CASE cmds # <<>> /\ Head(cmds).op = "status" /\ Goto(Head(cmds).t, "send")
      BY <1>2, <3>2
    <3> QED BY <1>9, <3>1, <3>2 DEF SupBackoff
  <2> QED BY <1>0, <1>3, <2>1, <2>2, <2>3, CalmStatements, CalmChannel DEF Calm
<1>10. CASE SupUnblocked
  <2>1. UNCHANGED <<queue, tasks, cmds>> BY <1>10 DEF SupUnblocked
  <2>2. CASE Stopped /\ UNCHANGED started
    BY <1>0, <1>3, <2>1, <2>2, CalmStatements, CalmChannel, CalmTaskMoves DEF Calm
  <2>3. CASE /\ sup.pc = "writing"
             /\ sup' = [sup EXCEPT !.pc = "loop", !.m = NoMsg, !.d = 0]
             /\ IF proc.alive THEN Deliver(sup.m, sup.d) /\ Lease(sup.m)
                              ELSE UNCHANGED <<leases, hb, proc, started>>
    <3>1. sup'.pc = "loop" /\ sup.d \in Nat /\ sup.m \in Msgs \ leases
      BY <1>0, <2>3 DEF Supervisor, WorkerInv, SupervisorInv
    <3>2. CASE proc.alive
      <4>1. Starts(sup.m, sup.d) BY <2>1, <2>3, <3>1, <3>2 DEF Starts
      <4> QED BY <3>1, <4>1
    <3>3. CASE UNCHANGED <<proc, started>>
      BY <1>0, <2>1, <3>1, <3>3, CalmStatements, CalmChannel, CalmTaskMoves DEF Calm, WriterCalm
    <3> QED BY <2>3, <3>2, <3>3
  <2> QED BY <1>10, <2>2, <2>3 DEF SupUnblocked
<1> QED BY <1>4, <1>5, <1>6, <1>7, <1>8, <1>9, <1>10 DEF SupStep

(* Every step is calm, sends a message, hands out a delivery, posts it,    *)
(* blocks on it or starts it.                                              *)
LEMMA SixKinds ==
  ASSUME JobsInv, [Next]_vars
  PROVE  \/ Calm
         \/ \E m \in Msgs : Enqueue(m)
         \/ \E t \in Tasks, m \in Msgs : Poll(t, m)
         \/ \E t \in Tasks : Posts(t)
         \/ \E m \in Msgs, d \in Nat : Blocks(m, d) \/ Starts(m, d)
<1>0. TypeOK /\ proc \in Process BY DEF JobsInv, TypeOK
<1>1. ASSUME UNCHANGED <<tasks, cmds, sup, proc, started>>,
             UNCHANGED queue \/ \E m \in Msgs : Hides(m)
      PROVE  Calm
  BY <1>0, <1>1, CalmStatements, CalmChannel, CalmTaskMoves DEF Calm, WriterCalm
<1>2. CASE UNCHANGED vars BY <1>1, <1>2 DEF vars
<1>3. ASSUME NEW m \in Msgs, HeartbeatGivesUp(m) \/ Renew(m) \/ LeaseExpires(m) PROVE Calm
  BY <1>1, <1>3 DEF HeartbeatGivesUp, Renew, LeaseExpires, Hides, workerVars
<1>4. ASSUME NEW j \in proc.jobs, NEW ok \in BOOLEAN, JobEnds(j, ok) PROVE Calm
  <2>1. proc'.jobs \subseteq proc.jobs BY <1>0, <1>4 DEF JobEnds, Process
  <2> QED
    BY <1>0, <1>4, <2>1, CalmStatements, CalmChannel, CalmTaskMoves DEF JobEnds, Calm, WriterCalm
<1>5. CASE ProcDies
  BY <1>0, <1>5, FreshWorker, CalmStatements, CalmChannel, CalmTaskMoves
  DEF ProcDies, Calm, WriterCalm
<1>6. CASE RequestStop
  <2>1. [op |-> "stop"].op # "job" /\ [op |-> "stop"] \in Command BY Commands
  <2> QED
    BY <1>0, <1>6, <2>1, CalmStatements, CalmChannel, CalmTaskMoves
    DEF RequestStop, workerVars, Calm, WriterCalm
<1>7. CASE CoreRestarts
  <2>1. \A t \in Tasks : tasks'[t].pc = "idle" BY <1>7 DEF CoreRestarts, IdleTask
  <2>2. TasksCalm BY <2>1 DEF TasksCalm
  <2>3. WriterCalm /\ proc'.jobs \subseteq proc.jobs
    BY <1>7, FreshWorker DEF CoreRestarts, Forget, WriterCalm
  <2> QED BY <1>0, <1>7, <2>2, <2>3, CalmStatements, CalmChannel DEF CoreRestarts, Calm
<1> QED
  BY <1>2, <1>3, <1>4, <1>5, <1>6, <1>7, TaskStepsAreCalm, SupStepsAreCalm DEF Next

(***************************************************************************)
(* The scheduler's side is inductive: one lemma per kind of step.          *)
(***************************************************************************)
LedgerInv == CountersInv /\ HoldersInv /\ ApartInv

(* Calm steps only let go of deliveries.                                   *)
LEMMA CalmKeepsLedger ==
  ASSUME JobsInv, Calm
  PROVE  LedgerInv'
<1>0. LedgerInv /\ UNCHANGED started BY DEF JobsInv, DeliveryInv, LedgerInv, Calm
<1>1. \A m \in Msgs : /\ queue'[m].ct = queue[m].ct
                      /\ (queue'[m].st = "unsent" <=> queue[m].st = "unsent")
  BY DEF Calm, QueueCalm
<1>2. CountersInv' BY <1>0, <1>1 DEF LedgerInv, CountersInv
<1>4. \A t \in Tasks : tasks'[t].pc # "idle" =>
        /\ tasks[t].pc # "idle" /\ tasks'[t].m = tasks[t].m /\ tasks'[t].ct = tasks[t].ct
        /\ tasks'[t].pc \in Admitted => tasks[t].pc \in Admitted \/ tasks[t].ct <= MaxDeliveries
  BY DEF Calm, TasksCalm
<1>5. PICK off \in {0, 1} : \A i \in 1..Len(cmds') : cmds'[i].op = "job" =>
        i + off \in 1..Len(cmds) /\ cmds'[i] = cmds[i + off]
  BY DEF Calm, JobsShifted
<1>6. sup'.pc = "writing" => sup.pc = "writing" /\ sup'.m = sup.m /\ sup'.d = sup.d
  BY DEF Calm, WriterCalm
<1>7. HoldersInv'
  <2>1. ASSUME NEW t \in Tasks, tasks'[t].pc # "idle"
        PROVE  /\ Pending(tasks[t].m, tasks[t].ct)'
               /\ tasks'[t].pc \in Admitted => tasks'[t].ct <= MaxDeliveries
    <3>1. /\ Pending(tasks[t].m, tasks[t].ct)
          /\ tasks[t].pc \in Admitted => tasks[t].ct <= MaxDeliveries
      BY <1>0, <1>4, <2>1 DEF LedgerInv, HoldersInv
    <3> QED BY <1>0, <1>1, <1>4, <2>1, <3>1 DEF Pending
  <2>2. ASSUME NEW i \in 1..Len(cmds'), cmds'[i].op = "job"
        PROVE  Pending(cmds[i].m, cmds[i].d)' /\ cmds'[i].d <= MaxDeliveries
    <3>1. i + off \in 1..Len(cmds) /\ cmds'[i] = cmds[i + off] BY <1>5, <2>2
    <3>2. Pending(cmds[i + off].m, cmds[i + off].d) /\ cmds[i + off].d <= MaxDeliveries
      BY <1>0, <2>2, <3>1 DEF LedgerInv, HoldersInv
    <3> QED BY <1>0, <1>1, <3>1, <3>2 DEF Pending
  <2>3. ASSUME sup'.pc = "writing"
        PROVE  Pending(sup.m, sup.d)' /\ sup'.d <= MaxDeliveries
    <3>1. Pending(sup.m, sup.d) /\ sup.d <= MaxDeliveries
      BY <1>0, <1>6, <2>3 DEF LedgerInv, HoldersInv
    <3> QED BY <1>0, <1>1, <1>6, <2>3, <3>1 DEF Pending
  <2> QED BY <2>1, <2>2, <2>3 DEF HoldersInv
<1>8. ApartInv'
  <2>0. ApartInv BY <1>0 DEF LedgerInv
  <2>1. ASSUME NEW t \in Tasks, NEW u \in Tasks, t # u,
               tasks'[t].pc # "idle", tasks'[u].pc # "idle", tasks'[t].m = tasks'[u].m
        PROVE  tasks'[t].ct # tasks'[u].ct
    BY SMTT(30), <1>4, <2>0, <2>1 DEF ApartInv
  <2>2. ASSUME NEW t \in Tasks, NEW i \in 1..Len(cmds'),
               tasks'[t].pc # "idle", cmds'[i].op = "job", tasks'[t].m = cmds'[i].m
        PROVE  tasks'[t].ct # cmds'[i].d
    BY SMTT(30), <1>4, <1>5, <2>0, <2>2 DEF ApartInv
  <2>3. ASSUME NEW i \in 1..Len(cmds'), NEW k \in 1..Len(cmds'), i # k,
               cmds'[i].op = "job", cmds'[k].op = "job", cmds'[i].m = cmds'[k].m
        PROVE  cmds'[i].d # cmds'[k].d
    <3>1. /\ i + off \in 1..Len(cmds) /\ cmds'[i] = cmds[i + off]
          /\ k + off \in 1..Len(cmds) /\ cmds'[k] = cmds[k + off]
      BY <1>5, <2>3
    <3>2. i + off # k + off BY SMTT(30), <2>3
    <3> QED BY <2>0, <2>3, <3>1, <3>2 DEF ApartInv
  <2>4. ASSUME NEW t \in Tasks, sup'.pc = "writing", tasks'[t].pc # "idle", tasks'[t].m = sup'.m
        PROVE  tasks'[t].ct # sup'.d
    BY <1>4, <1>6, <2>0, <2>4 DEF ApartInv
  <2>5. ASSUME NEW i \in 1..Len(cmds'), sup'.pc = "writing", cmds'[i].op = "job",
               cmds'[i].m = sup'.m
        PROVE  cmds'[i].d # sup'.d
    BY <1>5, <1>6, <2>0, <2>5 DEF ApartInv
  <2> QED BY <2>1, <2>2, <2>3, <2>4, <2>5 DEF ApartInv
<1> QED BY <1>2, <1>7, <1>8 DEF LedgerInv

(* A new message has no holder yet.                                        *)
LEMMA EnqueueKeepsLedger ==
  ASSUME JobsInv, NEW m \in Msgs, Enqueue(m)
  PROVE  LedgerInv'
<1>0. LedgerInv /\ UNCHANGED <<tasks, cmds, sup, started>>
  BY DEF JobsInv, DeliveryInv, LedgerInv, Enqueue, workerVars
<1>1. /\ queue[m].st = "unsent" /\ queue'[m].st # "unsent" /\ queue'[m].ct = 0
      /\ \A k \in Msgs \ {m} : queue'[k] = queue[k]
  <2>1. queue \in QueueRows({NoMsg}) BY DEF JobsInv, TypeOK, QueueTypeOK, QueueRows
  <2>2. enqueue_message(m, NoMsg) BY DEF Enqueue
  <2>3. /\ queue[m].st = "unsent" /\ queue'[m] = [st |-> "visible", ct |-> 0, body |-> NoMsg]
        /\ \A k \in Msgs \ {m} : queue'[k] = queue[k]
    BY SMTT(30), <2>1, <2>2, EnqueueRows
  <2> QED BY SMTT(30), <2>3
<1>2. queue[m].ct = 0 BY <1>0, <1>1 DEF LedgerInv, CountersInv
<1>3. CountersInv' BY <1>0, <1>1, <1>2 DEF LedgerInv, CountersInv
<1>5. HoldersInv'
  <2>1. ASSUME NEW t \in Tasks, tasks[t].pc # "idle" PROVE Pending(tasks[t].m, tasks[t].ct)'
    <3>1. Pending(tasks[t].m, tasks[t].ct) BY <1>0, <2>1 DEF LedgerInv, HoldersInv
    <3> QED BY <1>0, <1>1, <3>1 DEF Pending
  <2>2. ASSUME NEW i \in 1..Len(cmds), cmds[i].op = "job" PROVE Pending(cmds[i].m, cmds[i].d)'
    <3>1. Pending(cmds[i].m, cmds[i].d) BY <1>0, <2>2 DEF LedgerInv, HoldersInv
    <3> QED BY <1>0, <1>1, <3>1 DEF Pending
  <2>3. ASSUME sup.pc = "writing" PROVE Pending(sup.m, sup.d)'
    <3>1. Pending(sup.m, sup.d) BY <1>0, <2>3 DEF LedgerInv, HoldersInv
    <3> QED BY <1>0, <1>1, <3>1 DEF Pending
  <2> QED BY <1>0, <2>1, <2>2, <2>3 DEF LedgerInv, HoldersInv
<1>6. ApartInv' BY SMTT(30), <1>0 DEF LedgerInv, ApartInv
<1> QED BY <1>3, <1>5, <1>6 DEF LedgerInv

(* A read hands out a delivery later than every earlier one.               *)
LEMMA PollKeepsLedger ==
  ASSUME JobsInv, NEW t \in Tasks, NEW m \in Msgs, Poll(t, m)
  PROVE  LedgerInv'
<1>0. LedgerInv /\ UNCHANGED <<cmds, sup, started>>
  BY DEF JobsInv, DeliveryInv, LedgerInv, Poll, workerVars
<1>1. /\ \A k \in Msgs \ {m} : queue'[k] = queue[k]
      /\ queue[m].st # "unsent" /\ queue'[m].st # "unsent"
      /\ queue'[m].ct = queue[m].ct + 1 /\ queue[m].ct \in Nat
  <2>1. queue \in QueueRows({NoMsg}) BY DEF JobsInv, TypeOK, QueueTypeOK, QueueRows
  <2>2. read_next(m) BY DEF Poll
  <2> QED BY <2>1, <2>2, ReadRows DEF QueueRows, InQueue
<1>2. /\ tasks'[t].m = m /\ tasks'[t].ct = queue[m].ct + 1 /\ tasks'[t].pc = "check"
      /\ \A u \in Tasks \ {t} : tasks'[u] = tasks[u]
  BY DEF Poll, JobsInv, TypeOK
<1>3. CountersInv' BY SMTT(30), <1>0, <1>1 DEF LedgerInv, CountersInv
<1>4. queue[m].ct + 1 \notin started[m] BY SMTT(30), <1>0, <1>1 DEF LedgerInv, CountersInv
<1>5. ASSUME NEW k, NEW d, Pending(k, d)
      PROVE  /\ k \in Msgs /\ queue'[k].st # "unsent"
             /\ d \in 1..queue'[k].ct /\ d \notin started'[k]
             /\ k = m => d # queue[m].ct + 1
  BY SMTT(30), <1>0, <1>1, <1>5 DEF Pending
<1>6. HoldersInv'
  <2>1. ASSUME NEW u \in Tasks, tasks'[u].pc # "idle"
        PROVE  /\ Pending(tasks[u].m, tasks[u].ct)'
               /\ tasks'[u].pc \in Admitted => tasks'[u].ct <= MaxDeliveries
    <3>1. CASE u = t BY SMTT(30), <1>0, <1>1, <1>2, <1>4, <3>1 DEF Pending, Admitted
    <3>2. CASE u # t
      <4>1. tasks'[u] = tasks[u] BY <1>2, <3>2
      <4>2. /\ Pending(tasks[u].m, tasks[u].ct)
            /\ tasks[u].pc \in Admitted => tasks[u].ct <= MaxDeliveries
        BY <1>0, <2>1, <4>1 DEF LedgerInv, HoldersInv
      <4> QED BY <1>5, <4>1, <4>2 DEF Pending
    <3> QED BY <3>1, <3>2
  <2>2. ASSUME NEW i \in 1..Len(cmds), cmds[i].op = "job" PROVE Pending(cmds[i].m, cmds[i].d)'
    <3>1. Pending(cmds[i].m, cmds[i].d) BY <1>0, <2>2 DEF LedgerInv, HoldersInv
    <3> QED BY <1>0, <1>5, <3>1 DEF Pending
  <2>3. ASSUME sup.pc = "writing" PROVE Pending(sup.m, sup.d)'
    <3>1. Pending(sup.m, sup.d) BY <1>0, <2>3 DEF LedgerInv, HoldersInv
    <3> QED BY <1>0, <1>5, <3>1 DEF Pending
  <2> QED BY <1>0, <2>1, <2>2, <2>3 DEF LedgerInv, HoldersInv
<1>7. ApartInv'
  <2>0. ApartInv BY <1>0 DEF LedgerInv
  <2>1. ASSUME NEW u \in Tasks \ {t}, tasks[u].pc # "idle", tasks[u].m = m
        PROVE  tasks[u].ct # queue[m].ct + 1
    <3>1. Pending(tasks[u].m, tasks[u].ct) BY <1>0, <2>1 DEF LedgerInv, HoldersInv
    <3> QED BY <1>5, <2>1, <3>1
  <2>2. ASSUME NEW i \in 1..Len(cmds), cmds[i].op = "job", cmds[i].m = m
        PROVE  cmds[i].d # queue[m].ct + 1
    <3>1. Pending(cmds[i].m, cmds[i].d) BY <1>0, <2>2 DEF LedgerInv, HoldersInv
    <3> QED BY <1>5, <2>2, <3>1
  <2>3. ASSUME sup.pc = "writing", sup.m = m PROVE sup.d # queue[m].ct + 1
    <3>1. Pending(sup.m, sup.d) BY <1>0, <2>3 DEF LedgerInv, HoldersInv
    <3> QED BY <1>5, <2>3, <3>1
  <2> QED BY SMTT(30), <1>0, <1>2, <2>0, <2>1, <2>2, <2>3 DEF ApartInv
<1> QED BY <1>3, <1>6, <1>7 DEF LedgerInv

(* Posting moves a delivery from its task to the end of the channel.       *)
LEMMA PostKeepsLedger ==
  ASSUME JobsInv, NEW t \in Tasks, Posts(t)
  PROVE  LedgerInv'
<1> DEFINE c == [op |-> "job", m |-> tasks[t].m, d |-> tasks[t].ct]
           n == Len(cmds) + 1
<1>0. /\ LedgerInv /\ UNCHANGED <<queue, sup, started>> /\ tasks[t].pc = "send"
      /\ tasks \in [Tasks -> Task] /\ cmds \in Seq(Command) /\ Len(cmds) \in Nat
  BY SMTT(30) DEF JobsInv, TypeOK, DeliveryInv, LedgerInv, Posts
<1>1. tasks'[t].pc = "idle" /\ \A u \in Tasks \ {t} : tasks'[u] = tasks[u]
  BY <1>0, TaskMoves DEF Posts
<1>2. Pending(tasks[t].m, tasks[t].ct) /\ tasks[t].ct <= MaxDeliveries
  BY <1>0 DEF LedgerInv, HoldersInv, Admitted
<1>3. c \in Command /\ c.op = "job" /\ c.m = tasks[t].m /\ c.d = tasks[t].ct
  <2>1. tasks[t].ct \in Nat BY <1>0 DEF Task
  <2> QED BY <1>2, <2>1, Commands DEF Pending
<1>4. cmds' = Append(cmds, c) BY DEF Posts, Push
<1> HIDE DEF c
<1>5. /\ Len(cmds') = n /\ cmds'[n] = c /\ n \in 1..n
      /\ \A i \in 1..Len(cmds') : i # n => i \in 1..Len(cmds) /\ cmds'[i] = cmds[i]
  BY SMTT(30), <1>0, <1>3, <1>4, AppendLast
<1> HIDE DEF n
<1>6. CountersInv' BY <1>0 DEF LedgerInv, CountersInv
<1>7. \A i \in 1..Len(cmds') : cmds'[i].op = "job" =>
        \/ i = n /\ cmds'[i].m = tasks[t].m /\ cmds'[i].d = tasks[t].ct
        \/ i # n /\ i \in 1..Len(cmds) /\ cmds'[i] = cmds[i]
  BY <1>3, <1>5
<1>8. HoldersInv'
  <2>1. ASSUME NEW u \in Tasks, tasks'[u].pc # "idle"
        PROVE  /\ Pending(tasks[u].m, tasks[u].ct)'
               /\ tasks'[u].pc \in Admitted => tasks'[u].ct <= MaxDeliveries
    <3>1. tasks'[u] = tasks[u] BY <1>1, <2>1
    <3>2. /\ Pending(tasks[u].m, tasks[u].ct)
          /\ tasks[u].pc \in Admitted => tasks[u].ct <= MaxDeliveries
      BY <1>0, <2>1, <3>1 DEF LedgerInv, HoldersInv
    <3> QED BY <1>0, <3>1, <3>2 DEF Pending
  <2>2. ASSUME NEW i \in 1..Len(cmds'), cmds'[i].op = "job"
        PROVE  Pending(cmds[i].m, cmds[i].d)' /\ cmds'[i].d <= MaxDeliveries
    <3>1. CASE i = n BY <1>0, <1>2, <1>7, <2>2, <3>1 DEF Pending
    <3>2. CASE i # n
      <4>1. i \in 1..Len(cmds) /\ cmds'[i] = cmds[i] BY <1>7, <2>2, <3>2
      <4>2. Pending(cmds[i].m, cmds[i].d) /\ cmds[i].d <= MaxDeliveries
        BY <1>0, <2>2, <4>1 DEF LedgerInv, HoldersInv
      <4> QED BY <1>0, <4>1, <4>2 DEF Pending
    <3> QED BY <3>1, <3>2
  <2>3. ASSUME sup.pc = "writing" PROVE Pending(sup.m, sup.d)' /\ sup'.d <= MaxDeliveries
    <3>1. Pending(sup.m, sup.d) /\ sup.d <= MaxDeliveries
      BY <1>0, <2>3 DEF LedgerInv, HoldersInv
    <3> QED BY <1>0, <3>1 DEF Pending
  <2> QED BY <1>0, <2>1, <2>2, <2>3 DEF HoldersInv
<1>9. ApartInv'
  <2>0. ApartInv BY <1>0 DEF LedgerInv
  <2>1. ASSUME NEW u \in Tasks, NEW v \in Tasks, u # v,
               tasks'[u].pc # "idle", tasks'[v].pc # "idle", tasks'[u].m = tasks'[v].m
        PROVE  tasks'[u].ct # tasks'[v].ct
    BY SMTT(30), <1>1, <2>0, <2>1 DEF ApartInv
  <2>2. ASSUME NEW u \in Tasks, NEW i \in 1..Len(cmds'),
               tasks'[u].pc # "idle", cmds'[i].op = "job", tasks'[u].m = cmds'[i].m
        PROVE  tasks'[u].ct # cmds'[i].d
    BY SMTT(30), <1>0, <1>1, <1>7, <2>0, <2>2 DEF ApartInv
  <2>3. ASSUME NEW i \in 1..Len(cmds'), NEW k \in 1..Len(cmds'), i # k,
               cmds'[i].op = "job", cmds'[k].op = "job", cmds'[i].m = cmds'[k].m
        PROVE  cmds'[i].d # cmds'[k].d
    BY SMTT(30), <1>0, <1>7, <2>0, <2>3 DEF ApartInv
  <2>4. ASSUME NEW u \in Tasks, sup'.pc = "writing", tasks'[u].pc # "idle", tasks'[u].m = sup'.m
        PROVE  tasks'[u].ct # sup'.d
    BY <1>0, <1>1, <2>0, <2>4 DEF ApartInv
  <2>5. ASSUME NEW i \in 1..Len(cmds'), sup'.pc = "writing", cmds'[i].op = "job",
               cmds'[i].m = sup'.m
        PROVE  cmds'[i].d # sup'.d
    BY <1>0, <1>7, <2>0, <2>5 DEF ApartInv
  <2> QED BY <2>1, <2>2, <2>3, <2>4, <2>5 DEF ApartInv
<1> QED BY <1>6, <1>8, <1>9 DEF LedgerInv

(* The delivery the supervisor takes up is pending, and nobody else has    *)
(* it.                                                                     *)
LEMMA TakenDelivery ==
  ASSUME JobsInv, NEW m \in Msgs, NEW d \in Nat,
         \/ Takes(m, d)
         \/ sup.pc = "writing" /\ sup.m = m /\ sup.d = d /\ UNCHANGED cmds
  PROVE  /\ Pending(m, d) /\ d <= MaxDeliveries
         /\ \A t \in Tasks : tasks[t].pc # "idle" /\ tasks[t].m = m => tasks[t].ct # d
         /\ \A i \in 1..Len(cmds') : cmds'[i].op = "job" /\ cmds'[i].m = m => cmds'[i].d # d
         /\ \E off \in {0, 1} : JobsShifted(off)
<1>0. HoldersInv /\ ApartInv /\ TypeOK /\ cmds \in Seq(Command)
  BY DEF JobsInv, DeliveryInv, TypeOK
<1>1. CASE sup.pc = "writing" /\ sup.m = m /\ sup.d = d /\ UNCHANGED cmds
  BY <1>0, <1>1, CalmChannel DEF HoldersInv, ApartInv
<1>2. CASE Takes(m, d)
  <2>1. cmds # <<>> /\ cmds' = Tail(cmds) /\ Head(cmds).op = "job"
        /\ Head(cmds).m = m /\ Head(cmds).d = d
    BY <1>2 DEF Takes, Receive
  <2>2. /\ Head(cmds) = cmds[1] /\ 1 \in 1..Len(cmds)
        /\ \A i \in 1..Len(cmds') : i + 1 \in 1..Len(cmds) /\ cmds'[i] = cmds[i + 1]
    BY <1>0, <2>1, TailShift
  <2>3. cmds[1].op = "job" /\ cmds[1].m = m /\ cmds[1].d = d BY <2>1, <2>2
  <2>4. JobsShifted(1) BY <1>0, <2>1, CalmChannel
  <2>5. Pending(m, d) /\ d <= MaxDeliveries BY <1>0, <2>2, <2>3 DEF HoldersInv
  <2>6. \A t \in Tasks : tasks[t].pc # "idle" /\ tasks[t].m = m => tasks[t].ct # d
    BY <1>0, <2>2, <2>3 DEF ApartInv
  <2>7. \A i \in 1..Len(cmds) : i # 1 /\ cmds[i].op = "job" /\ cmds[i].m = m => cmds[i].d # d
    BY <1>0, <2>2, <2>3 DEF ApartInv
  <2>8. \A i \in 1..Len(cmds') : i + 1 # 1 BY SMTT(30)
  <2>9. \A i \in 1..Len(cmds') : cmds'[i].op = "job" /\ cmds'[i].m = m => cmds'[i].d # d
    BY <2>2, <2>7, <2>8
  <2> QED BY <2>4, <2>5, <2>6, <2>9
<1> QED BY <1>1, <1>2

(* The holders that are left once the supervisor has taken a delivery up   *)
(* are apart, and apart from it.                                           *)
LEMMA TakenKeepsApart ==
  ASSUME JobsInv, NEW m \in Msgs, NEW d \in Nat, UNCHANGED tasks,
         \/ Takes(m, d)
         \/ sup.pc = "writing" /\ sup.m = m /\ sup.d = d /\ UNCHANGED cmds,
         sup'.pc = "writing" => sup'.m = m /\ sup'.d = d
  PROVE  ApartInv'
<1>0. ApartInv /\ cmds \in Seq(Command) BY DEF JobsInv, DeliveryInv, TypeOK
<1>1. /\ \A t \in Tasks : tasks[t].pc # "idle" /\ tasks[t].m = m => tasks[t].ct # d
      /\ \A i \in 1..Len(cmds') : cmds'[i].op = "job" /\ cmds'[i].m = m => cmds'[i].d # d
  BY TakenDelivery
<1>2. PICK off \in {0, 1} : \A i \in 1..Len(cmds') : cmds'[i].op = "job" =>
        i + off \in 1..Len(cmds) /\ cmds'[i] = cmds[i + off]
  BY TakenDelivery DEF JobsShifted
<1>3. ASSUME NEW t \in Tasks, NEW i \in 1..Len(cmds'),
             tasks'[t].pc # "idle", cmds'[i].op = "job", tasks'[t].m = cmds'[i].m
      PROVE  tasks'[t].ct # cmds'[i].d
  BY <1>0, <1>2, <1>3 DEF ApartInv
<1>4. ASSUME NEW i \in 1..Len(cmds'), NEW k \in 1..Len(cmds'), i # k,
             cmds'[i].op = "job", cmds'[k].op = "job", cmds'[i].m = cmds'[k].m
      PROVE  cmds'[i].d # cmds'[k].d
  <2>1. /\ i + off \in 1..Len(cmds) /\ cmds'[i] = cmds[i + off]
        /\ k + off \in 1..Len(cmds) /\ cmds'[k] = cmds[k + off]
    BY <1>2, <1>4
  <2>2. i + off # k + off BY SMTT(30), <1>4
  <2> QED BY <1>0, <1>4, <2>1, <2>2 DEF ApartInv
<1>5. sup'.pc = "writing" =>
        /\ \A t \in Tasks : tasks'[t].pc # "idle" /\ tasks'[t].m = sup'.m => tasks'[t].ct # sup'.d
        /\ \A i \in 1..Len(cmds') :
             cmds'[i].op = "job" /\ cmds'[i].m = sup'.m => cmds'[i].d # sup'.d
  BY <1>1
<1>6. \A t, u \in Tasks :
        /\ t # u /\ tasks'[t].pc # "idle" /\ tasks'[u].pc # "idle" /\ tasks'[t].m = tasks'[u].m
        => tasks'[t].ct # tasks'[u].ct
  BY <1>0 DEF ApartInv
<1> QED BY <1>3, <1>4, <1>5, <1>6 DEF ApartInv

(* Blocking on a job moves its delivery from the channel to the            *)
(* supervisor; starting it ends its time as a pending one.                 *)
LEMMA TakenKeepsLedger ==
  ASSUME JobsInv, NEW m \in Msgs, NEW d \in Nat, Blocks(m, d) \/ Starts(m, d)
  PROVE  LedgerInv'
<1>0. /\ LedgerInv /\ sup \in Supervisor /\ started \in [Msgs -> SUBSET Nat]
      /\ queue \in [Msgs -> [st : QueueStates, ct : Nat, body : {NoMsg}]]
      /\ UNCHANGED <<queue, tasks>>
  BY DEF JobsInv, TypeOK, QueueTypeOK, DeliveryInv, LedgerInv, Blocks, Starts
<1>1. \/ Takes(m, d)
      \/ sup.pc = "writing" /\ sup.m = m /\ sup.d = d /\ UNCHANGED cmds
  BY DEF Blocks, Starts
<1>2. /\ Pending(m, d) /\ d <= MaxDeliveries
      /\ \A t \in Tasks : tasks[t].pc # "idle" /\ tasks[t].m = m => tasks[t].ct # d
      /\ \A i \in 1..Len(cmds') : cmds'[i].op = "job" /\ cmds'[i].m = m => cmds'[i].d # d
  BY <1>1, TakenDelivery
<1>3. PICK off \in {0, 1} : \A i \in 1..Len(cmds') : cmds'[i].op = "job" =>
        i + off \in 1..Len(cmds) /\ cmds'[i] = cmds[i + off]
  BY <1>1, TakenDelivery DEF JobsShifted
<1>4. /\ sup'.pc = "writing" => sup'.m = m /\ sup'.d = d /\ UNCHANGED started
      /\ \/ UNCHANGED started
         \/ started' = [started EXCEPT ![m] = @ \cup {d}]
  <2>1. CASE Blocks(m, d) BY <1>0, <2>1 DEF Blocks, Supervisor
  <2>2. CASE Starts(m, d) /\ Takes(m, d) /\ UNCHANGED sup
    BY <2>2 DEF Starts, Deliver, Takes, Receive
  <2>3. CASE Starts(m, d) /\ sup'.pc = "loop" BY <2>3 DEF Starts, Deliver
  <2> QED BY <2>1, <2>2, <2>3 DEF Starts
<1>5. CountersInv'
  <2>1. CountersInv BY <1>0 DEF LedgerInv
  <2>2. d \in 1..queue[m].ct BY <1>2 DEF Pending
  <2>3. /\ \A k \in Msgs \ {m} : started'[k] = started[k]
        /\ started'[m] = started[m] \/ started'[m] = started[m] \cup {d}
    BY <1>0, <1>4
  <2> QED BY <1>0, <2>1, <2>2, <2>3 DEF CountersInv
<1>6. ASSUME NEW k, NEW e, Pending(k, e), k = m => e # d
      PROVE  k \in Msgs /\ queue'[k].st # "unsent" /\ e \in 1..queue'[k].ct /\ e \notin started'[k]
  BY <1>0, <1>4, <1>6 DEF Pending
<1>7. HoldersInv'
  <2>1. ASSUME NEW t \in Tasks, tasks[t].pc # "idle"
        PROVE  /\ Pending(tasks[t].m, tasks[t].ct)'
               /\ tasks'[t].pc \in Admitted => tasks'[t].ct <= MaxDeliveries
    <3>1. /\ Pending(tasks[t].m, tasks[t].ct)
          /\ tasks[t].pc \in Admitted => tasks[t].ct <= MaxDeliveries
      BY <1>0, <2>1 DEF LedgerInv, HoldersInv
    <3> QED BY <1>0, <1>2, <1>6, <2>1, <3>1 DEF Pending
  <2>2. ASSUME NEW i \in 1..Len(cmds'), cmds'[i].op = "job"
        PROVE  Pending(cmds[i].m, cmds[i].d)' /\ cmds'[i].d <= MaxDeliveries
    <3>1. i + off \in 1..Len(cmds) /\ cmds'[i] = cmds[i + off] BY <1>3, <2>2
    <3>2. Pending(cmds[i + off].m, cmds[i + off].d) /\ cmds[i + off].d <= MaxDeliveries
      BY <1>0, <2>2, <3>1 DEF LedgerInv, HoldersInv
    <3>3. cmds[i + off].m = m => cmds[i + off].d # d BY <1>2, <2>2, <3>1
    <3> QED BY <1>6, <3>1, <3>2, <3>3 DEF Pending
  <2>3. ASSUME sup'.pc = "writing" PROVE Pending(sup.m, sup.d)' /\ sup'.d <= MaxDeliveries
    BY <1>0, <1>2, <1>4, <2>3 DEF Pending
  <2> QED BY <1>0, <2>1, <2>2, <2>3 DEF HoldersInv
<1>8. ApartInv' BY <1>0, <1>1, <1>4, TakenKeepsApart
<1> QED BY <1>5, <1>7, <1>8 DEF LedgerInv

(* Every step keeps deliveries pending, bounded and apart.                 *)
LEMMA LedgerStep ==
  ASSUME JobsInv, [Next]_vars
  PROVE  LedgerInv'
BY SixKinds, CalmKeepsLedger, EnqueueKeepsLedger, PollKeepsLedger, PostKeepsLedger,
   TakenKeepsLedger

(***************************************************************************)
(* Who waits for a status answer.                                          *)
(***************************************************************************)
WaitersStay == \A u \in Tasks : tasks[u].pc = "waiting" => tasks'[u].pc = "waiting"

(* Nothing is added, or only a command that is no status request.          *)
LEMMA WaitingKept ==
  ASSUME JobsInv, WaitersStay,
         \/ UNCHANGED cmds
         \/ cmds # <<>> /\ cmds' = Tail(cmds)
         \/ \E c \in Command : c.op # "status" /\ cmds' = Append(cmds, c)
  PROVE  WaitingInv'
<1>0. WaitingInv /\ cmds \in Seq(Command) /\ Len(cmds) \in Nat
  BY SMTT(30) DEF JobsInv, DeliveryInv, TypeOK
<1>1. PICK off \in {0, 1} : \A i \in 1..Len(cmds') : cmds'[i].op = "status" =>
        i + off \in 1..Len(cmds) /\ cmds'[i] = cmds[i + off]
  <2>1. CASE UNCHANGED cmds
    <3>1. \A i \in 1..Len(cmds') : i + 0 \in 1..Len(cmds) /\ cmds'[i] = cmds[i + 0]
      BY SMTT(30), <1>0, <2>1
    <3> QED BY <3>1
  <2>2. CASE cmds # <<>> /\ cmds' = Tail(cmds)
    <3>1. \A i \in 1..Len(cmds') : i + 1 \in 1..Len(cmds) /\ cmds'[i] = cmds[i + 1]
      BY <1>0, <2>2, TailShift
    <3> QED BY <3>1
  <2>3. ASSUME NEW c \in Command, c.op # "status", cmds' = Append(cmds, c)
        PROVE  \A i \in 1..Len(cmds') : cmds'[i].op = "status" =>
                 i + 0 \in 1..Len(cmds) /\ cmds'[i] = cmds[i + 0]
    <3>1. /\ Len(cmds') = Len(cmds) + 1 /\ cmds'[Len(cmds) + 1] = c
          /\ \A i \in 1..Len(cmds') : i # Len(cmds) + 1 => i \in 1..Len(cmds) /\ cmds'[i] = cmds[i]
      BY SMTT(30), <1>0, <2>3, AppendLast
    <3> QED BY SMTT(30), <1>0, <2>3, <3>1
  <2> QED BY <2>1, <2>2, <2>3
<1>2. \A i \in 1..Len(cmds) : cmds[i].op = "status" => cmds[i].t \in Tasks
  BY SMTT(30), <1>0, CommandFields
<1> SUFFICES ASSUME NEW i \in 1..Len(cmds'), cmds'[i].op = "status"
             PROVE  /\ tasks'[cmds'[i].t].pc = "waiting"
                    /\ \A k \in 1..Len(cmds') :
                         k # i /\ cmds'[k].op = "status" => cmds'[k].t # cmds'[i].t
  BY DEF WaitingInv
<1>3. i + off \in 1..Len(cmds) /\ cmds'[i] = cmds[i + off] BY <1>1
<1>4. tasks[cmds[i + off].t].pc = "waiting" BY <1>0, <1>3 DEF WaitingInv
<1>5. tasks'[cmds'[i].t].pc = "waiting" BY <1>2, <1>3, <1>4 DEF WaitersStay
<1>6. ASSUME NEW k \in 1..Len(cmds'), k # i, cmds'[k].op = "status"
      PROVE  cmds'[k].t # cmds'[i].t
  <2>1. k + off \in 1..Len(cmds) /\ cmds'[k] = cmds[k + off] BY <1>1, <1>6
  <2>2. k + off # i + off BY SMTT(30), <1>6
  <2> QED BY <1>0, <1>3, <1>6, <2>1, <2>2 DEF WaitingInv
<1> QED BY <1>5, <1>6

(* A new request comes from a task that had none.                          *)
LEMMA WaitingAsked ==
  ASSUME JobsInv, NEW t \in Tasks, tasks[t].pc = "resolve", Goto(t, "waiting"),
         cmds' = Append(cmds, [op |-> "status", t |-> t])
  PROVE  WaitingInv'
<1> DEFINE c == [op |-> "status", t |-> t]
           n == Len(cmds) + 1
<1>0. WaitingInv /\ cmds \in Seq(Command) /\ Len(cmds) \in Nat /\ tasks \in [Tasks -> Task]
  BY SMTT(30) DEF JobsInv, DeliveryInv, TypeOK
<1>1. c \in Command /\ c.op = "status" /\ c.t = t BY Commands
<1> HIDE DEF c
<1>2. /\ Len(cmds') = n /\ cmds'[n] = c
      /\ \A i \in 1..Len(cmds') : i # n => i \in 1..Len(cmds) /\ cmds'[i] = cmds[i]
  BY SMTT(30), <1>0, <1>1, AppendLast DEF c
<1> HIDE DEF n
<1>3. tasks'[t].pc = "waiting" /\ \A u \in Tasks \ {t} : tasks'[u] = tasks[u]
  BY <1>0, TaskMoves
<1>4. \A i \in 1..Len(cmds) : cmds[i].op = "status" =>
        cmds[i].t \in Tasks \ {t} /\ tasks[cmds[i].t].pc = "waiting"
  BY SMTT(30), <1>0, CommandFields DEF WaitingInv
<1>5. \A i \in 1..Len(cmds') : cmds'[i].op = "status" =>
        \/ i = n /\ cmds'[i].t = t
        \/ i # n /\ i \in 1..Len(cmds) /\ cmds'[i] = cmds[i] /\ cmds'[i].t \in Tasks \ {t}
  BY SMTT(30), <1>1, <1>2, <1>4
<1> SUFFICES ASSUME NEW i \in 1..Len(cmds'), cmds'[i].op = "status"
             PROVE  /\ tasks'[cmds'[i].t].pc = "waiting"
                    /\ \A k \in 1..Len(cmds') :
                         k # i /\ cmds'[k].op = "status" => cmds'[k].t # cmds'[i].t
  BY DEF WaitingInv
<1>6. tasks'[cmds'[i].t].pc = "waiting" BY SMTT(30), <1>3, <1>4, <1>5
<1>7. ASSUME NEW k \in 1..Len(cmds'), k # i, cmds'[k].op = "status"
      PROVE  cmds'[k].t # cmds'[i].t
  BY SMTT(30), <1>0, <1>5, <1>7 DEF WaitingInv
<1> QED BY <1>6, <1>7

(* An answered request leaves the channel, and only its task goes on.      *)
LEMMA WaitingAnswered ==
  ASSUME JobsInv, cmds # <<>>, Head(cmds).op = "status", cmds' = Tail(cmds),
         NEW pc, Goto(Head(cmds).t, pc)
  PROVE  WaitingInv'
<1> DEFINE t == Head(cmds).t
<1>0. WaitingInv /\ cmds \in Seq(Command) /\ tasks \in [Tasks -> Task]
  BY DEF JobsInv, DeliveryInv, TypeOK
<1>1. /\ Head(cmds) = cmds[1] /\ 1 \in 1..Len(cmds) /\ Head(cmds) \in Command
      /\ \A i \in 1..Len(cmds') : i + 1 \in 1..Len(cmds) /\ cmds'[i] = cmds[i + 1]
  BY <1>0, TailShift
<1>2. t \in Tasks /\ cmds[1].t = t /\ cmds[1].op = "status" BY <1>1, CommandFields
<1>3. \A u \in Tasks \ {t} : tasks'[u] = tasks[u] BY <1>0, <1>2, TaskMoves
<1> HIDE DEF t
<1>4. \A i \in 1..Len(cmds) : i # 1 /\ cmds[i].op = "status" => cmds[i].t \in Tasks \ {t}
  BY SMTT(30), <1>0, <1>1, <1>2, CommandFields DEF WaitingInv
<1> SUFFICES ASSUME NEW i \in 1..Len(cmds'), cmds'[i].op = "status"
             PROVE  /\ tasks'[cmds'[i].t].pc = "waiting"
                    /\ \A k \in 1..Len(cmds') :
                         k # i /\ cmds'[k].op = "status" => cmds'[k].t # cmds'[i].t
  BY DEF WaitingInv
<1>5. i + 1 \in 1..Len(cmds) /\ cmds'[i] = cmds[i + 1] /\ i + 1 # 1 BY SMTT(30), <1>1
<1>6. tasks'[cmds'[i].t].pc = "waiting" BY SMTT(30), <1>0, <1>3, <1>4, <1>5 DEF WaitingInv
<1>7. ASSUME NEW k \in 1..Len(cmds'), k # i, cmds'[k].op = "status"
      PROVE  cmds'[k].t # cmds'[i].t
  <2>1. k + 1 \in 1..Len(cmds) /\ cmds'[k] = cmds[k + 1] BY <1>1
  <2>2. k + 1 # i + 1 BY SMTT(30), <1>7
  <2> QED BY <1>0, <1>5, <1>7, <2>1, <2>2 DEF WaitingInv
<1> QED BY <1>6, <1>7

(* Every step keeps each waiting task's one request.                       *)
LEMMA WaitingStep ==
  ASSUME JobsInv, [Next]_vars
  PROVE  WaitingInv'
<1>0. tasks \in [Tasks -> Task] /\ cmds \in Seq(Command) BY DEF JobsInv, TypeOK
<1>1. UNCHANGED tasks => WaitersStay BY DEF WaitersStay
<1>2. ASSUME NEW t \in Tasks, tasks[t].pc # "waiting", \A u \in Tasks \ {t} : tasks'[u] = tasks[u]
      PROVE  WaitersStay
  BY <1>2 DEF WaitersStay
<1>3. CASE UNCHANGED <<tasks, cmds>> BY <1>1, <1>3, WaitingKept
<1>4. CASE UNCHANGED vars BY <1>3, <1>4 DEF vars
<1>5. ASSUME NEW m \in Msgs, Enqueue(m) \/ HeartbeatGivesUp(m) \/ Renew(m) \/ LeaseExpires(m)
      PROVE  WaitingInv'
  BY <1>3, <1>5 DEF Enqueue, HeartbeatGivesUp, Renew, LeaseExpires
<1>6. ASSUME NEW t \in Tasks, NEW m \in Msgs, Poll(t, m) PROVE WaitingInv'
  <2>1. tasks[t].pc = "idle" /\ (\A u \in Tasks \ {t} : tasks'[u] = tasks[u]) /\ UNCHANGED cmds
    BY <1>0, <1>6 DEF Poll, At
  <2> QED BY <1>2, <2>1, WaitingKept
<1>7. ASSUME NEW t \in Tasks, TaskStep(t) PROVE WaitingInv'
  <2>1. tasks[t].pc # "waiting"
    BY <1>7 DEF TaskStep, Check, Resolve, Spawn, Send, FailJob, DlqSend, DlqArchive, At
  <2>2. ASSUME Finish(t) \/ \E pc : Goto(t, pc) PROVE WaitersStay
    BY <1>0, <1>2, <2>1, <2>2, TaskMoves
  <2>3. CASE Check(t) \/ FailJob(t) \/ DlqSend(t) \/ DlqArchive(t)
    BY <2>2, <2>3, WaitingKept DEF Check, FailJob, DlqSend, DlqArchive
  <2>4. CASE Resolve(t)
    BY <2>2, <2>4, WaitingKept, WaitingAsked DEF Resolve, Push, At
  <2>5. CASE Spawn(t)
    <3>1. CASE tasks' = [u \in Tasks |->
                 IF u = t THEN [tasks[u] EXCEPT !.pc = "send"]
                 ELSE IF At(u, "send") THEN [tasks[u] EXCEPT !.pc = "stale"] ELSE tasks[u]]
      <4>1. WaitersStay BY <2>1, <3>1 DEF WaitersStay, At
      <4> QED BY <2>5, <4>1, WaitingKept DEF Spawn
    <3> QED BY <2>2, <2>5, <3>1, WaitingKept DEF Spawn
  <2>6. CASE Send(t)
    <3>1. WaitersStay BY <2>2, <2>6 DEF Send
    <3>2. CASE UNCHANGED cmds BY <3>1, <3>2, WaitingKept
    <3>3. CASE tasks[t].pc = "send" /\ Push([op |-> "job", m |-> tasks[t].m, d |-> tasks[t].ct])
      <4>1. tasks[t].m \in Msgs
        BY <3>3 DEF JobsInv, DeliveryInv, HoldersInv, Pending
      <4>2. tasks[t].ct \in Nat BY <1>0 DEF Task
      <4>3. \E c \in Command : c.op # "status" /\ cmds' = Append(cmds, c)
        BY <3>3, <4>1, <4>2, Commands DEF Push
      <4> QED BY <3>1, <4>3, WaitingKept
    <3> QED BY <2>6, <3>2, <3>3 DEF Send, At
  <2> QED BY <1>7, <2>3, <2>4, <2>5, <2>6 DEF TaskStep
<1>8. CASE SupStatus BY <1>8, WaitingAnswered DEF SupStatus, Receive
<1>9. CASE SupJob \/ SupStop
  BY <1>1, <1>9, WaitingKept DEF SupJob, SupStop, Receive
<1>10. CASE SupResult \/ SupComplete \/ SupDlqSend \/ SupDlqArchive \/ SupCrash \/ SupUnblocked
  BY <1>3, <1>10 DEF SupResult, SupComplete, SupDlqSend, SupDlqArchive, SupCrash, SupUnblocked
<1>11. CASE SupBackoff
  <2>1. CASE UNCHANGED tasks /\ (UNCHANGED cmds \/ (cmds # <<>> /\ cmds' = Tail(cmds)))
    BY <1>1, <2>1, WaitingKept
  <2>2. CASE /\ cmds # <<>> /\ Head(cmds).op = "status" /\ cmds' = Tail(cmds)
             /\ Goto(Head(cmds).t, "send")
    BY <2>2, WaitingAnswered
  <2> QED BY <1>11, <2>1, <2>2 DEF SupBackoff
<1>12. ASSUME NEW j \in proc.jobs, NEW ok \in BOOLEAN, JobEnds(j, ok) PROVE WaitingInv'
  BY <1>3, <1>12 DEF JobEnds
<1>13. CASE ProcDies BY <1>3, <1>13 DEF ProcDies
<1>14. CASE RequestStop
  <2>1. [op |-> "stop"] \in Command /\ [op |-> "stop"].op # "status" BY Commands
  <2>2. UNCHANGED tasks /\ cmds' = Append(cmds, [op |-> "stop"]) BY <1>14 DEF RequestStop, Push
  <2> QED BY <1>1, <2>1, <2>2, WaitingKept
<1>15. CASE CoreRestarts
  <2>1. cmds' = <<>> BY <1>15 DEF CoreRestarts
  <2> QED BY SMTT(30), <2>1 DEF WaitingInv
<1> QED
  BY <1>4, <1>5, <1>6, <1>7, <1>8, <1>9, <1>10, <1>11, <1>12, <1>13, <1>14, <1>15
  DEF Next, SupStep

(***************************************************************************)
(* Type correctness of the scheduler's side.                               *)
(***************************************************************************)
(* All a step may do to the queue and the dead-letter queue.               *)
QueueMoves ==
  /\ \/ UNCHANGED queue
     \/ \E m \in Msgs : \/ Leaves(m) \/ Hides(m) \/ read_next(m)
                        \/ enqueue_message(m, NoMsg)
  /\ UNCHANGED dlq \/ \E m \in Msgs : dead_letter_send(m)

(* Queue and dead-letter queue.                                            *)
LEMMA QueueTypeStep ==
  ASSUME JobsInv, [Next]_vars
  PROVE  QueueTypeOK({NoMsg})'
<1>0. /\ queue \in QueueRows({NoMsg}) /\ dlq \in [Msgs -> Nat]
      /\ \A t \in Tasks : tasks[t].pc # "idle" => tasks[t].m \in Msgs
      /\ sup.pc \in {"complete", "dlqSend", "dlqArchive"} => sup.m \in Msgs
  BY DEF JobsInv, TypeOK, QueueTypeOK, QueueRows, DeliveryInv, HoldersInv, Pending, WorkerInv,
         SupervisorInv
<1>1. QueueMoves
  <2>1. CASE UNCHANGED vars BY <2>1 DEF vars, QueueMoves
  <2>2. ASSUME NEW m \in Msgs, Enqueue(m) \/ HeartbeatGivesUp(m) \/ Renew(m) \/ LeaseExpires(m)
        PROVE  QueueMoves
    BY <2>2 DEF Enqueue, HeartbeatGivesUp, Renew, LeaseExpires, Hides, QueueMoves
  <2>3. ASSUME NEW t \in Tasks, NEW m \in Msgs, Poll(t, m) PROVE QueueMoves
    BY <2>3 DEF Poll, QueueMoves
  <2>4. ASSUME NEW t \in Tasks, TaskStep(t) PROVE QueueMoves
    <3>1. tasks[t].m \in Msgs
      BY <1>0, <2>4 DEF TaskStep, Check, Resolve, Spawn, Send, FailJob, DlqSend, DlqArchive, At
    <3> QED
      BY <2>4, <3>1
      DEF TaskStep, Check, Resolve, Spawn, Send, FailJob, DlqSend, DlqArchive, Leaves,
          QueueMoves
  <2>5. CASE SupStep \/ SupUnblocked
    BY <1>0, <2>5 DEF SupStep, SupStatus, SupJob, SupStop, SupResult, SupComplete, SupDlqSend,
                      SupDlqArchive, SupCrash, SupBackoff, SupUnblocked, Leaves, QueueMoves
  <2>6. ASSUME NEW j \in proc.jobs, NEW ok \in BOOLEAN, JobEnds(j, ok) PROVE QueueMoves
    BY <2>6 DEF JobEnds, QueueMoves
  <2>7. CASE ProcDies \/ RequestStop \/ CoreRestarts
    BY <2>7 DEF ProcDies, RequestStop, CoreRestarts, QueueMoves
  <2> QED BY <2>1, <2>2, <2>3, <2>4, <2>5, <2>6, <2>7 DEF Next
<1>2. queue' \in QueueRows({NoMsg}) BY <1>0, <1>1, LeaveRows, HideRows, ReadRows, EnqueueRows DEF QueueMoves
<1>3. dlq' \in [Msgs -> Nat] BY SMTT(30), <1>0, <1>1 DEF QueueMoves, dead_letter_send
<1> QED BY <1>2, <1>3 DEF QueueTypeOK, QueueRows

(* Tasks, the worker map, the command channel and the history.             *)
LEMMA SchedulerTypeStep ==
  ASSUME JobsInv, [Next]_vars
  PROVE  /\ tasks' \in [Tasks -> Task] /\ entry' \in BOOLEAN
         /\ cmds' \in Seq(Command) /\ Len(cmds') <= CmdCap
         /\ started' \in [Msgs -> SUBSET Nat]
<1>0. /\ TypeOK /\ tasks \in [Tasks -> Task] /\ cmds \in Seq(Command) /\ Len(cmds) <= CmdCap
      /\ started \in [Msgs -> SUBSET Nat] /\ entry \in BOOLEAN
      /\ \A t \in Tasks : tasks[t].pc # "idle" => tasks[t].m \in Msgs
  BY DEF JobsInv, TypeOK, DeliveryInv, HoldersInv, Pending
<1>1. started' \in [Msgs -> SUBSET Nat]
  <2>1. ASSUME NEW m \in Msgs, NEW d \in Nat, Starts(m, d) PROVE started' \in [Msgs -> SUBSET Nat]
    BY <1>0, <2>1 DEF Starts, Deliver
  <2> QED
    BY <1>0, <2>1, SixKinds DEF Calm, Enqueue, Poll, Posts, Blocks, workerVars
<1>2. ASSUME UNCHANGED cmds \/ (cmds # <<>> /\ cmds' = Tail(cmds)) \/ cmds' = <<>>
             \/ (\E c \in Command : Push(c))
      PROVE  cmds' \in Seq(Command) /\ Len(cmds') <= CmdCap
  <2>1. CASE cmds # <<>> /\ cmds' = Tail(cmds)
    <3>1. cmds' \in Seq(Command) /\ Len(cmds') = Len(cmds) - 1 BY <1>0, <2>1, TailShift
    <3>2. Len(cmds) \in Nat /\ CmdCap \in Nat BY SMTT(30), <1>0, JobsAssumption
    <3> QED BY SMTT(30), <1>0, <3>1, <3>2
  <2>2. CASE cmds' = <<>>
    <3>1. <<>> \in Seq(Command) /\ Len(<<>>) = 0 BY SMTT(30)
    <3> QED BY SMTT(30), <2>2, <3>1, JobsAssumption
  <2>3. ASSUME NEW c \in Command, Push(c) PROVE cmds' \in Seq(Command) /\ Len(cmds') <= CmdCap
    <3>1. Len(cmds) < CmdCap /\ cmds' = Append(cmds, c) BY <2>3 DEF Push
    <3>2. cmds' \in Seq(Command) /\ Len(cmds') = Len(cmds) + 1 BY <1>0, <3>1, AppendLast
    <3>3. Len(cmds) \in Nat /\ CmdCap \in Nat BY SMTT(30), <1>0, JobsAssumption
    <3> QED BY SMTT(30), <3>1, <3>2, <3>3
  <2>4. CASE UNCHANGED cmds BY <1>0, <2>4
  <2> QED BY <1>2, <2>1, <2>2, <2>3, <2>4
<1>3. ASSUME NEW t \in Tasks,
             NEW pc \in {"resolve", "waiting", "spawn", "send", "fail", "dlqSend", "dlqArchive"},
             Goto(t, pc)
      PROVE  tasks' \in [Tasks -> Task]
  <2>1. tasks[t] \in Task BY <1>0
  <2>2. [tasks[t] EXCEPT !.pc = pc] \in Task BY <2>1 DEF Task
  <2>3. tasks' = [tasks EXCEPT ![t] = [tasks[t] EXCEPT !.pc = pc]] BY <1>3 DEF Goto
  <2> QED BY <1>0, <2>2, <2>3
<1>4. \A t \in Tasks : Finish(t) => tasks' \in [Tasks -> Task] BY <1>0, TaskMoves
<1>5. CASE UNCHANGED <<tasks, entry, cmds>> BY <1>0, <1>1, <1>2, <1>5
<1>6. CASE UNCHANGED vars BY <1>5, <1>6 DEF vars
<1>7. ASSUME NEW m \in Msgs, Enqueue(m) \/ HeartbeatGivesUp(m) \/ Renew(m) \/ LeaseExpires(m)
      PROVE  UNCHANGED <<tasks, entry, cmds>>
  BY <1>7 DEF Enqueue, HeartbeatGivesUp, Renew, LeaseExpires
<1>8. ASSUME NEW t \in Tasks, NEW m \in Msgs, Poll(t, m)
      PROVE  tasks' \in [Tasks -> Task] /\ UNCHANGED <<entry, cmds>>
  <2>1. queue[m].ct \in Nat BY <1>0 DEF TypeOK, QueueTypeOK
  <2>2. [pc |-> "check", m |-> m, ct |-> queue[m].ct + 1] \in Task BY SMTT(30), <2>1 DEF Task
  <2> QED BY <1>0, <1>8, <2>2 DEF Poll
<1>9. ASSUME NEW t \in Tasks, TaskStep(t)
      PROVE  /\ tasks' \in [Tasks -> Task] /\ entry' \in BOOLEAN
             /\ UNCHANGED cmds \/ \E c \in Command : Push(c)
  <2>1. CASE Check(t) BY <1>0, <1>3, <2>1 DEF Check
  <2>2. CASE Resolve(t) BY <1>0, <1>3, <2>2, Commands DEF Resolve
  <2>3. CASE FailJob(t) \/ DlqSend(t) \/ DlqArchive(t)
    BY <1>0, <1>3, <1>4, <2>3 DEF FailJob, DlqSend, DlqArchive
  <2>4. CASE Send(t)
    <3>1. tasks[t].m \in Msgs /\ tasks[t].ct \in Nat
      <4>1. tasks[t] \in Task /\ tasks[t].pc # "idle" BY <1>0, <2>4 DEF Send, At
      <4> QED BY <1>0, <4>1 DEF Task
    <3> QED BY <1>0, <1>4, <2>4, <3>1, Commands DEF Send
  <2>5. CASE Spawn(t)
    <3>1. CASE tasks' = [u \in Tasks |->
                 IF u = t THEN [tasks[u] EXCEPT !.pc = "send"]
                 ELSE IF At(u, "send") THEN [tasks[u] EXCEPT !.pc = "stale"] ELSE tasks[u]]
      <4>1. ASSUME NEW u \in Tasks, NEW pc \in {"send", "stale"}
            PROVE  [tasks[u] EXCEPT !.pc = pc] \in Task
        <5>1. tasks[u] \in Task BY <1>0
        <5> QED BY <5>1 DEF Task
      <4>2. tasks' \in [Tasks -> Task] BY <1>0, <3>1, <4>1
      <4> QED BY <1>0, <2>5, <4>2 DEF Spawn
    <3> QED BY <1>0, <1>3, <2>5, <3>1 DEF Spawn
  <2> QED BY <1>9, <2>1, <2>2, <2>3, <2>4, <2>5 DEF TaskStep
<1>10. CASE SupStep \/ SupUnblocked
  <2>0. ASSUME cmds # <<>>, Head(cmds).op = "status" PROVE Head(cmds).t \in Tasks
    BY <1>0, <2>0, TailShift, CommandFields
  <2>1. UNCHANGED cmds \/ (cmds # <<>> /\ cmds' = Tail(cmds))
    BY <1>10 DEF SupStep, SupStatus, SupJob, SupStop, SupResult, SupComplete, SupDlqSend,
                 SupDlqArchive, SupCrash, SupBackoff, SupUnblocked, Receive
  <2>2. entry' \in BOOLEAN
    BY <1>0, <1>10 DEF SupStep, SupStatus, SupJob, SupStop, SupResult, SupComplete, SupDlqSend,
                 SupDlqArchive, SupCrash, SupBackoff, SupUnblocked, Stopped
  <2>3. \/ UNCHANGED tasks
        \/ cmds # <<>> /\ Head(cmds).op = "status"
             /\ \E pc \in {"send", "spawn"} : Goto(Head(cmds).t, pc)
    BY <1>10 DEF SupStep, SupStatus, SupJob, SupStop, SupResult, SupComplete, SupDlqSend,
                 SupDlqArchive, SupCrash, SupBackoff, SupUnblocked, Receive
  <2>4. tasks' \in [Tasks -> Task] BY <1>0, <1>3, <2>0, <2>3
  <2> QED BY <1>1, <1>2, <2>1, <2>2, <2>4
<1>11. ASSUME NEW j \in proc.jobs, NEW ok \in BOOLEAN, JobEnds(j, ok)
       PROVE  UNCHANGED <<tasks, entry, cmds>>
  BY <1>11 DEF JobEnds
<1>12. CASE ProcDies BY <1>5, <1>12 DEF ProcDies
<1>13. CASE RequestStop BY <1>0, <1>1, <1>2, <1>13, Commands DEF RequestStop
<1>14. CASE CoreRestarts
  <2>1. tasks' \in [Tasks -> Task]
    <3>1. IdleTask \in Task BY DEF IdleTask, Task
    <3> QED BY <1>14, <3>1 DEF CoreRestarts
  <2> QED BY <1>1, <1>2, <1>14, <2>1 DEF CoreRestarts
<1>15. ASSUME NEW t \in Tasks, TaskStep(t) PROVE cmds' \in Seq(Command) /\ Len(cmds') <= CmdCap
  BY <1>2, <1>9, <1>15
<1>16. ASSUME NEW t \in Tasks, NEW m \in Msgs, Poll(t, m)
       PROVE  cmds' \in Seq(Command) /\ Len(cmds') <= CmdCap
  BY <1>2, <1>8, <1>16
<1> QED
  BY <1>0, <1>1, <1>5, <1>6, <1>7, <1>8, <1>9, <1>10, <1>11, <1>12, <1>13, <1>14, <1>15, <1>16
  DEF Next

(* A fault is counted only below its bound.                                *)
LEMMA FaultsStep ==
  ASSUME JobsInv, [Next]_vars
  PROVE  faults' \in [deaths : 0..MaxDeaths, stops : 0..MaxStops,
                      restarts : 0..MaxRestarts, errors : 0..MaxErrors]
<1>0. faults \in [deaths : 0..MaxDeaths, stops : 0..MaxStops,
                  restarts : 0..MaxRestarts, errors : 0..MaxErrors]
  BY DEF JobsInv, TypeOK
<1>1. \/ UNCHANGED faults \/ DbError \/ Dies
      \/ faults.stops < MaxStops /\ faults' = [faults EXCEPT !.stops = @ + 1]
      \/ faults.restarts < MaxRestarts /\ faults' = [faults EXCEPT !.restarts = @ + 1]
  BY DEF vars, Next, Enqueue, HeartbeatGivesUp, Renew, LeaseExpires, Poll, TaskStep, Check,
         Resolve, Spawn, Send, FailJob, DlqSend, DlqArchive, SupStep, SupStatus, SupJob, SupStop,
         SupResult, SupComplete, SupDlqSend, SupDlqArchive, SupCrash, SupBackoff, SupUnblocked,
         JobEnds, ProcDies, RequestStop, CoreRestarts, NoFault
<1> QED BY SMTT(30), <1>0, <1>1, JobsAssumption DEF DbError, Dies

(***************************************************************************)
(* The theorems.                                                           *)
(***************************************************************************)
(* The invariant holds in every reachable state: leases cover running jobs *)
(* and unread results, and every delivery has one holder at most.          *)
THEOREM JobsInvariant == Spec => []JobsInv
<1>1. ASSUME JobsInv, [Next]_vars PROVE JobsInv'
  <2>1. WorkerOK' /\ LedgerInv' /\ WaitingInv' BY <1>1, WorkerStep, LedgerStep, WaitingStep
  <2>2. TypeOK'
    BY <1>1, <2>1, QueueTypeStep, SchedulerTypeStep, FaultsStep DEF TypeOK, WorkerOK, WorkerTypes
  <2> QED BY <2>1, <2>2 DEF JobsInv, WorkerOK, LedgerInv, DeliveryInv
<1> QED BY <1>1, JobsInit, PTL DEF Spec

(* Jobs are type-correct.                                                  *)
THEOREM JobsTypeCorrect == Spec => []TypeOK
<1>1. JobsInv => TypeOK BY DEF JobsInv
<1> QED BY <1>1, JobsInvariant, PTL

(* A job the process is running is always covered by a lease entry of the  *)
(* supervisor, one job a message: job_already_in_flight never misses one.  *)
THEOREM JobsAreLeased == Spec => []RunningJobIsLeased
<1>1. JobsInv => RunningJobIsLeased BY DEF JobsInv, WorkerInv
<1> QED BY <1>1, JobsInvariant, PTL

(* Each kind of step is a step of the contract, or none.                   *)
LEMMA JobsContractStep ==
  ASSUME JobsInv, [Next]_vars
  PROVE  [Contract!Next]_(Contract!contractVars)
<1>0. queue \in QueueRows({NoMsg}) /\ proc \in Process
  BY DEF JobsInv, TypeOK, QueueTypeOK, QueueRows
<1>1. CASE Calm
  <2>1. Busy' \in SUBSET Busy BY <1>1 DEF Calm, Busy
  <2>2. Contract!Advance
    BY <1>1, <2>1 DEF Calm, QueueCalm, Contract!Advance, Contract!Settled
  <2> QED BY <2>2 DEF Contract!Next
<1>2. ASSUME NEW m \in Msgs, Enqueue(m) PROVE Contract!Next
  <2>1. Phase[m] = "unsent" /\ Phase' = [Phase EXCEPT ![m] = "pending"]
    BY SMTT(30), <1>0, <1>2, EnqueuePhase DEF Enqueue
  <2>2. UNCHANGED <<Busy, started>> BY <1>2 DEF Enqueue, workerVars, Busy
  <2> QED BY <2>1, <2>2 DEF Contract!Next, Contract!Send
<1>3. ASSUME NEW t \in Tasks, NEW m \in Msgs, Poll(t, m) PROVE UNCHANGED Contract!contractVars
  <2>1. Phase' = Phase BY <1>0, <1>3, HidePhase DEF Poll
  <2>2. UNCHANGED <<Busy, started>> BY <1>3 DEF Poll, workerVars, Busy
  <2> QED BY <2>1, <2>2 DEF Contract!contractVars
<1>4. ASSUME UNCHANGED <<queue, proc, started>> PROVE UNCHANGED Contract!contractVars
  BY <1>4 DEF Contract!contractVars, Phase, Settled, Busy
<1>5. ASSUME NEW m \in Msgs, NEW d \in Nat, Starts(m, d) PROVE Contract!Next
  <2>1. Pending(m, d) /\ d <= MaxDeliveries BY <1>5, TakenDelivery DEF Starts
  <2>2. queue[m].st # "unsent" /\ d \notin started[m] /\ d \in 1..MaxDeliveries
    BY SMTT(30), <1>0, <2>1, QueueAssumption DEF Pending, QueueRows
  <2>3. m \notin Busy
    BY <1>5 DEF Starts, Busy, JobsInv, WorkerInv, RunningJobIsLeased
  <2>4. PICK j : j.m = m /\ proc'.jobs = proc.jobs \cup {j}
    <3>1. [m |-> m, d |-> d].m = m OBVIOUS
    <3>2. proc'.jobs = proc.jobs \cup {[m |-> m, d |-> d]}
      BY <1>0, <1>5 DEF Starts, Deliver, Process
    <3> QED BY <3>1, <3>2
  <2>5. Busy' = Busy \cup {m} BY <2>4 DEF Busy
  <2>6. Phase[m] # "unsent" /\ UNCHANGED Phase
    BY <1>5, <2>2 DEF Starts, Phase, Settled
  <2>7. started' = [started EXCEPT ![m] = @ \cup {d}] BY <1>5 DEF Starts, Deliver
  <2>8. Contract!Start(m, d)
    BY <2>2, <2>3, <2>5, <2>6, <2>7 DEF Contract!Start
  <2> QED BY <2>2, <2>8 DEF Contract!Next
<1> QED BY <1>1, <1>2, <1>3, <1>4, <1>5, SixKinds DEF Posts, Blocks

(* App jobs honour the queue's contract, for any number of messages,       *)
(* permits, commands and faults: a message's job never runs twice at once, *)
(* each delivery starts it at most once and none past MAX_DELIVERIES does, *)
(* and a settled message stays settled.                                    *)
THEOREM JobsHonourContract == Spec => HonoursContract
<1>1. Init => Contract!Init
  BY SMTT(30) DEF Init, QueueInit, Contract!Init, Phase, Busy, DeadProc
<1>2. JobsInv /\ [Next]_vars => [Contract!Next]_(Contract!contractVars) BY JobsContractStep
<1> QED BY JobsInvariant, <1>1, <1>2, PTL DEF Spec, HonoursContract, Contract!Spec
=============================================================================
