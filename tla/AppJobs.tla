------------------------------ MODULE AppJobs ------------------------------
(***************************************************************************)
(* App jobs: a queued message, handled by a dispatch task of the scheduler *)
(* (core/src/scheduler.rs), handed over a command channel to the           *)
(* supervisor of the app's worker (core/src/worker.rs), run by the worker  *)
(* process, and settled when the supervisor reads the process's JobResult. *)
(*                                                                         *)
(* The supervisor is one task: while it writes to the worker's stdin or    *)
(* settles a message in the database it answers nobody.  Replacing a dead  *)
(* supervisor is one step here; module WorkerPool has its races.           *)
(***************************************************************************)
EXTENDS JobQueue, Sequences

CONSTANTS Tasks,       \* dispatch permits
          CmdCap,      \* capacity of the command channel, 64 in the code
          MAX_CRASHES, \* crashes within CRASH_WINDOW that end a worker, 5
          MaxDeaths,   \* bound: deaths of the worker process
          MaxStops,    \* bound: Stop commands (redeploy, role change, reaper)
          MaxRestarts, \* bound: crashes of the Core process
          MaxErrors,   \* bound: statements the database fails
          CanWedge     \* bound: whether the process may stop reading stdin

ASSUME JobsAssumption ==
  /\ CmdCap \in Nat \ {0} /\ MAX_CRASHES \in Nat \ {0}
  /\ MaxDeaths \in Nat /\ MaxStops \in Nat
  /\ MaxRestarts \in Nat /\ MaxErrors \in Nat
  /\ CanWedge \in BOOLEAN

VARIABLES tasks,    \* Dispatcher::handle calls, one per permit
          entry,    \* whether the manager's map holds this worker
          sup,      \* supervisor_loop: status, program point, job in hand
          cmds,     \* its command channel
          leases,   \* job_leases (and, with the same keys, job_payloads)
          hb,       \* messages whose lease_heartbeat task is renewing
          proc,     \* the worker process: alive, and the jobs it is running
          pipe,     \* JobResults written by the process, not yet read
          crashes,  \* crash_times.len() and restart_count (capped at 2)
          faults,   \* deaths, stops, restarts and database errors so far
          started   \* history: message -> the deliveries that were started

vars == <<queue, dlq, tasks, entry, sup, cmds, leases, hb, proc, pipe, crashes,
          faults, started>>

NoMsg == 0
IdleTask == [pc |-> "idle", m |-> NoMsg, ct |-> 0]
Loop == [st |-> "running", pc |-> "loop", m |-> NoMsg, d |-> 0]
DeadProc == [alive |-> FALSE, jobs |-> {}]

Delivery == [m : Msgs, d : Nat]
Task == [pc : {"idle", "check", "resolve", "waiting", "spawn", "send", "stale", "fail",
               "dlqSend", "dlqArchive"},
         m : {NoMsg} \cup Msgs, ct : Nat]
Supervisor == [st : {"running", "crashed", "stopped"},
               pc : {"loop", "backoff", "writing", "stopping", "complete", "dlqSend",
                     "dlqArchive"},
               m : {NoMsg} \cup Msgs, d : Nat]
Process == [alive : BOOLEAN, jobs : SUBSET Delivery]
Result == [m : Msgs, ok : BOOLEAN]
Command == [op : {"job"}, m : Msgs, d : Nat] \cup [op : {"status"}, t : Tasks]
             \cup [op : {"stop"}]

(* Type correctness of the queue, the tasks, the supervisor, the process.  *)
TypeOK ==
  /\ QueueTypeOK({NoMsg})
  /\ tasks \in [Tasks -> Task]
  /\ entry \in BOOLEAN
  /\ sup \in Supervisor
  /\ cmds \in Seq(Command) /\ Len(cmds) <= CmdCap
  /\ leases \subseteq Msgs /\ hb \subseteq leases
  /\ proc \in Process
  /\ pipe \in Seq(Result)
  /\ crashes \in [recent : 0..MAX_CRASHES, restarts : 0..2]
  /\ faults \in [deaths : 0..MaxDeaths, stops : 0..MaxStops,
                restarts : 0..MaxRestarts, errors : 0..MaxErrors]
  /\ started \in [Msgs -> SUBSET Nat]

Init ==
  /\ QueueInit(NoMsg)
  /\ tasks = [t \in Tasks |-> IdleTask]
  /\ entry = FALSE
  /\ sup = [Loop EXCEPT !.st = "stopped"]
  /\ cmds = <<>> /\ leases = {} /\ hb = {}
  /\ proc = DeadProc /\ pipe = <<>>
  /\ crashes = [recent |-> 0, restarts |-> 0]
  /\ faults = [deaths |-> 0, stops |-> 0, restarts |-> 0, errors |-> 0]
  /\ started = [m \in Msgs |-> {}]

NoFault == UNCHANGED faults
DbError == faults.errors < MaxErrors /\ faults' = [faults EXCEPT !.errors = @ + 1]

Dies == faults.deaths < MaxDeaths /\ faults' = [faults EXCEPT !.deaths = @ + 1]

workerVars == <<sup, leases, hb, proc, pipe, crashes, started>>

(***************************************************************************)
(* The scheduler's side: Dispatcher::handle for JobKind::App.              *)
(***************************************************************************)
At(t, pc) == tasks[t].pc = pc
Goto(t, pc) == tasks' = [tasks EXCEPT ![t].pc = pc]
Finish(t) == tasks' = [tasks EXCEPT ![t] = IdleTask]
Push(c) == Len(cmds) < CmdCap /\ cmds' = Append(cmds, c)

Enqueue(m) ==
  /\ enqueue_message(m, NoMsg)
  /\ UNCHANGED <<dlq, tasks, entry, cmds, faults, workerVars>>

Poll(t, m) ==
  /\ At(t, "idle")
  /\ read_next(m)
  /\ tasks' = [tasks EXCEPT ![t] = [pc |-> "check", m |-> m, ct |-> queue[m].ct + 1]]
  /\ UNCHANGED <<dlq, entry, cmds, faults, workerVars>>

Check(t) ==
  /\ At(t, "check")
  /\ Goto(t, IF delivery_exhausted(tasks[t].ct) THEN "dlqSend" ELSE "resolve")
  /\ UNCHANGED <<queue, dlq, entry, cmds, faults, workerVars>>

(* Owner, caller, frozen authority and delegation are read again on every  *)
(* delivery, and each refusal drops the message.  Then get_or_spawn: a     *)
(* cached worker is asked for its status through its command channel.      *)
Resolve(t) ==
  /\ At(t, "resolve")
  /\ \/ entry /\ Push([op |-> "status", t |-> t]) /\ Goto(t, "waiting")
     \/ ~entry /\ Goto(t, "spawn") /\ UNCHANGED cmds
     \/ Goto(t, "fail") /\ UNCHANGED cmds
  /\ UNCHANGED <<queue, dlq, entry, faults, workerVars>>

(* get_or_spawn without a usable worker: no slot or no configuration is an *)
(* error, another task may have spawned it meanwhile, and a new supervisor *)
(* either starts its process or is Crashed.  Tasks that still hold the     *)
(* handle of the old supervisor will be talking to a stopped one: all it   *)
(* does with what is left in its channel is refuse it, so that the channel *)
(* is taken to be empty before the new supervisor's replaces it.           *)
Spawn(t) ==
  /\ At(t, "spawn")
  /\ \/ /\ ~entry /\ cmds = <<>>
        /\ entry' = TRUE
        /\ \/ sup' = Loop /\ proc' = [DeadProc EXCEPT !.alive = TRUE]
           \/ sup' = [Loop EXCEPT !.st = "crashed"] /\ proc' = DeadProc
        /\ tasks' = [u \in Tasks |->
             IF u = t THEN [tasks[u] EXCEPT !.pc = "send"]
             ELSE IF At(u, "send") THEN [tasks[u] EXCEPT !.pc = "stale"] ELSE tasks[u]]
        /\ crashes' = [recent |-> 0, restarts |-> 0]
        /\ pipe' = <<>>
        /\ UNCHANGED <<leases, hb>>
     \/ entry /\ Goto(t, "send") /\ UNCHANGED <<entry, sup, leases, hb, proc, pipe, crashes>>
     \/ Goto(t, "fail") /\ UNCHANGED <<entry, sup, leases, hb, proc, pipe, crashes>>
  /\ UNCHANGED <<queue, dlq, cmds, faults, started>>

(* dispatch_job returns as soon as the command is in the channel; a        *)
(* stopped supervisor drops the job, which is left to its lease.           *)
Send(t) ==
  /\ \/ At(t, "send") /\ Push([op |-> "job", m |-> tasks[t].m, d |-> tasks[t].ct])
     \/ At(t, "stale") /\ UNCHANGED cmds
  /\ Finish(t)
  /\ UNCHANGED <<queue, dlq, entry, faults, workerVars>>

FailJob(t) ==
  /\ At(t, "fail")
  /\ Finish(t)
  /\ \/ fail(tasks[t].m) /\ NoFault
     \/ DbError /\ UNCHANGED queue
  /\ UNCHANGED <<dlq, entry, cmds, workerVars>>

DlqSend(t) ==
  /\ At(t, "dlqSend")
  /\ \/ dead_letter_send(tasks[t].m) /\ Goto(t, "dlqArchive") /\ NoFault
     \/ DbError /\ Finish(t) /\ UNCHANGED dlq
  /\ UNCHANGED <<queue, entry, cmds, workerVars>>

DlqArchive(t) ==
  /\ At(t, "dlqArchive")
  /\ Finish(t)
  /\ \/ dead_letter_archive(tasks[t].m) /\ NoFault
     \/ DbError /\ UNCHANGED queue
  /\ UNCHANGED <<dlq, entry, cmds, workerVars>>

(***************************************************************************)
(* The supervisor.                                                         *)
(***************************************************************************)
Receive(op) ==
  /\ sup.pc = "loop"
  /\ cmds # <<>> /\ Head(cmds).op = op
  /\ cmds' = Tail(cmds)

job_never_in_flight(m) == FALSE

job_already_in_flight(m) == m \in leases

(* Every lease, heartbeat and piece of job state the process left behind.  *)
Forget == leases' = {} /\ hb' = {} /\ proc' = DeadProc /\ pipe' = <<>>

Lease(m) == leases' = leases \cup {m} /\ hb' = hb \cup {m}
Deliver(m, d) ==
  /\ proc' = [proc EXCEPT !.jobs = @ \cup {[m |-> m, d |-> d]}]
  /\ started' = [started EXCEPT ![m] = @ \cup {d}]

(* GetStatus.  Unless the worker runs, the asking task stops it and takes  *)
(* it out of the map.                                                      *)
SupStatus ==
  /\ Receive("status")
  /\ LET t == Head(cmds).t
         running == sup.st = "running"
     IN  Goto(t, IF running THEN "send" ELSE "spawn") /\ entry' = (entry /\ running)
  /\ UNCHANGED <<queue, dlq, faults, workerVars>>

(* Job: refused unless running, and when the message is already in flight. *)
(* Writing to a process that has just died may or may not be noticed;      *)
(* writing to one that stopped reading never returns.                      *)
SupJob ==
  /\ Receive("job")
  /\ LET m == Head(cmds).m
         d == Head(cmds).d
         refused == sup.st # "running" \/ job_already_in_flight(m)
     IN  \/ refused /\ UNCHANGED <<sup, leases, hb, proc, started>>
         \/ /\ ~refused /\ proc.alive
            /\ Deliver(m, d) /\ Lease(m)
            /\ UNCHANGED sup
         \/ /\ ~refused /\ ~proc.alive
            /\ Lease(m) \/ UNCHANGED <<leases, hb>>
            /\ UNCHANGED <<sup, proc, started>>
         \/ /\ ~refused /\ proc.alive /\ CanWedge
            /\ sup' = [sup EXCEPT !.pc = "writing", !.m = m, !.d = d]
            /\ UNCHANGED <<leases, hb, proc, started>>
  /\ UNCHANGED <<queue, dlq, tasks, entry, pipe, crashes, faults>>

(* Stop: Shutdown is written to the process first, without a time limit.   *)
Stopped ==
  /\ sup' = [Loop EXCEPT !.st = "stopped"]
  /\ Forget
  /\ entry' = FALSE
  /\ crashes' = [crashes EXCEPT !.recent = 0]

SupStop ==
  /\ Receive("stop")
  /\ \/ Stopped
     \/ /\ CanWedge /\ proc.alive
        /\ sup' = [sup EXCEPT !.pc = "stopping"]
        /\ UNCHANGED <<leases, hb, proc, pipe, entry, crashes>>
  /\ UNCHANGED <<queue, dlq, tasks, faults, started>>

(* A blocked write ends when the process reads again or dies.              *)
SupUnblocked ==
  /\ \/ sup.pc = "stopping" /\ Stopped /\ UNCHANGED started
     \/ /\ sup.pc = "writing"
        /\ sup' = [sup EXCEPT !.pc = "loop", !.m = NoMsg, !.d = 0]
        /\ IF proc.alive THEN Deliver(sup.m, sup.d) /\ Lease(sup.m)
                         ELSE UNCHANGED <<leases, hb, proc, started>>
        /\ UNCHANGED <<entry, pipe, crashes>>
  /\ UNCHANGED <<queue, dlq, tasks, cmds, faults>>

(* A mutant: one result cancels every lease, as a crash would.             *)
SupResultCancelsAll ==
  /\ sup.pc = "loop" /\ pipe # <<>>
  /\ sup' = [sup EXCEPT !.pc = IF Head(pipe).ok THEN "complete" ELSE "dlqSend",
                        !.m = Head(pipe).m]
  /\ leases' = {} /\ hb' = {}
  /\ pipe' = Tail(pipe)
  /\ UNCHANGED <<queue, dlq, tasks, entry, cmds, proc, crashes, faults, started>>

(* JobResult: the lease ends first, then the message is settled.           *)
SupResult ==
  /\ sup.pc = "loop" /\ pipe # <<>>
  /\ LET m == Head(pipe).m
     IN  /\ sup' = [sup EXCEPT !.pc = IF Head(pipe).ok THEN "complete" ELSE "dlqSend",
                               !.m = m]
         /\ leases' = leases \ {m} /\ hb' = hb \ {m}
  /\ pipe' = Tail(pipe)
  /\ UNCHANGED <<queue, dlq, tasks, entry, cmds, proc, crashes, faults, started>>

Back == sup' = [sup EXCEPT !.pc = "loop", !.m = NoMsg]

SupComplete ==
  /\ sup.pc = "complete" /\ Back
  /\ \/ complete(sup.m) /\ NoFault
     \/ DbError /\ UNCHANGED queue
  /\ UNCHANGED <<dlq, tasks, entry, cmds, leases, hb, proc, pipe, crashes, started>>

SupDlqSend ==
  /\ sup.pc = "dlqSend"
  /\ \/ dead_letter_send(sup.m) /\ sup' = [sup EXCEPT !.pc = "dlqArchive"] /\ NoFault
     \/ DbError /\ Back /\ UNCHANGED dlq
  /\ UNCHANGED <<queue, tasks, entry, cmds, leases, hb, proc, pipe, crashes, started>>

SupDlqArchive ==
  /\ sup.pc = "dlqArchive" /\ Back
  /\ \/ dead_letter_archive(sup.m) /\ NoFault
     \/ DbError /\ UNCHANGED queue
  /\ UNCHANGED <<dlq, tasks, entry, cmds, leases, hb, proc, pipe, crashes, started>>

Restart ==
  \/ sup' = Loop /\ proc' = [DeadProc EXCEPT !.alive = TRUE]
  \/ sup' = [Loop EXCEPT !.st = "crashed"] /\ proc' = DeadProc

(* End of the process's output: what it wrote before it died has been      *)
(* read.  Older crashes may have left CRASH_WINDOW; the first restart      *)
(* (backoff_delay) is immediate.                                           *)
SupCrash ==
  /\ sup.pc = "loop" /\ sup.st = "running" /\ ~proc.alive /\ pipe = <<>>
  /\ leases' = {} /\ hb' = {} /\ UNCHANGED pipe
  /\ \E n \in 1..crashes.recent + 1 :
       /\ crashes' = [recent |-> n, restarts |-> IF crashes.restarts = 0 THEN 1 ELSE 2]
       /\ \/ n >= MAX_CRASHES /\ sup' = [sup EXCEPT !.st = "crashed"] /\ UNCHANGED proc
          \/ n < MAX_CRASHES /\ crashes.restarts = 0 /\ Restart
          \/ /\ n < MAX_CRASHES /\ crashes.restarts > 0
             /\ sup' = [sup EXCEPT !.pc = "backoff"] /\ UNCHANGED proc
  /\ UNCHANGED <<queue, dlq, tasks, entry, cmds, faults, started>>

(* The backoff ends with its delay or with the first command: Stop is      *)
(* obeyed, GetStatus answered (the status still reads Running), anything   *)
(* else taken from the channel and ignored.                                *)
SupBackoff ==
  /\ sup.pc = "backoff"
  /\ \/ Restart /\ UNCHANGED <<cmds, tasks, entry, leases, hb, pipe, crashes>>
     \/ /\ cmds # <<>> /\ cmds' = Tail(cmds)
        /\ CASE Head(cmds).op = "stop" -> Stopped /\ UNCHANGED tasks
             [] Head(cmds).op = "status" ->
                  /\ Restart /\ Goto(Head(cmds).t, "send")
                  /\ UNCHANGED <<entry, leases, hb, pipe, crashes>>
             [] OTHER -> Restart /\ UNCHANGED <<tasks, entry, leases, hb, pipe, crashes>>
  /\ UNCHANGED <<queue, dlq, faults, started>>

(***************************************************************************)
(* The worker process, leases and heartbeats, and the Core process.        *)
(***************************************************************************)
JobEnds(j, ok) ==
  /\ j \in proc.jobs
  /\ proc' = [proc EXCEPT !.jobs = @ \ {j}]
  /\ pipe' = Append(pipe, [m |-> j.m, ok |-> ok])
  /\ UNCHANGED <<queue, dlq, tasks, entry, sup, cmds, leases, hb, crashes, faults, started>>

ProcDies ==
  /\ proc.alive /\ Dies
  /\ proc' = DeadProc
  /\ UNCHANGED <<queue, dlq, tasks, entry, sup, cmds, leases, hb, pipe, crashes, started>>

(* stop_app, stop_all, invalidate_for_principal, the reaper, an eviction.  *)
RequestStop ==
  /\ entry /\ faults.stops < MaxStops
  /\ Push([op |-> "stop"])
  /\ faults' = [faults EXCEPT !.stops = @ + 1]
  /\ UNCHANGED <<queue, dlq, tasks, entry, workerVars>>

(* A mutant: the heartbeat renews for ever.                                *)
HeartbeatNeverGivesUp(m) == m \in {} /\ UNCHANGED vars

(* lease_heartbeat returns once MAX_LEASE_LIFETIME has passed.             *)
HeartbeatGivesUp(m) ==
  /\ m \in hb
  /\ hb' = hb \ {m}
  /\ UNCHANGED <<queue, dlq, tasks, entry, sup, cmds, leases, proc, pipe, crashes, faults,
                 started>>

Renew(m) ==
  /\ m \in hb
  /\ extend_lease(m)
  /\ UNCHANGED <<dlq, tasks, entry, cmds, faults, workerVars>>

(* Nobody renews, or every renewal of the last two minutes failed.         *)
LeaseExpires(m) ==
  /\ lease_runs_out(m)
  /\ IF m \in hb THEN DbError ELSE NoFault
  /\ UNCHANGED <<dlq, tasks, entry, cmds, workerVars>>

(* The Core process dies, its workers with it, and starts again.           *)
CoreRestarts ==
  /\ faults.restarts < MaxRestarts
  /\ faults' = [faults EXCEPT !.restarts = @ + 1]
  /\ tasks' = [t \in Tasks |-> IdleTask]
  /\ entry' = FALSE
  /\ sup' = [Loop EXCEPT !.st = "stopped"]
  /\ cmds' = <<>>
  /\ Forget
  /\ crashes' = [recent |-> 0, restarts |-> 0]
  /\ UNCHANGED <<queue, dlq, started>>

TaskStep(t) ==
  \/ Check(t) \/ Resolve(t) \/ Spawn(t) \/ Send(t)
  \/ FailJob(t) \/ DlqSend(t) \/ DlqArchive(t)

SupStep ==
  \/ SupStatus \/ SupJob \/ SupStop \/ SupResult \/ SupComplete
  \/ SupDlqSend \/ SupDlqArchive \/ SupCrash \/ SupBackoff

Next ==
  \/ \E m \in Msgs : Enqueue(m) \/ HeartbeatGivesUp(m) \/ Renew(m) \/ LeaseExpires(m)
  \/ \E t \in Tasks : TaskStep(t) \/ \E m \in Msgs : Poll(t, m)
  \/ SupStep \/ SupUnblocked
  \/ \E j \in proc.jobs, ok \in BOOLEAN : JobEnds(j, ok)
  \/ ProcDies \/ RequestStop \/ CoreRestarts

Spec == Init /\ [][Next]_vars

(***************************************************************************)
(* Fairness.  The loop polls, tasks and the supervisor take their steps,   *)
(* time passes for leases and heartbeats.  A job is never assumed to end,  *)
(* nor a process that stopped reading to read again.                       *)
(***************************************************************************)
FairSpec ==
  /\ Spec
  /\ WF_vars(\E t \in Tasks, m \in Msgs : Poll(t, m))
  /\ \A t \in Tasks : WF_vars(TaskStep(t))
  /\ WF_vars(SupStep)
  /\ WF_vars(~proc.alive /\ SupUnblocked)
  /\ \A m \in Msgs : WF_vars(HeartbeatGivesUp(m)) /\ WF_vars(LeaseExpires(m))

(***************************************************************************)
(* Properties.                                                             *)
(***************************************************************************)
(* A job the process is running is always covered by a lease entry of the  *)
(* supervisor: this is what lets job_already_in_flight refuse a second run *)
(* and IsIdle keep the reaper away.  A lost entry would free both.         *)
RunningJobIsLeased ==
  /\ \A j \in proc.jobs : j.m \in leases
  /\ \A j, k \in proc.jobs : j.m = k.m => j = k

Busy == {j.m : j \in proc.jobs}

Contract == INSTANCE JobContract WITH phase <- Phase, busy <- Busy

(* App jobs honour the queue's contract: a message's job never runs twice  *)
(* at once, each delivery starts it at most once, none past                *)
(* MAX_DELIVERIES, and a settled message stays settled.                    *)
HonoursContract == Contract!Spec

(* jobs::MAX_LEASE_LIFETIME: a handler that hung must not pin its message; *)
(* "Renewal stops here so the ordinary redelivery-then-DLQ path can do its *)
(* job".  Every message leaves the queue, whatever its job does.           *)
EveryMessageSettles ==
  \A m \in Msgs : queue[m].st \in InQueue ~> Settled(m)
=============================================================================
