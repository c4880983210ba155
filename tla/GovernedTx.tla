----------------------------- MODULE GovernedTx -----------------------------
(***************************************************************************)
(* Database work of one worker: the transaction actor of                   *)
(* governance/enforcement/sql_proxy.rs and the part of supervisor_loop in  *)
(* worker.rs that owns its sessions, invocations and calls.                *)
(*                                                                         *)
(* The supervisor is one loop: while it closes an invocation, waits for    *)
(* room in its own outbound channel or writes to a pipe nobody reads, it   *)
(* does nothing else (loop.pc).  Actors, one-shot operations and the tasks *)
(* that end a transaction run beside it.  An invocation id is minted per   *)
(* call, so a call stands for its invocation too.  What a statement says   *)
(* is abstracted to whether it succeeds; the tasks that carry a            *)
(* statement's reply to the worker, which nothing awaits, are left out.    *)
(***************************************************************************)
EXTENDS Naturals, Sequences, FiniteSets

CONSTANTS TxCalls,     \* RPCs
          Txs,       \* bound: transactions ever begun
          Ops,       \* bound: one-shot SQL and collection operations
          QueueCap,  \* the actor's command channel, 8 in the code
          OutCap,    \* the outbound channel, 64 in the code
          DoneCap,   \* tx_done, 4 in the code
          MaxOpen,   \* MAX_OPEN_TRANSACTIONS_PER_WORKER
          Permits,   \* TX_MAX_CONCURRENT
          MaxKills,  \* bound: deaths of the worker process
          Workers,   \* the kinds of worker and the requests they make
          NoTxCall

ASSUME TxAssumption ==
  /\ QueueCap \in Nat \ {0} /\ OutCap \in Nat \ {0} /\ DoneCap \in Nat \ {0}
  /\ MaxOpen \in Nat /\ Permits \in Nat /\ MaxKills \in Nat /\ NoTxCall \notin TxCalls
  /\ Workers \subseteq [approved : BOOLEAN, scoped : BOOLEAN, begins : SUBSET Txs, fills : SUBSET Txs,
                       asks : SUBSET Ops, mishaps : SUBSET {"expires", "stops", "slow", "mutes", "dies"}]

VARIABLES conf,   \* fixed at spawn: approved worker, scoped invocation; what it
                  \* begins, fills with statements and asks for, what befalls it
          proc,   \* the supervisor's view of the process, and the process
          calls,  \* call -> what the caller was told, and the loop's bookkeeping
          txs,    \* transaction -> actor, session, outcome
          ops,    \* one-shot operation -> state, invocation
          loop,   \* program point of the loop
          chan    \* lengths of outbound_rx and tx_done_rx

txVars == <<conf, proc, calls, txs, ops, loop, chan>>

NoTx == [st |-> "none", phase |-> "active", q |-> <<>>, cur |-> "none", failed |-> FALSE,
         kept |-> "gone", ending |-> "none", owner |-> NoTxCall, tracked |-> FALSE,
         inv |-> NoTxCall, result |-> "open", spoilt |-> FALSE]
Select == [pc |-> "select", then |-> "none", call |-> NoTxCall, wait |-> {}]

Cmds == {"exec", "poison", "commit", "rollback"}

(* Type correctness of the actors, the calls and the loop.                 *)
TxTypeOK ==
  /\ conf \in Workers
  /\ proc \in [st : {"running", "stopped", "crashed", "exited"}, v4 : BOOLEAN,
               reads : BOOLEAN, kills : 0..MaxKills]
  /\ calls \in [TxCalls -> [told : {"none", "waiting", "ok", "error", "timeout"},
                          active : BOOLEAN, mapped : BOOLEAN]]
  /\ \A t \in Txs :
       /\ txs[t].st \in {"none", "loop", "got", "committing", "ended", "notified"}
       /\ txs[t].phase \in {"active", "finalizing", "cancelRequested", "finished"}
       /\ Len(txs[t].q) <= QueueCap /\ \A i \in DOMAIN txs[t].q : txs[t].q[i] \in Cmds
       /\ txs[t].kept \in {"open", "task", "gone"}
       /\ txs[t].result \in {"open", "committed", "rolledback"}
       /\ {txs[t].owner, txs[t].inv} \subseteq TxCalls \cup {NoTxCall}
  /\ ops \in [Ops -> [st : {"none", "running", "sending", "sent"},
                      inv : TxCalls \cup {NoTxCall}, result : {"open", "committed", "failed"}]]
  /\ loop.pc \in {"select", "closing", "blocked", "writing"}
  /\ chan \in [out : 0..OutCap, done : SUBSET Txs] /\ Cardinality(chan.done) <= DoneCap

TxInit ==
  /\ conf \in Workers
  /\ proc = [st |-> "running", v4 |-> FALSE, reads |-> TRUE, kills |-> 0]
  /\ calls = [c \in TxCalls |-> [told |-> "none", active |-> FALSE, mapped |-> FALSE]]
  /\ txs = [t \in Txs |-> NoTx]
  /\ ops = [o \in Ops |-> [st |-> "none", inv |-> NoTxCall, result |-> "open"]]
  /\ loop = Select
  /\ chan = [out |-> 0, done |-> {}]

(***************************************************************************)
(* TxLifecycle.                                                            *)
(***************************************************************************)
cancelled(x) == IF x.phase = "active" THEN [x EXCEPT !.phase = "cancelRequested"] ELSE x

(* Dropping a session cancels its actor.                                   *)
dropped(x) == [cancelled(x) EXCEPT !.kept = "gone", !.owner = NoTxCall]

(***************************************************************************)
(* The actor of begin_with_invocation.                                     *)
(***************************************************************************)
rolledback(x) == [x EXCEPT !.st = "ended", !.cur = "none", !.q = <<>>, !.failed = FALSE,
                           !.spoilt = FALSE, !.result = "rolledback"]

Step(t, x) == txs' = [txs EXCEPT ![t] = x] /\ UNCHANGED <<conf, proc, calls, ops, loop>>

(* The select is biased: cancellation, the deadline, then a command.  A    *)
(* closed channel is the session that went away.                           *)
ActorCancelled(t) ==
  /\ txs[t].st \in {"loop", "got"} /\ txs[t].phase = "cancelRequested"
  /\ txs[t].st = "got" => txs[t].cur = "exec"
  /\ Step(t, rolledback(txs[t])) /\ UNCHANGED chan

ActorDeadline(t) ==
  /\ txs[t].st \in {"loop", "got"}
  /\ txs[t].st = "got" => txs[t].cur = "exec"
  /\ Step(t, rolledback(cancelled(txs[t]))) /\ UNCHANGED chan

ActorOrphaned(t) ==
  /\ txs[t].st = "loop" /\ txs[t].kept = "gone" /\ txs[t].q = <<>>
  /\ Step(t, rolledback(txs[t])) /\ UNCHANGED chan

ActorTakes(t) ==
  /\ txs[t].st = "loop" /\ txs[t].phase # "cancelRequested" /\ txs[t].q # <<>>
  /\ Step(t, [txs[t] EXCEPT !.st = "got", !.cur = Head(txs[t].q), !.q = Tail(txs[t].q)])
  /\ UNCHANGED chan

(* A failed statement poisons the transaction; the reply goes to a task    *)
(* that sends it to the worker.                                            *)
ActorExec(t) ==
  /\ txs[t].st = "got" /\ txs[t].cur = "exec"
  /\ \E ok \in {~txs[t].failed, FALSE} :
       Step(t, [txs[t] EXCEPT !.st = "loop", !.cur = "none", !.failed = ~ok,
                              !.spoilt = @ \/ ~ok])
  /\ UNCHANGED chan

ActorPoison(t) ==
  /\ txs[t].st = "got" /\ txs[t].cur = "poison"
  /\ Step(t, [txs[t] EXCEPT !.st = "loop", !.cur = "none", !.failed = TRUE])
  /\ UNCHANGED chan

(* begin_finalization decides between the cancellation and COMMIT.         *)
ActorCommit(t) ==
  /\ txs[t].st = "got" /\ txs[t].cur = "commit"
  /\ Step(t, IF txs[t].phase # "active" THEN rolledback(txs[t])
             ELSE IF txs[t].failed THEN rolledback([txs[t] EXCEPT !.phase = "finalizing"])
             ELSE [txs[t] EXCEPT !.phase = "finalizing", !.st = "committing"])
  /\ UNCHANGED chan

ActorRollback(t) ==
  /\ txs[t].st = "got" /\ txs[t].cur = "rollback"
  /\ Step(t, rolledback(IF txs[t].phase = "active"
                        THEN [txs[t] EXCEPT !.phase = "finalizing"] ELSE txs[t]))
  /\ UNCHANGED chan

(* PostgreSQL's answer to COMMIT.                                          *)
Committed(t) ==
  /\ txs[t].st = "committing"
  /\ \E r \in {"committed", "rolledback"} :
       Step(t, IF r = "rolledback" THEN rolledback(txs[t])
               ELSE [txs[t] EXCEPT !.st = "ended", !.cur = "none", !.q = <<>>, !.result = r])
  /\ UNCHANGED chan

(* The permit, then the latch, then the supervisor's bounded channel.      *)
Finish(t) ==
  /\ txs[t].st = "ended" /\ txs[t].phase # "finished"
  /\ Step(t, [txs[t] EXCEPT !.phase = "finished"]) /\ UNCHANGED chan

Notify(t) ==
  /\ txs[t].st = "ended" /\ txs[t].phase = "finished" /\ Cardinality(chan.done) < DoneCap
  /\ Step(t, [txs[t] EXCEPT !.st = "notified"])
  /\ chan' = [chan EXCEPT !.done = @ \cup {t}]

(* finish_tx and abort_tx: a task sends the last command, waiting for room. *)
TaskEnds(t) ==
  /\ txs[t].kept = "task"
  /\ \/ /\ txs[t].st \in {"loop", "got"} /\ txs[t].ending # "none" /\ Len(txs[t].q) < QueueCap
        /\ Step(t, [txs[t] EXCEPT !.q = Append(@, txs[t].ending), !.ending = "none"])
     \/ /\ txs[t].phase = "finished"
        /\ Step(t, [txs[t] EXCEPT !.kept = "gone", !.ending = "none"])
  /\ UNCHANGED chan

(***************************************************************************)
(* One-shot operations: run_sql_with_invocation, collection_op, or a read. *)
(***************************************************************************)
OpRuns(o) ==
  /\ ops[o].st = "running"
  /\ \E r \in {"committed", "failed"} :
       ops' = [ops EXCEPT ![o].st = "sending", ![o].result = r]
  /\ UNCHANGED <<conf, proc, calls, txs, loop, chan>>

OpReplies(o) ==
  /\ ops[o].st = "sending" /\ chan.out < OutCap
  /\ ops' = [ops EXCEPT ![o].st = "sent"] /\ chan' = [chan EXCEPT !.out = @ + 1]
  /\ UNCHANGED <<conf, proc, calls, txs, loop>>

(***************************************************************************)
(* Closing: ApprovedTransactions::close, drain_data_tasks.                 *)
(***************************************************************************)
Tracked(c) == {t \in Txs : txs[t].tracked /\ (c = NoTxCall \/ txs[t].inv = c)}

(* A mutant: only the sessions are dropped, no actor is awaited.           *)
CloseWithoutWaiting(c, then, who) ==
  /\ txs' = [t \in Txs |-> IF t \in Tracked(c) THEN [cancelled(txs[t]) EXCEPT !.tracked = FALSE]
                           ELSE txs[t]]
  /\ loop' = [pc |-> "closing", then |-> then, call |-> who, wait |-> {}]

Close(c, then, who) ==
  /\ txs' = [t \in Txs |-> IF t \in Tracked(c) THEN [cancelled(txs[t]) EXCEPT !.tracked = FALSE]
                           ELSE txs[t]]
  /\ loop' = [pc |-> "closing", then |-> then, call |-> who, wait |-> Tracked(c)]

Draining == conf.approved /\ \E o \in Ops : ops[o].st \in {"running", "sending"}

(* The drain discards what the operations want to send.                    *)
Drain ==
  /\ loop.pc = "closing" /\ \A t \in loop.wait : txs[t].phase = "finished"
  /\ Draining /\ chan.out > 0
  /\ chan' = [chan EXCEPT !.out = @ - 1]
  /\ UNCHANGED <<conf, proc, calls, txs, ops, loop>>

(* close_workflow_invocation.                                              *)
closed(c) == [t \in Txs |-> IF txs[t].owner = c /\ c # NoTxCall /\ txs[t].kept = "open"
                            THEN dropped(txs[t])
                            ELSE IF txs[t].owner = c THEN [txs[t] EXCEPT !.owner = NoTxCall]
                            ELSE txs[t]]
AllDropped == [t \in Txs |-> IF txs[t].kept = "open" THEN dropped(txs[t])
                             ELSE [txs[t] EXCEPT !.owner = NoTxCall]]

Told(c, how) == IF calls[c].told = "waiting" THEN how ELSE calls[c].told
Forgotten(how) == [c \in TxCalls |->
  [told |-> IF calls[c].mapped THEN Told(c, how) ELSE calls[c].told,
   active |-> FALSE, mapped |-> FALSE]]

(* Only an approved worker's writes outside an RPC are bounded.            *)
StdinFull == ~conf.approved /\ proc.st = "running" /\ ~proc.reads

(* What follows a close: the response of a call, an expiry, the end of the *)
(* process for one of four reasons.                                        *)
Closed ==
  /\ loop.pc = "closing" /\ ~Draining
  /\ \A t \in loop.wait : txs[t].phase = "finished"
  /\ loop' = IF loop.then = "stop" /\ StdinFull THEN [Select EXCEPT !.pc = "writing"] ELSE Select
  /\ LET c == loop.call IN
     \/ loop.then = "stop" /\ StdinFull /\ UNCHANGED <<txs, calls, proc>>
     \/ /\ loop.then \in {"ok", "error"}
        /\ txs' = closed(c)
        /\ calls' = [calls EXCEPT ![c].told = Told(c, loop.then), ![c].active = FALSE]
        /\ UNCHANGED proc
     \/ /\ loop.then = "expire"
        /\ txs' = closed(c)
        /\ calls' = [calls EXCEPT ![c].active = FALSE, ![c].mapped = FALSE]
        /\ UNCHANGED proc
     \/ /\ loop.then = "stop" /\ ~StdinFull
        /\ txs' = AllDropped
        /\ calls' = Forgotten("waiting")
        /\ proc' = [proc EXCEPT !.st = IF conf.approved THEN "exited" ELSE "stopped"]
     \/ /\ loop.then = "kill"
        /\ txs' = AllDropped
        /\ calls' = Forgotten("error")
        /\ proc' = [proc EXCEPT !.st = "crashed"]
     \/ /\ loop.then = "crash"
        /\ txs' = AllDropped
        /\ calls' = Forgotten(IF conf.approved THEN "error" ELSE "waiting")
        /\ \E s \in {"running", "crashed", IF conf.approved THEN "exited" ELSE "stopped"} :
             proc' = [proc EXCEPT !.st = s, !.v4 = FALSE, !.reads = TRUE]
  /\ UNCHANGED <<conf, ops, chan>>

(***************************************************************************)
(* Messages of the worker, one handler each.                               *)
(***************************************************************************)
Ready == loop.pc = "select" /\ proc.st = "running"

(* The reply of a handler, sent from inside the loop: the loop alone takes *)
(* from that channel, so a send into a full one waits for good.            *)
SendInline ==
  IF chan.out < OutCap
  THEN chan' = [chan EXCEPT !.out = @ + 1] /\ UNCHANGED loop
  ELSE loop' = [Select EXCEPT !.pc = "blocked"] /\ UNCHANGED chan

Kill ==
  /\ Close(NoTxCall, "kill", NoTxCall) /\ UNCHANGED <<conf, proc, calls, ops, chan>>

(* An approved worker must announce v4; any other may announce anything.   *)
Discover(v) ==
  /\ Ready
  /\ IF conf.approved /\ ~v THEN Kill
     ELSE proc' = [proc EXCEPT !.v4 = v] /\ UNCHANGED <<conf, calls, txs, ops, loop, chan>>

Live(c) == c # NoTxCall /\ calls[c].active
approved_capability_denial(c) == conf.approved /\ ~(proc.v4 /\ Live(c))
echoes_invocation == conf.scoped /\ proc.v4
capability_context(c) == ~echoes_invocation \/ Live(c)
tx_message_admitted(t, c) == ~echoes_invocation \/ (c = txs[t].owner /\ Live(c))

OpenTxs == {t \in Txs : txs[t].kept = "open"}
InUse == {t \in Txs : txs[t].st \in {"loop", "got", "committing"}
                      \/ (txs[t].st = "ended" /\ txs[t].phase # "finished")}

SqlBegin(t, c) ==
  /\ Ready /\ t \in conf.begins /\ txs[t].st = "none"
  /\ UNCHANGED <<conf, proc, calls, ops>>
  /\ IF approved_capability_denial(c)
     THEN IF chan.out < OutCap
          THEN SendInline /\ UNCHANGED txs
          ELSE Close(NoTxCall, "kill", NoTxCall) /\ UNCHANGED chan
     ELSE /\ SendInline
          /\ LET begun == [NoTx EXCEPT !.st = "loop", !.inv = c]
             IN \/ UNCHANGED txs   \* no slot, rate limit, refused invocation, failed BEGIN
                \/ /\ Cardinality(OpenTxs) < MaxOpen /\ Cardinality(InUse) < Permits
                   /\ capability_context(c)
                   /\ \/ txs' = [txs EXCEPT ![t] = [begun EXCEPT
                           !.kept = "open", !.owner = c, !.tracked = conf.approved]]
                      \/ conf.approved /\ txs' = [txs EXCEPT ![t] = begun]  \* timed out

(* A denied message of an approved worker ends its transaction.            *)
Denied(t) ==
  /\ txs' = [txs EXCEPT ![t] =
       CASE @.kept = "open" -> [dropped(@) EXCEPT !.spoilt = TRUE]
         [] @.kept # "open" /\ @.tracked -> cancelled(@)
         [] OTHER -> @]
  /\ SendInline /\ UNCHANGED <<conf, proc, calls, ops>>

(* abort_tx: the session leaves open_txs before it is rolled back.         *)
Aborted(x) == [x EXCEPT !.kept = "task", !.owner = NoTxCall, !.ending = "rollback", !.spoilt = TRUE]

Refuse(t) ==
  /\ \/ txs[t].kept = "open" /\ txs' = [txs EXCEPT ![t] = Aborted(@)] /\ UNCHANGED <<loop, chan>>
     \/ txs[t].kept # "open" /\ SendInline /\ UNCHANGED txs
  /\ UNCHANGED <<conf, proc, calls, ops>>

(* A mutant: a rate-limited statement is refused and nothing more.         *)
EnqueueUnlessLimited(t) ==
  /\ \E cmd \in {"exec", "none"} :
       txs' = [txs EXCEPT ![t] =
         IF cmd = "none" THEN [@ EXCEPT !.spoilt = TRUE]
         ELSE IF Len(@.q) < QueueCap /\ @.st # "ended"
         THEN [@ EXCEPT !.q = Append(txs[t].q, cmd)] ELSE Aborted(@)]
  /\ UNCHANGED <<conf, proc, calls, ops, loop, chan>>

(* The statement, or the poison of a rate-limited one, enters the actor's  *)
(* queue before the loop yields.                                           *)
Enqueue(t) ==
  /\ \E cmd \in {"exec", "poison"} :
       txs' = [txs EXCEPT ![t] =
         IF Len(@.q) < QueueCap /\ @.st \in {"loop", "got", "committing"}
         THEN [@ EXCEPT !.q = Append(txs[t].q, cmd), !.spoilt = txs[t].spoilt \/ cmd = "poison"]
         ELSE Aborted(@)]
  /\ UNCHANGED <<conf, proc, calls, ops, loop, chan>>

SqlExec(t, c) ==
  /\ Ready /\ t \in conf.fills /\ txs[t].st # "none"
  /\ IF approved_capability_denial(c)
     THEN IF chan.out < OutCap THEN Denied(t) ELSE Kill
     ELSE IF ~tx_message_admitted(t, c) \/ txs[t].kept # "open" THEN Refuse(t)
     ELSE Enqueue(t)

SqlEnd(t, c, how) ==
  /\ Ready /\ t \in conf.fills /\ txs[t].st # "none"
  /\ IF approved_capability_denial(c)
     THEN IF chan.out < OutCap THEN Denied(t) ELSE Kill
     ELSE IF ~tx_message_admitted(t, c) \/ txs[t].kept # "open" THEN Refuse(t)
     ELSE /\ txs' = [txs EXCEPT ![t] = [@ EXCEPT !.kept = "task", !.owner = NoTxCall, !.ending = how]]
          /\ UNCHANGED <<conf, proc, calls, ops, loop, chan>>

(* A SqlQuery.                                                             *)
OneShot(o, c) ==
  /\ Ready /\ o \in conf.asks /\ ops[o].st = "none"
  /\ IF approved_capability_denial(c)
     THEN IF chan.out < OutCap
          THEN SendInline /\ UNCHANGED <<conf, proc, calls, txs, ops>> ELSE Kill
     ELSE \/ SendInline /\ UNCHANGED <<conf, proc, calls, txs, ops>>   \* rate limited
          \/ /\ ops' = [ops EXCEPT ![o] =
                  IF capability_context(c) THEN [st |-> "running", inv |-> c, result |-> "open"]
                  ELSE [st |-> "sending", inv |-> c, result |-> "failed"]]
             /\ UNCHANGED <<conf, proc, calls, txs, loop, chan>>

(* It opens the same governed transaction and shares its budget.           *)
CollectionOp(o, c) == OneShot(o, c)

(* Messages whose task nothing awaits.  The gate of an approved worker     *)
(* refuses them before their handler runs; for any other worker the        *)
(* handler refuses at once or spawns the task.                             *)
Declined == ~conf.approved /\ SendInline /\ UNCHANGED <<conf, proc, calls, txs, ops>>
Detached(o, c, offered, admitted) ==
  /\ Ready /\ o \in conf.asks /\ ops[o].st = "none"
  /\ IF conf.approved
     THEN IF chan.out < OutCap
          THEN SendInline /\ UNCHANGED <<conf, proc, calls, txs, ops>> ELSE Kill
     ELSE \/ Declined   \* rate limited, an agent, no such capability
          \/ /\ offered
             /\ ops' = [ops EXCEPT ![o] =
                  IF admitted THEN [st |-> "running", inv |-> c, result |-> "open"]
                  ELSE [st |-> "sending", inv |-> c, result |-> "failed"]]
             /\ UNCHANGED <<conf, proc, calls, txs, loop, chan>>

(* Protocol v5 is above v4.                                                *)
RemoteCollectionOp(o, c) == Detached(o, c, proc.v4, capability_context(c))
SelfAction(o) == Detached(o, NoTxCall, TRUE, TRUE)
JobEnqueue(o) == Detached(o, NoTxCall, TRUE, TRUE)

(* A message without an error response: the gate can only kill.            *)
Unanswerable == Ready /\ conf.approved /\ Kill

RpcResponse(c, how) ==
  /\ Ready
  /\ IF conf.approved /\ (~proc.v4 \/ ~calls[c].mapped) THEN Kill
     ELSE IF ~calls[c].mapped
     THEN /\ calls' = [calls EXCEPT ![c].told = Told(c, how)]
          /\ UNCHANGED <<conf, proc, txs, ops, loop, chan>>
     ELSE /\ calls' = [calls EXCEPT ![c].mapped = FALSE, ![c].active = FALSE]
          /\ Close(c, how, c) /\ UNCHANGED <<conf, proc, ops, chan>>

(***************************************************************************)
(* The other arms of the loop.                                             *)
(***************************************************************************)
(* The Rpc command: the write is bounded and fails the call.               *)
Rpc(c) ==
  /\ loop.pc = "select" /\ calls[c].told = "none" /\ proc.st # "exited"
  /\ calls' = [calls EXCEPT ![c] =
       IF proc.st = "running" /\ proc.reads
       THEN [told |-> "waiting", active |-> TRUE, mapped |-> TRUE]
       ELSE [told |-> "error", active |-> FALSE, mapped |-> FALSE]]
  /\ UNCHANGED <<conf, proc, txs, ops, loop, chan>>

(* The caller's own timer, and the timer that closes the invocation.       *)
CallTimesOut(c) ==
  /\ "slow" \in conf.mishaps /\ calls[c].told = "waiting"
  /\ calls' = [calls EXCEPT ![c].told = "timeout"]
  /\ UNCHANGED <<conf, proc, txs, ops, loop, chan>>

InvocationExpires(c) ==
  /\ "expires" \in conf.mishaps /\ loop.pc = "select" /\ calls[c].mapped
  /\ Close(c, "expire", c) /\ UNCHANGED <<conf, proc, calls, ops, chan>>

TxDone(t) ==
  /\ loop.pc = "select" /\ t \in chan.done
  /\ chan' = [chan EXCEPT !.done = @ \ {t}]
  /\ LET left == IF txs[t].kept = "open" THEN "gone" ELSE txs[t].kept
     IN txs' = [txs EXCEPT ![t] = [@ EXCEPT !.tracked = FALSE, !.owner = NoTxCall, !.kept = left]]
  /\ UNCHANGED <<conf, proc, calls, ops, loop>>

(* A response for the worker.                                              *)
Outbound ==
  /\ loop.pc = "select" /\ chan.out > 0
  /\ chan' = [chan EXCEPT !.out = @ - 1]
  /\ IF proc.st # "running" \/ proc.reads THEN UNCHANGED <<txs, loop>>
     ELSE IF ~StdinFull THEN Close(NoTxCall, "kill", NoTxCall)
     ELSE loop' = [Select EXCEPT !.pc = "writing"] /\ UNCHANGED txs
  /\ UNCHANGED <<conf, proc, calls, ops>>

WriteEnds ==
  /\ loop.pc = "writing" /\ proc.reads /\ loop' = Select
  /\ UNCHANGED <<conf, proc, calls, txs, ops, chan>>

Stop ==
  /\ "stops" \in conf.mishaps /\ loop.pc = "select" /\ proc.st \in {"running", "crashed"}
  /\ Close(NoTxCall, "stop", NoTxCall) /\ UNCHANGED <<conf, proc, calls, ops, chan>>

(* The reader ends: the process died.                                      *)
ProcessDies ==
  /\ "dies" \in conf.mishaps /\ loop.pc = "select" /\ proc.st = "running" /\ proc.kills < MaxKills
  /\ proc' = [proc EXCEPT !.kills = @ + 1]
  /\ Close(NoTxCall, "crash", NoTxCall) /\ UNCHANGED <<conf, calls, ops, chan>>

(* The process stops reading its stdin, and may read again.                *)
StopsReading ==
  /\ "mutes" \in conf.mishaps /\ proc.st = "running" /\ proc.reads /\ proc.kills < MaxKills
  /\ proc' = [proc EXCEPT !.reads = FALSE, !.kills = @ + 1]
  /\ UNCHANGED <<conf, calls, txs, ops, loop, chan>>

ReadsAgain ==
  /\ proc.st = "running" /\ ~proc.reads
  /\ proc' = [proc EXCEPT !.reads = TRUE]
  /\ UNCHANGED <<conf, calls, txs, ops, loop, chan>>

ActorStep(t) ==
  \/ ActorCancelled(t) \/ ActorDeadline(t) \/ ActorOrphaned(t) \/ ActorTakes(t)
  \/ ActorExec(t) \/ ActorPoison(t) \/ ActorCommit(t) \/ ActorRollback(t)
  \/ Committed(t) \/ Finish(t) \/ Notify(t) \/ TaskEnds(t)

FromWorker ==
  \/ \E v \in BOOLEAN : Discover(v)
  \/ \E t \in Txs, c \in TxCalls \cup {NoTxCall} :
       \/ SqlBegin(t, c) \/ SqlExec(t, c)
       \/ SqlEnd(t, c, "commit") \/ SqlEnd(t, c, "rollback")
  \/ \E o \in Ops, c \in TxCalls \cup {NoTxCall} :
       OneShot(o, c) \/ CollectionOp(o, c) \/ RemoteCollectionOp(o, c)
  \/ \E o \in Ops : SelfAction(o) \/ JobEnqueue(o)
  \/ Unanswerable
  \/ \E c \in TxCalls, how \in {"ok", "error"} : RpcResponse(c, how)

TxNext ==
  \/ \E t \in Txs : ActorStep(t) \/ TxDone(t)
  \/ \E o \in Ops : OpRuns(o) \/ OpReplies(o)
  \/ FromWorker
  \/ \E c \in TxCalls : Rpc(c) \/ CallTimesOut(c) \/ InvocationExpires(c)
  \/ Drain \/ Closed \/ Outbound \/ WriteEnds
  \/ Stop \/ ProcessDies \/ StopsReading \/ ReadsAgain

(* The runtime schedules every task again and again.                       *)
TxFairness ==
  /\ \A t \in Txs : WF_txVars(ActorStep(t))
  /\ \A o \in Ops : WF_txVars(OpRuns(o) \/ OpReplies(o))
  /\ WF_txVars(Drain \/ Closed)

TxSpec == TxInit /\ [][TxNext]_txVars /\ TxFairness

(***************************************************************************)
(* Properties.                                                             *)
(***************************************************************************)
(* "prevents reporting completion before that outcome": once the caller of *)
(* an approved action was told it succeeded, nothing the action started    *)
(* commits any more.                                                       *)
nothingAfterSuccess ==
  conf.approved => \A c \in TxCalls : calls[c].told = "ok" =>
       /\ \A t \in Txs : txs[t].inv = c /\ txs'[t].result = "committed"
                         => txs[t].result = "committed"
       /\ \A o \in Ops : ops[o].inv = c /\ ops'[o].result = "committed"
                         => ops[o].result = "committed"

(* Stopping an approved worker is a barrier: after its supervisor has      *)
(* answered the stop, no transaction and no operation of it commits.       *)
nothingAfterStop ==
  proc.st = "exited" =>
       /\ \A t \in Txs : txs'[t].result = "committed" => txs[t].result = "committed"
       /\ \A o \in Ops : ops'[o].result = "committed" => ops[o].result = "committed"

(* An answer given to the outside is final: to the caller of an approved   *)
(* action, and to whoever stopped the worker.                              *)
OutcomesAreFinal == [][nothingAfterSuccess /\ nothingAfterStop]_txVars

(* All or nothing: a transaction in which some statement failed, was rate  *)
(* limited or was refused before the commit was sent is never committed.   *)
NoPartialCommit == \A t \in Txs : txs[t].result = "committed" => ~txs[t].spoilt

(* "so draining cannot deadlock on that channel", "so a full outbound      *)
(* queue cannot deadlock the drain": a close that has begun comes to an    *)
(* end, whatever the length of the two channels.                           *)
ClosingEnds == (loop.pc = "closing") ~> (loop.pc # "closing")
=============================================================================
