--------------------------- MODULE JobQueueProofs ---------------------------
(***************************************************************************)
(* Lemmas about the statements of jobs.rs, for the proofs of the modules   *)
(* that compose them.                                                      *)
(***************************************************************************)
EXTENDS JobQueue, TLAPS

(* Zenon proves every leaf that does not cite SMTT or PTL.                 *)
USE ZenonT(60)

QueueRows(Bodies) == [Msgs -> [st : QueueStates, ct : Nat, body : Bodies]]

Leaves(m) == complete(m) \/ fail(m) \/ dead_letter_archive(m)
Hides(m) == extend_lease(m) \/ lease_runs_out(m)

(* Leaving the queue: only the message's status changes, and only from in  *)
(* the queue to settled.                                                   *)
LEMMA LeaveRows ==
  ASSUME NEW Bodies, queue \in QueueRows(Bodies), NEW m \in Msgs, Leaves(m)
  PROVE  /\ queue' \in QueueRows(Bodies)
         /\ \A k \in Msgs : /\ queue'[k].ct = queue[k].ct /\ queue'[k].body = queue[k].body
                            /\ k # m => queue'[k] = queue[k]
         /\ queue'[m].st = queue[m].st
              \/ (queue[m].st \in InQueue /\ queue'[m].st \in {"archived", "deleted"})
<1>1. PICK st \in {"archived", "deleted"} : Leave(m, st)
  BY DEF Leaves, complete, fail, dead_letter_archive
<1> QED BY <1>1 DEF QueueRows, Leave, QueueStates, InQueue

(* Renewing a lease or losing it keeps the message in the queue.           *)
LEMMA HideRows ==
  ASSUME NEW Bodies, queue \in QueueRows(Bodies), NEW m \in Msgs, Hides(m)
  PROVE  /\ queue' \in QueueRows(Bodies)
         /\ \A k \in Msgs : /\ queue'[k].ct = queue[k].ct /\ queue'[k].body = queue[k].body
                            /\ k # m => queue'[k] = queue[k]
         /\ queue[m].st \in InQueue /\ queue'[m].st \in InQueue
BY SMTT(30) DEF QueueRows, Hides, extend_lease, lease_runs_out, QueueStates, InQueue

(* A read leases the message and counts the delivery.                      *)
LEMMA ReadRows ==
  ASSUME NEW Bodies, queue \in QueueRows(Bodies), NEW m \in Msgs, read_next(m)
  PROVE  /\ queue' \in QueueRows(Bodies)
         /\ \A k \in Msgs \ {m} : queue'[k] = queue[k]
         /\ queue[m].st \in InQueue /\ queue'[m].st \in InQueue
         /\ queue'[m].ct = queue[m].ct + 1 /\ queue'[m].body = queue[m].body
BY SMTT(30) DEF QueueRows, read_next, QueueStates, InQueue

(* A new message starts visible, with no delivery.                         *)
LEMMA EnqueueRows ==
  ASSUME NEW Bodies, queue \in QueueRows(Bodies), NEW m \in Msgs, NEW b \in Bodies,
         enqueue_message(m, b)
  PROVE  /\ queue' \in QueueRows(Bodies)
         /\ \A k \in Msgs \ {m} : queue'[k] = queue[k]
         /\ queue[m].st = "unsent"
         /\ queue'[m] = [st |-> "visible", ct |-> 0, body |-> b]
BY DEF QueueRows, enqueue_message, NextMsg, Unsent, QueueStates

(* Leaving the queue settles a pending message or changes nothing.         *)
LEMMA LeavePhase ==
  ASSUME NEW Bodies, queue \in QueueRows(Bodies), NEW m \in Msgs, Leaves(m)
  PROVE  \/ Phase' = Phase
         \/ Phase[m] = "pending" /\ Phase' = [Phase EXCEPT ![m] = "settled"]
<1>1. /\ \A k \in Msgs \ {m} : queue'[k].st = queue[k].st
      /\ queue'[m].st = queue[m].st
           \/ (queue[m].st \in InQueue /\ queue'[m].st \in {"archived", "deleted"})
  BY LeaveRows
<1>2. CASE queue'[m].st = queue[m].st
  <2>1. \A k \in Msgs : queue'[k].st = queue[k].st BY <1>1, <1>2
  <2> QED BY <2>1 DEF Phase, Settled
<1>3. CASE queue[m].st \in InQueue /\ queue'[m].st \in {"archived", "deleted"}
  <2>1. Phase[m] = "pending" BY <1>3 DEF Phase, Settled, InQueue
  <2>2. \A k \in Msgs \ {m} : Phase'[k] = Phase[k] BY <1>1 DEF Phase, Settled
  <2>3. Phase'[m] = "settled" BY <1>3 DEF Phase, Settled
  <2>4. Phase' = [Phase EXCEPT ![m] = "settled"] BY <2>2, <2>3 DEF Phase
  <2> QED BY <2>1, <2>4
<1> QED BY <1>1, <1>2, <1>3

(* Leases and reads are invisible to the contract.                         *)
LEMMA HidePhase ==
  ASSUME NEW Bodies, queue \in QueueRows(Bodies), NEW m \in Msgs, Hides(m) \/ read_next(m)
  PROVE  Phase' = Phase
BY HideRows, ReadRows DEF Phase, Settled, InQueue

(* Enqueueing makes an unsent message pending.                             *)
LEMMA EnqueuePhase ==
  ASSUME NEW Bodies, queue \in QueueRows(Bodies), NEW m \in Msgs, NEW b \in Bodies,
         enqueue_message(m, b)
  PROVE  Phase[m] = "unsent" /\ Phase' = [Phase EXCEPT ![m] = "pending"]
<1>1. /\ \A k \in Msgs \ {m} : queue'[k].st = queue[k].st
      /\ queue[m].st = "unsent" /\ queue'[m].st = "visible"
  BY DEF QueueRows, enqueue_message, NextMsg, Unsent
<1> QED BY <1>1 DEF Phase, Settled
=============================================================================
