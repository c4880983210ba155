------------------------------ MODULE JobQueue ------------------------------
(***************************************************************************)
(* The durable job queue: the pgmq queue `jobs`, its dead-letter queue     *)
(* `jobs_dlq`, and the statements of core/src/jobs.rs over them.           *)
(*                                                                         *)
(* A message is leased by reading it (120 seconds of invisibility), and    *)
(* leaves the queue by being archived or deleted.  Time is abstracted: a   *)
(* lease that has not been renewed may run out at any moment, so the only  *)
(* thing recorded of a lease is whether the message is still hidden.       *)
(* pgmq itself is external: a table with a read counter and a visibility   *)
(* time, whose statements are atomic, and whose archive, delete and set_vt *)
(* do nothing to a message that is no longer there.                        *)
(***************************************************************************)
EXTENDS Naturals, FiniteSets

CONSTANTS MaxMsgs,        \* bound: messages ever sent
          MaxDeliveries   \* jobs::MAX_DELIVERIES, 5 in the code

ASSUME QueueAssumption == MaxMsgs \in Nat \ {0} /\ MaxDeliveries \in Nat \ {0}

VARIABLES queue,          \* pgmq.q_jobs with its archive: message id -> row
          dlq             \* message id -> number of entries in jobs_dlq

queueVars == <<queue, dlq>>

Msgs == 1..MaxMsgs

(* Message ids are handed out in order by a sequence.                      *)
Unsent == {m \in Msgs : queue[m].st = "unsent"}
NextMsg(m) == m \in Unsent /\ \A k \in Unsent : m <= k

InQueue == {"visible", "leased"}
Settled(m) == queue[m].st \in {"archived", "deleted"}

QueueStates == {"unsent", "visible", "leased", "archived", "deleted"}

QueueTypeOK(Bodies) ==
  /\ queue \in [Msgs -> [st : QueueStates, ct : Nat, body : Bodies]]
  /\ dlq \in [Msgs -> Nat]

QueueInit(body) ==
  /\ queue = [m \in Msgs |-> [st |-> "unsent", ct |-> 0, body |-> body]]
  /\ dlq = [m \in Msgs |-> 0]

(* A mutant: one delivery too many.                                        *)
delivery_exhausted_late(ct) == ct > MaxDeliveries + 1

delivery_exhausted(ct) == ct > MaxDeliveries

enqueue_message(m, body) ==
  /\ NextMsg(m)
  /\ queue' = [queue EXCEPT ![m] = [st |-> "visible", ct |-> 0, body |-> body]]

(* pgmq.read(queue, vt, 1): the lowest visible id is hidden and its read   *)
(* counter goes up.                                                        *)
read_next(m) ==
  /\ queue[m].st = "visible"
  /\ \A k \in Msgs : queue[k].st = "visible" => m <= k
  /\ queue' = [queue EXCEPT ![m].st = "leased", ![m].ct = @ + 1]

Leave(m, st) ==
  queue' = [queue EXCEPT ![m].st = IF @ \in InQueue THEN st ELSE @]

complete(m) == Leave(m, "archived")

fail(m) == Leave(m, "deleted")

(* The two statements of dead_letter, in the order the code runs them.     *)
dead_letter_send(m) == dlq' = [dlq EXCEPT ![m] = @ + 1]
dead_letter_archive(m) == Leave(m, "archived")

(* set_vt hides the message again even when its lease has already run out. *)
extend_lease(m) ==
  /\ queue[m].st = "visible"
  /\ queue' = [queue EXCEPT ![m].st = "leased"]

lease_runs_out(m) ==
  /\ queue[m].st = "leased"
  /\ queue' = [queue EXCEPT ![m].st = "visible"]

(* What the queue's contract sees of a message.                            *)
Phase ==
  [m \in Msgs |-> IF queue[m].st = "unsent" THEN "unsent"
                  ELSE IF Settled(m) THEN "settled" ELSE "pending"]
=============================================================================
