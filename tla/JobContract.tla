---------------------------- MODULE JobContract ----------------------------
(***************************************************************************)
(* What the job queue promises of every message, whoever handles it:       *)
(* the work of a message is never in progress twice at once, each delivery *)
(* starts it at most once, no delivery past the MaxDeliveries-th starts it *)
(* at all, and a message that has left the queue stays out.                *)
(***************************************************************************)
EXTENDS Naturals

CONSTANTS Msgs, MaxDeliveries

VARIABLES phase,    \* unsent, pending, settled
          busy,     \* messages whose work is in progress
          started   \* message -> the deliveries that started its work

contractVars == <<phase, busy, started>>

Init ==
  /\ phase = [m \in Msgs |-> "unsent"]
  /\ busy = {}
  /\ started = [m \in Msgs |-> {}]

Send(m) ==
  /\ phase[m] = "unsent"
  /\ phase' = [phase EXCEPT ![m] = "pending"]
  /\ UNCHANGED <<busy, started>>

Start(m, d) ==
  /\ phase[m] # "unsent"
  /\ m \notin busy
  /\ d \in 1..MaxDeliveries \ started[m]
  /\ busy' = busy \cup {m}
  /\ started' = [started EXCEPT ![m] = @ \cup {d}]
  /\ UNCHANGED phase

Settled(m) ==
  /\ phase[m] = "pending"
  /\ phase' = [phase EXCEPT ![m] = "settled"]

(* Work ends, by finishing or by dying, and a message may leave the queue; *)
(* a finished run does both at once, a dead-lettered hang only the second. *)
Advance ==
  /\ busy' \in SUBSET busy
  /\ UNCHANGED phase \/ \E m \in Msgs : Settled(m)
  /\ UNCHANGED started

Next ==
  \/ \E m \in Msgs : Send(m)
  \/ \E m \in Msgs, d \in 1..MaxDeliveries : Start(m, d)
  \/ Advance

Spec == Init /\ [][Next]_contractVars
=============================================================================
