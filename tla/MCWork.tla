------------------------------- MODULE MCWork -------------------------------
(***************************************************************************)
(* What applications do, part by part: the transactions of a worker, the   *)
(* turns of an agent and the builds of the hosted builder.  The parts      *)
(* share no state, so a behaviour is one of a single part while the others *)
(* rest in an initial state.                                               *)
(***************************************************************************)
EXTENDS GovernedTx, AgentTurns, HostedBuilder

CONSTANT Parts   \* the parts a run explores

VARIABLE part

-----------------------------------------------------------------------------
(* What a worker asks of its supervisor.                                   *)

worker(reviewed, scoped, begins, fills, asks, mishaps) ==
  [approved |-> reviewed, scoped |-> scoped, begins |-> begins, fills |-> fills, asks |-> asks,
   mishaps |-> mishaps]
MCWorkers ==
  { worker(TRUE, TRUE, {"t1", "t2"}, {}, {}, {"expires"}),
    worker(TRUE, TRUE, {"t1"}, {"t1"}, {}, {"stops"}),
    worker(TRUE, TRUE, {}, {}, {"o1"}, {"stops", "slow", "mutes"}),
    worker(TRUE, TRUE, {"t1"}, {}, {"o1"}, {"dies"}),
    worker(FALSE, TRUE, {"t1"}, {"t1"}, {}, {}),
    worker(FALSE, TRUE, {}, {}, {"o1"}, {"stops", "mutes"}),
    worker(FALSE, FALSE, {"t1"}, {}, {}, {"expires"}) }
ClosingWorkers ==
  { worker(TRUE, TRUE, {"t1", "t2"}, {}, {}, {"expires"}),
    worker(TRUE, TRUE, {}, {}, {"o1"}, {"stops"}),
    worker(FALSE, TRUE, {"t1"}, {}, {}, {"expires"}) }

-----------------------------------------------------------------------------
(* What an agent's run calls, under which supervision.                     *)

confirmed(action, entity) ==
  [action |-> action, entity |-> entity, approval |-> TRUE, rated |-> FALSE, max |-> 0, window |-> 0]
limit(action, max, window) ==
  [action |-> action, entity |-> "any", approval |-> FALSE, rated |-> TRUE, max |-> max, window |-> window]
both(a, b) == [k1 |-> a, k2 |-> b]
nested(a, b) == [k1 |-> a, k3 |-> b]
rows == [k1 |-> "Orders", k2 |-> "Users", k3 |-> "Orders"]
set(mode, policies, tool) ==
  [mode |-> mode, policies |-> policies, tool |-> tool, entity |-> rows,
   reader |-> "turn", expires |-> TRUE, ticks |-> FALSE, deploys |-> FALSE]
MCCasts ==
  { set("auto", <<>>, nested("spawn", "mutate")),
    [set("strict", <<>>, nested("spawn", "spawn")) EXCEPT !.expires = FALSE, !.reader = "sse"],
    set("supervised", <<confirmed("mutate", "Orders")>>, both("mutate", "query")),
    [set("auto", <<limit("*", 1, 2)>>, both("mutate", "mutate")) EXCEPT !.ticks = TRUE],
    [set("auto", <<limit("*", 1, 1), limit("mutate", 1, 3)>>, both("mutate", "mutate")) EXCEPT !.ticks = TRUE],
    set("auto", <<limit("query", 0, 2)>>, both("mutate", "query")),
    [set("auto", <<>>, [k1 |-> "mutate"]) EXCEPT !.deploys = TRUE] }
EndingCasts ==
  { set("auto", <<>>, nested("spawn", "mutate")),
    [set("supervised", <<confirmed("mutate", "Orders")>>, both("mutate", "query")) EXCEPT !.expires = FALSE],
    [set("auto", <<>>, [k1 |-> "mutate"]) EXCEPT !.deploys = TRUE] }

-----------------------------------------------------------------------------
(* What is asked of the builder of one application.                        *)

build == [import |-> FALSE, direct |-> FALSE, asks |-> {"r1"}, conversation |-> FALSE, demotes |-> FALSE,
          unbacked |-> FALSE, loss |-> 0, death |-> 0]
MCBuildScenes ==
  { [build EXCEPT !.import = TRUE, !.asks = {}, !.death = 1],
    [build EXCEPT !.import = TRUE, !.direct = TRUE, !.asks = {}],
    [build EXCEPT !.loss = 1, !.death = 1, !.demotes = TRUE],
    [build EXCEPT !.asks = Changes, !.conversation = TRUE, !.death = 1],
    [build EXCEPT !.unbacked = TRUE, !.demotes = TRUE, !.death = 1],
    [build EXCEPT !.asks = Changes, !.loss = 1] }
SettlingScenes ==
  { [build EXCEPT !.loss = 1, !.death = 1, !.demotes = TRUE],
    [build EXCEPT !.conversation = TRUE, !.death = 1],
    [build EXCEPT !.asks = Changes] }

-----------------------------------------------------------------------------
workVars == <<part, txVars, agentVars, buildVars>>

WorkInit ==
  /\ part \in Parts
  /\ part = "tx" \/ (part # "tx" /\ conf = worker(TRUE, TRUE, {"t1", "t2"}, {}, {}, {"expires"}))
  /\ TxInit
  /\ part = "turns" \/ (part # "turns" /\ cast = set("auto", <<>>, nested("spawn", "mutate")))
  /\ AgentInit
  /\ part = "builder" \/ (part # "builder" /\ bscene = [build EXCEPT !.loss = 1, !.death = 1, !.demotes = TRUE])
  /\ BuildInit

WorkNext ==
  /\ UNCHANGED part
  /\ \/ part = "tx" /\ TxNext /\ UNCHANGED <<agentVars, buildVars>>
     \/ part = "turns" /\ AgentNext /\ UNCHANGED <<txVars, buildVars>>
     \/ part = "builder" /\ BuildNext /\ UNCHANGED <<txVars, agentVars>>

WorkSpec == WorkInit /\ [][WorkNext]_workVars

(* With the fairness of the part that runs: TxFairness, AgentFairness and  *)
(* BuildFairness.                                                          *)
SettleSpec ==
  /\ WorkSpec
  /\ \A t \in Txs : WF_txVars(part = "tx" /\ ActorStep(t))
  /\ \A o \in Ops : WF_txVars(part = "tx" /\ (OpRuns(o) \/ OpReplies(o)))
  /\ WF_txVars(part = "tx" /\ (Drain \/ Closed))
  /\ \A k \in Calls : WF_agentVars(part = "turns" /\ (CallStep(k) \/ approvalExpires(k)))
  /\ \A a \in Apps : WF_agentVars(part = "turns" /\ finish(a))
  /\ \A r \in Changes : WF_buildVars(part = "builder" /\ (dispatch(r) \/ recover_once(r)))
  /\ \A j \in Jobs : WF_buildVars(part = "builder" /\ (Task(j) \/ (job[j].lease = "lost" /\ Failing(j))))

\* Nothing is left hanging: a worker that closes its transactions finishes, the calls of an ended
\* agent run are answered, and every request to build comes to an end.
WorkSettles == ClosingEnds /\ EndedRunSettles /\ RequestSettles
=============================================================================
