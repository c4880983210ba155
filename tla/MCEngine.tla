------------------------------ MODULE MCEngine ------------------------------
(***************************************************************************)
(* The execution engine, part by part: the worker pool, a workflow's drive *)
(* and the order of its nodes.  They share no state, so a behaviour is one *)
(* of a single part while the others rest in an initial state.             *)
(***************************************************************************)
EXTENDS WorkerPool, WorkflowRunner, MCTopoSort, TLC

CONSTANTS Parts,   \* the parts a run explores
          c1, c2, c3

VARIABLE part

-----------------------------------------------------------------------------
(* The permits of the pool and those who want them.                        *)

MCCallers == {c1, c2, c3}
PoolSymmetry == Permutations(MCCallers) \cup Permutations(Keys)

(* Room for everybody: three callers, approved executions among them.      *)
Roomy == [cap |-> 5, probes |-> 2, who |-> MCCallers, named |-> 5, work |-> 0, crashes |-> 0,
          stops |-> 0, reaps |-> FALSE, approves |-> TRUE]
(* One permit for two callers, and what else may take it from them: the    *)
(* reaper, a crash, a stop operation.                                      *)
Tight(named, work, crashes, stopped, reaps) ==
  [cap |-> 1, probes |-> 1, who |-> {c1, c2}, named |-> named, work |-> work, crashes |-> crashes,
   stops |-> stopped, reaps |-> reaps, approves |-> FALSE]
MCShapes == {Roomy, Tight(2, 1, 0, 0, TRUE), Tight(3, 1, 1, 0, FALSE), Tight(2, 1, 0, 1, FALSE)}

-----------------------------------------------------------------------------
(* A workflow: two triggers and a Switch, a retry, a Stop and a join.      *)

Edge(from, port, to) == [from |-> from, port |-> port, to |-> to]

FlowNodes == {"start", "timer", "switch", "call", "post", "join", "stop", "other"}
FlowEdges == <<Edge("start", 0, "switch"), Edge("switch", 0, "call"), Edge("switch", 1, "post"),
               Edge("timer", 0, "post"), Edge("switch", 1, "stop"), Edge("switch", 2, "other"),
               Edge("call", 0, "join"), Edge("post", 0, "join")>>
FlowKind == [n \in FlowNodes |->
               CASE n \in {"start", "timer"} -> "trigger" [] n = "switch" -> "route"
                 [] n = "stop" -> "stop" [] n = "other" -> "unsupported" [] OTHER -> "tool"]
FlowAttempts == [n \in FlowNodes |-> IF n = "call" THEN 2 ELSE 1]
FlowContinues == [n \in FlowNodes |-> n = "post"]

-----------------------------------------------------------------------------
engineVars == <<part, poolVars, runnerVars, graphVars>>

EngineInit ==
  /\ part \in Parts
  /\ part = "pool" \/ (part # "pool" /\ shape = Roomy)
  /\ part = "graph" \/ (part # "graph" /\ size = 1)
  /\ PoolInit /\ RunnerInit /\ GraphInit

EngineNext ==
  /\ UNCHANGED part
  /\ \/ part = "pool" /\ PoolNext /\ UNCHANGED <<runnerVars, graphVars>>
     \/ part = "drive" /\ RunnerNext /\ UNCHANGED <<poolVars, graphVars>>
     \/ part = "graph" /\ GraphNext /\ UNCHANGED <<poolVars, runnerVars>>

EngineSpec == EngineInit /\ [][EngineNext]_engineVars

=============================================================================
