----------------------------- MODULE MCTopoSort -----------------------------
(***************************************************************************)
(* topo_sort on every graph of a few nodes: an edge is added at a time,    *)
(* and in every graph reached the result is compared with what a           *)
(* topological order is by definition.  Node names mean nothing to the     *)
(* algorithm, so a graph names its nodes in the order of their first use.  *)
(***************************************************************************)
EXTENDS TopoSort

CONSTANTS Sizes,     \* bound: how many nodes a graph may have
          MaxEdges   \* bound: edges of a graph, parallel ones included

VARIABLES size, edges

graphVars == <<size, edges>>

GraphNodes == 1..size

GraphInit == size \in Sizes /\ edges = <<>>

used == {0} \cup {edges[i].from : i \in DOMAIN edges} \cup {edges[i].to : i \in DOMAIN edges}

AddEdge(a, b) ==
  /\ Len(edges) < MaxEdges
  /\ a <= Max(used) + 1 /\ b <= Max(used \cup {a}) + 1
  /\ edges' = Append(edges, [from |-> a, to |-> b])
  /\ UNCHANGED size

GraphNext == \E a, b \in GraphNodes : AddEdge(a, b)

GraphSpec == GraphInit /\ [][GraphNext]_graphVars

Arrow(a, b) == \E i \in DOMAIN edges : edges[i].from = a /\ edges[i].to = b

(* The nodes a cycle leads to: the largest set in which every node has an  *)
(* upstream node.                                                          *)
Unsortable ==
  UNION {U \in SUBSET GraphNodes : \A b \in U : \E a \in U : Arrow(a, b)}

(* Whatever order the HashMap yields its roots in, topo_sort lists every   *)
(* node no cycle leads to, once, after all of its upstream nodes, and none *)
(* of the others; no in-degree ever drops below zero and the queue is      *)
(* empty after one visit per node.                                         *)
SortsEveryGraph ==
  \A roots \in SetToSeqs(Roots(GraphNodes, edges)) :
    LET s == kahn(GraphNodes, edges, roots)
        sortable == GraphNodes \ Unsortable
        At(n) == CHOOSE i \in DOMAIN s.order : s.order[i] = n
    IN  /\ ToSet(s.order) = sortable
        /\ Len(s.order) = Cardinality(sortable)
        /\ \A a, b \in sortable : Arrow(a, b) => At(a) < At(b)
        /\ s.queue = <<>>
        /\ \A n \in GraphNodes : s.deg[n] >= 0
=============================================================================
