------------------------------ MODULE TopoSort ------------------------------
(***************************************************************************)
(* executor::topo_sort of the workflow engine: Kahn's algorithm over the   *)
(* edge list of a graph.  The initial queue is read out of a HashMap, so   *)
(* it holds the nodes without inbound edges in an arbitrary order; after   *)
(* that the order of the edge list decides.  A graph is a set of nodes     *)
(* and a sequence of edges, and may have parallel edges and cycles, which  *)
(* validate() does not refuse.                                             *)
(***************************************************************************)
EXTENDS Integers, FiniteSets, SequencesExt

in_degree(nodes, edges) ==
  [n \in nodes |-> Cardinality({i \in DOMAIN edges : edges[i].to = n})]

Roots(nodes, edges) == {n \in nodes : in_degree(nodes, edges)[n] = 0}

(* A mutant: one inbound edge is enough to release a node.                 *)
release_early(s, n) ==
  [s EXCEPT !.deg[n] = @ - 1, !.queue = Append(@, n)]

(* `*d -= 1` on an unsigned count, then push at zero.                      *)
release(s, n) ==
  [s EXCEPT !.deg[n] = @ - 1,
            !.queue = IF s.deg[n] = 1 THEN Append(@, n) ELSE @]

(* One turn of the while loop: pop a node and walk the whole edge list.    *)
visit(s, edges) ==
  IF s.queue = <<>> THEN s
  ELSE LET n == Head(s.queue)
           follow(acc, e) == IF e.from = n THEN release(acc, e.to) ELSE acc
       IN  FoldLeft(follow, [s EXCEPT !.queue = Tail(@), !.order = Append(@, n)], edges)

(* The loop's state after every node has been visited.                     *)
kahn(nodes, edges, roots) ==
  LET start == [queue |-> roots, order |-> <<>>, deg |-> in_degree(nodes, edges)]
      turn[k \in Nat] == IF k = 0 THEN start ELSE visit(turn[k - 1], edges)
  IN  turn[Cardinality(nodes)]

topo_sort(nodes, edges, roots) == kahn(nodes, edges, roots).order

(* Every order the code may pick for a graph.                              *)
Orders(nodes, edges) == {topo_sort(nodes, edges, roots) : roots \in SetToSeqs(Roots(nodes, edges))}
=============================================================================
