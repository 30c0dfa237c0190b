--------------------------- MODULE WorkflowGraphs ---------------------------
(***************************************************************************)
(* Workflow graphs as packages/fabric-core/src/graph.ts sees them: which   *)
(* graph a stored workflow stands for, and when a graph is accepted.       *)
(*                                                                         *)
(* A node is its id, and a node list may repeat one.  An edge is a pair of *)
(* ids; its branch plays no part here.  Everything else in a graph         *)
(* (positions, labels, configuration) is one value, "config".              *)
(***************************************************************************)
EXTENDS Integers, Sequences

(* An id, <kind>_<number> with a suffix if that was taken, or empty.       *)
StepId(i) == <<"step", i, 0>>
NoId == <<"", 0, 0>>

EmptyGraph == [nodes |-> <<>>, edges |-> {}, config |-> 0]

Ids(g) == {g.nodes[i] : i \in DOMAIN g.nodes}

(* A graph in JSON: a list of nodes, and edges that have two ends.         *)
IsGraph(g) ==
    /\ g = [nodes |-> g.nodes, edges |-> g.edges, config |-> g.config]
    /\ g.nodes \in Seq(Ids(g))
    /\ \A e \in g.edges : e = <<e[1], e[2]>>

DistinctNodes(g) ==
    \A i, j \in DOMAIN g.nodes : g.nodes[i] = g.nodes[j] => i = j

(* A graph has a cycle if some nodes each have a successor among them.     *)
(* GraphWalk has the walk that findCycle does, PortalProofs why they agree.*)
HasCycle(g) ==
    \E ring \in (SUBSET Ids(g)) \ {{}} :
        \A n \in ring : \E m \in ring : <<n, m>> \in g.edges

SelfLoop(g) == \E n \in Ids(g) : <<n, n>> \in g.edges

Roots(g) == {n \in Ids(g) : \A e \in g.edges : e[2] # n}

-----------------------------------------------------------------------------
(* stepsToGraph: a chain in the order of the list, drawn by id.            *)
StepsToGraph(steps) ==
    LET id == [i \in DOMAIN steps |-> IF steps[i] = NoId THEN StepId(i) ELSE steps[i]]
    IN [nodes  |-> id,
        edges  |-> {<<id[i], id[i + 1]>> : i \in 1 .. Len(steps) - 1},
        config |-> 0]

(* workflowGraph: a graph without nodes falls back to the steps.           *)
WorkflowGraph(row) ==
    IF row.graph.nodes # <<>> THEN row.graph ELSE StepsToGraph(row.steps)

(* validateGraph, the errors only: a warning refuses nothing.              *)
ValidateGraph(g) ==
    LET names == Ids(g)
    IN {error \in {"empty id", "duplicate", "dangling", "cycle", "no entry"} :
          \/ error = "empty id" /\ NoId \in names
          \/ error = "duplicate" /\ ~DistinctNodes(g)
          \/ error = "dangling" /\ \E e \in g.edges : {e[1], e[2]} \ (names \ {NoId}) # {}
          \/ error = "cycle" /\ HasCycle(g)
          \/ error = "no entry" /\ g.nodes # <<>> /\ Roots(g) = {}}

ValidateGraphLocally(g) ==
    IF SelfLoop(g) THEN {"cycle"} ELSE ValidateGraph(g) \ {"cycle", "no entry"}

(* What the engine needs of a graph to reach every node it should: nodes   *)
(* told apart, edges between them, and an order in which each node comes   *)
(* after all it waits for.                                                 *)
Runnable(g) ==
    /\ DistinctNodes(g)
    /\ \A e \in g.edges : {e[1], e[2]} \subseteq Ids(g)
    /\ \E wave \in [Ids(g) -> 1 .. Len(g.nodes)] : \A e \in g.edges : wave[e[1]] < wave[e[2]]
=============================================================================
