---------------------------- MODULE WorkflowRule ----------------------------
(***************************************************************************)
(* The scheduling rule of workflows, as README.md and the comment on       *)
(* runGraph state it, node by node and without waves, retries or timeouts: *)
(* a node becomes runnable once every predecessor has settled, runs if an  *)
(* incoming edge fired (or it has none), is skipped otherwise, and after a *)
(* failure nothing new starts.                                             *)
(***************************************************************************)

VARIABLES
    graph,   \* nodes, edges (from, to, branch) and the kind of each node
    state    \* of each node

Outcomes == {"ok", "false", "error"}

Into(n) == {e \in graph.edges : e.to = n}

(* A condition that compares false fires its false edges; whatever else    *)
(* succeeds fires the others (a plain node all of them).                   *)
Fired(e) ==
    \/ state[e.from] = "ok" /\ (graph.kind[e.from] = "condition" => e.branch # "false")
    \/ state[e.from] = "false" /\ e.branch = "false"

Runnable(n) ==
    /\ state[n] = "waiting"
    /\ \A e \in Into(n) : state[e.from] \in Outcomes \cup {"skipped"}

MayStart(n) == Runnable(n) /\ (Into(n) = {} \/ \E e \in Into(n) : Fired(e))
MaySkip(n) == Runnable(n) /\ ~MayStart(n)

RuleInit == state = [n \in graph.nodes |-> "waiting"]

(* Any number of nodes start and are skipped; one that has nothing to wait *)
(* for settles as it starts.                                               *)
Advance ==
    /\ \A n \in graph.nodes : state[n] # "error"
    /\ state' \in [graph.nodes -> Outcomes \cup {"waiting", "running", "skipped"}]
    /\ \A n \in graph.nodes :
         \/ state'[n] = state[n]
         \/ MayStart(n) /\ state'[n] \in Outcomes \cup {"running"}
         \/ MaySkip(n) /\ state'[n] = "skipped"
    /\ UNCHANGED graph

Settle(n) ==
    /\ state[n] = "running"
    /\ \E outcome \in Outcomes : state' = [state EXCEPT ![n] = outcome]
    /\ UNCHANGED graph

RuleNext == Advance \/ \E n \in graph.nodes : Settle(n)

RuleSpec == RuleInit /\ [][RuleNext]_<<graph, state>>
=============================================================================
