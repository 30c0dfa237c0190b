------------------------------ MODULE GraphWalk ------------------------------
(***************************************************************************)
(* The walks of packages/fabric-core/src/graph.ts: the three-colour search *)
(* of findCycle, and autoLayout, which runs it, finds the longest-path     *)
(* layer of every node and stacks the nodes without a position in them.    *)
(*                                                                         *)
(* Both walks are recursive.  Here the calls under way are a stack, and an *)
(* action is one turn of a loop or one return.  The order of the edges in  *)
(* their list is left open, and so is which nodes come with a position.    *)
(***************************************************************************)
EXTENDS WorkflowGraphs, FiniteSets

CONSTANT Drawings   \* the graphs that are walked

ASSUME DrawingsAssumption == \A g \in Drawings : IsGraph(g)

VARIABLES
    drawn,      \* the graph
    doing,      \* findCycle "search", then autoLayout's "depths", "rows", "over"
    turns,       \* how many nodes the loop over g.nodes has taken
    walks,      \* the calls of walk or depthOf under way, the innermost last
    colour,     \* findCycle: the colour of every node,
    found,      \* and what it returns, if anything
    depth,      \* autoLayout: the depths found so far,
    perLayer,   \* how many nodes were placed in each layer,
    places      \* and the layer and row of each

walkVars == <<drawn, doing, turns, walks, colour, found, depth, perLayer, places>>

Successors(g, n) == {e[2] : e \in {x \in g.edges : x[1] = n}}
Parents(g, n) == IF n \in Ids(g) THEN {e[1] : e \in {x \in g.edges : x[2] = n}} ELSE {}

(* A call: the node, the neighbours its loop has left, and for depthOf the *)
(* depth that those before them amount to.                                 *)
CallOn(n, left) == [node |-> n, left |-> left, deepest |-> 0]
Inner == walks[Len(walks)]
Ahead == IF walks = <<>> THEN {} ELSE Inner.left
Returned == SubSeq(walks, 1, Len(walks) - 1)
Took(m) == [walks EXCEPT ![Len(walks)].left = @ \ {m}]

WalkInit ==
    /\ drawn \in Drawings
    /\ doing = "search"
    /\ turns = 0
    /\ walks = <<>>
    /\ colour = [n \in Ids(drawn) |-> "white"]
    /\ found = {}
    /\ depth = [n \in {} |-> 0]
    /\ perLayer = [d \in {} |-> 0]
    /\ places = [i \in {} |-> <<0, 0>>]

(* The loop over the nodes takes the next one, or is done.                 *)
TakesNode(what) ==
    doing = what /\ walks = <<>> /\ turns < Len(drawn.nodes) /\ turns' = turns + 1
TakenNode == drawn.nodes[turns + 1]

LoopDone(what, then) ==
    /\ doing = what /\ walks = <<>> /\ turns = Len(drawn.nodes)
    /\ doing' = then /\ turns' = 0
    /\ UNCHANGED <<drawn, walks, colour, found, depth, perLayer, places>>

-----------------------------------------------------------------------------
(* findCycle.                                                              *)
Searching == UNCHANGED <<drawn, depth, perLayer, places>>

Walk(m, callers) ==
    /\ colour' = [colour EXCEPT ![m] = "grey"]
    /\ walks' = Append(callers, CallOn(m, Successors(drawn, m)))

WalkNode ==
    /\ TakesNode("search")
    /\ IF colour[TakenNode] = "white" THEN Walk(TakenNode, walks) ELSE UNCHANGED <<colour, walks>>
    /\ UNCHANGED <<doing, found>> /\ Searching

(* An edge from the innermost node.  One to a node that is not in the list *)
(* finds no colour and is passed by.                                       *)
Meets(m) == doing = "search" /\ m \in Ahead

WalkOn(m) ==
    /\ Meets(m)
    /\ m \in DOMAIN colour => colour[m] # "grey"
    /\ IF m \in DOMAIN colour /\ colour[m] = "white"
         THEN Walk(m, Took(m)) ELSE walks' = Took(m) /\ UNCHANGED colour
    /\ UNCHANGED <<doing, turns, found>> /\ Searching

(* A grey node is returned, call by call.  An empty id is taken for "none  *)
(* found" by the caller, which goes on; this node stays grey.              *)
WalkHits(m) ==
    /\ Meets(m)
    /\ m \in DOMAIN colour /\ colour[m] = "grey"
    /\ IF m = NoId
         THEN walks' = Returned /\ UNCHANGED <<doing, turns, found>>
         ELSE walks' = <<>> /\ doing' = "depths" /\ turns' = 0 /\ found' = {m}
    /\ UNCHANGED colour /\ Searching

LeftGrey == colour
Blackened == [colour EXCEPT ![Inner.node] = "black"]

WalkReturns ==
    /\ doing = "search" /\ walks # <<>> /\ Ahead = {}
    /\ colour' = Blackened
    /\ walks' = Returned
    /\ UNCHANGED <<doing, turns, found>> /\ Searching

FindCycle ==
    \/ WalkNode \/ WalkReturns
    \/ \E m \in Ahead : WalkOn(m) \/ WalkHits(m)
    \/ LoopDone("search", "depths")

-----------------------------------------------------------------------------
(* autoLayout: depthOf.                                                    *)
Measuring == UNCHANGED <<drawn, doing, colour, found, perLayer, places>>

WithDepth(n, d) == [m \in DOMAIN depth \cup {n} |-> IF m = n THEN d ELSE depth[m]]
Known(n) == n \in DOMAIN depth
Seen(n) == \E i \in DOMAIN walks : walks[i].node = n

(* What a parent of depth d makes of its child's.                          *)
LastParent(deepest, d) == d + 1
Deeper(deepest, d) == IF d + 1 > deepest THEN d + 1 ELSE deepest

(* A graph with a cycle has one layer.                                     *)
DepthOfNode ==
    /\ TakesNode("depths")
    /\ IF found # {} THEN depth' = WithDepth(TakenNode, 0) /\ UNCHANGED walks
                     ELSE /\ UNCHANGED depth
                          /\ walks' = IF Known(TakenNode) THEN walks
                                      ELSE <<CallOn(TakenNode, Parents(drawn, TakenNode))>>
    /\ Measuring

DepthOfParent(p) ==
    /\ doing = "depths" /\ p \in Ahead
    /\ walks' =
         IF Known(p) \/ Seen(p)
           THEN [Took(p) EXCEPT ![Len(walks)].deepest =
                   Deeper(@, IF Known(p) THEN depth[p] ELSE 0)]
           ELSE Append(Took(p), CallOn(p, Parents(drawn, p)))
    /\ UNCHANGED <<turns, depth>> /\ Measuring

DepthReturns ==
    /\ doing = "depths" /\ walks # <<>> /\ Ahead = {}
    /\ depth' = WithDepth(Inner.node, Inner.deepest)
    /\ walks' = [i \in DOMAIN Returned |->
                   IF i < Len(Returned) THEN walks[i]
                   ELSE [walks[i] EXCEPT !.deepest = Deeper(@, Inner.deepest)]]
    /\ UNCHANGED turns /\ Measuring

(* The rows: a node with a position keeps it, the others are stacked.      *)
Row(d) == IF d \in DOMAIN perLayer THEN perLayer[d] ELSE 0
RowKept(d) == perLayer
RowTaken(d) == [c \in DOMAIN perLayer \cup {d} |-> IF c = d THEN Row(d) + 1 ELSE perLayer[c]]

PlaceNode ==
    /\ TakesNode("rows")
    /\ \/ UNCHANGED <<perLayer, places>>
       \/ LET d == depth[TakenNode] IN
          /\ places' = [i \in DOMAIN places \cup {turns'} |->
                          IF i = turns' THEN <<d, Row(d)>> ELSE places[i]]
          /\ perLayer' = RowTaken(d)
    /\ UNCHANGED <<drawn, doing, walks, colour, found, depth>>

AutoLayout ==
    \/ DepthOfNode \/ DepthReturns \/ \E p \in Ahead : DepthOfParent(p)
    \/ LoopDone("depths", "rows")
    \/ PlaceNode
    \/ LoopDone("rows", "over")

WalkNext == FindCycle \/ AutoLayout

WalkSpec == WalkInit /\ [][WalkNext]_walkVars

-----------------------------------------------------------------------------
(* A node is on a cycle if its successors lead back to it.                 *)
OnCycle(g, n) ==
    \A S \in SUBSET Ids(g) :
        (\A m \in S \cup {n} : Successors(g, m) \cap Ids(g) \subseteq S) => n \in S

(* "Returns the offending node id, or null when acyclic": in a graph       *)
(* without an empty id findCycle returns a node exactly if there is a      *)
(* cycle, and that node is on one, whatever ids are repeated and wherever  *)
(* edges lead.  With an empty id it may miss a cycle but invents none.     *)
WalkFindsCycles ==
    doing # "search" =>
        /\ found # {} => HasCycle(drawn)
        /\ NoId \notin Ids(drawn) =>
             /\ HasCycle(drawn) => found # {}
             /\ \A n \in found : OnCycle(drawn, n)

(* "Longest-path depth": in a graph without cycles a node is one layer     *)
(* behind the deepest of its parents, the unknown ones among them in the   *)
(* first layer.                                                            *)
LayersAreDepths ==
    doing \in {"rows", "over"} /\ ~HasCycle(drawn) =>
        \A n \in Ids(drawn) :
            /\ \A p \in Parents(drawn, n) : depth[p] < depth[n]
            /\ depth[n] = 0 \/ \E p \in Parents(drawn, n) : depth[n] = depth[p] + 1

(* No two nodes are put in one place, and each in its own layer.           *)
PlacesApart ==
    \A i \in DOMAIN places :
        /\ places[i][1] = depth[drawn.nodes[i]]
        /\ \A j \in DOMAIN places : places[i] = places[j] => i = j

(* All of it: what the walks answer is what they are asked.                *)
WalksAnswerRight == WalkFindsCycles /\ LayersAreDepths /\ PlacesApart
=============================================================================
