--------------------------- MODULE WorkflowEditor ---------------------------
(***************************************************************************)
(* The detail of a workflow and its graph editor                           *)
(* (apps/web/components/fabric/workflows-section.tsx,                      *)
(* workflow-graph-editor.tsx, workflow-canvas.tsx), and the gateway it     *)
(* saves to: PUT /fabric/workflows/:slug/graph of                          *)
(* apps/gateway/src/fabric/routes.ts.                                      *)
(*                                                                         *)
(* The list and the detail take turns on the screen.  An editor that is    *)
(* left takes its state with it, but a save it sent still lands, and the   *)
(* list is not fetched again: opening the workflow again shows what the    *)
(* list said.  A handler runs to its await and goes on later with the      *)
(* values it had captured.  There is one pointer: while it pulls an edge,  *)
(* only the keyboard and answers do something else.  Nodes are of one      *)
(* kind, with one output.                                                  *)
(***************************************************************************)
EXTENDS WorkflowGraphs, FiniteSets

CONSTANTS
    IdSuffixes,  \* values of Date.now() % 1000 that occur, none of them 0
    InitRows,    \* what the gateway may have stored before
    Slots,       \* bounds for model checking: saves at a time,
    MaxNodes,    \* nodes of a canvas,
    MaxEdits     \* edits altogether

(* What may have been stored: a graph that was validated, or none, and     *)
(* steps that nothing validates.                                           *)
Saveable(row) ==
    /\ row = [steps |-> row.steps, graph |-> row.graph]
    /\ row.steps \in Seq({row.steps[i] : i \in DOMAIN row.steps})
    /\ IsGraph(row.graph)
    /\ ValidateGraph(row.graph) = {}

ASSUME EditorAssumption ==
    /\ IdSuffixes \subseteq Nat \ {0}
    /\ \A row \in InitRows : Saveable(row)
    /\ MaxNodes \in Nat /\ MaxEdits \in Nat

VARIABLES
    detail,     \* the detail is shown, not the list
    listed,     \* the workflow in the list fetched last
    stored,     \* the workflow at the gateway: its steps and its graph
    graph,      \* GraphEditor: the graph on the canvas,
    dirty,      \* "unsaved",
    picked,     \* WorkflowCanvas: the selected node, or NoId
    drag,       \* the node an edge is being pulled from, or NoId
    saves,      \* saves between their request and the end of their handler
    edits,
    lost        \* history: this editor cannot know what is stored

canvas == <<graph, dirty, picked, drag>>
edVars == <<detail, listed, stored, canvas, saves, edits, lost>>

(* GraphEditor's initial state for a workflow, the twin of workflowGraph.  *)
GraphFromWorkflow(row) == WorkflowGraph(row)

EditorInit ==
    /\ detail = FALSE
    /\ stored \in InitRows /\ listed = stored
    /\ graph = EmptyGraph /\ dirty = FALSE
    /\ picked = NoId /\ drag = NoId
    /\ saves = {} /\ edits = 0 /\ lost = FALSE

(* The save of the editor on the screen: "saving".                         *)
Saving == \E s \in saves : s.mine

(* Opening the detail mounts an editor; Back unmounts it.                  *)
OpenDetail ==
    /\ ~detail
    /\ detail' = TRUE
    /\ graph' = GraphFromWorkflow(listed)
    /\ lost' = (listed # stored \/ saves # {})
    /\ UNCHANGED <<listed, stored, dirty, picked, drag, saves, edits>>

Back ==
    /\ detail /\ drag = NoId
    /\ detail' = FALSE
    /\ graph' = EmptyGraph /\ dirty' = FALSE /\ picked' = NoId
    /\ saves' = {[s EXCEPT !.mine = FALSE] : s \in saves}
    /\ lost' = FALSE
    /\ UNCHANGED <<listed, stored, drag, edits>>

(* load: on mount, when the wallet changes and after a creation or a       *)
(* seeding, whatever is shown.                                             *)
LoadList ==
    /\ listed' = stored
    /\ UNCHANGED <<detail, stored, canvas, saves, edits, lost>>

-----------------------------------------------------------------------------
(* Every edit goes through update: the graph is replaced and dirty set.    *)
Update(next) ==
    /\ detail /\ edits < MaxEdits
    /\ graph' = next
    /\ dirty' = TRUE
    /\ edits' = edits + 1
    /\ lost' = (lost \/ Saving)
    /\ UNCHANGED <<detail, listed, stored, saves>>

FreshIds(g) ==
    LET base == <<"http", Len(g.nodes) + 1, 0>>
    IN IF base \in Ids(g) THEN {[base EXCEPT ![3] = s] : s \in IdSuffixes} ELSE {base}

(* addNode and addNodeAt, from the palette by click or by drop.            *)
AddNode ==
    /\ drag = NoId /\ Len(graph.nodes) < MaxNodes
    /\ \E id \in FreshIds(graph) :
         Update([graph EXCEPT !.nodes = Append(@, id)])
    /\ UNCHANGED <<picked, drag>>

(* patchNode, patchConfig, setTimeout_, and dragging the node elsewhere.   *)
PatchNode ==
    /\ drag = NoId /\ picked \in Ids(graph)
    /\ Update([graph EXCEPT !.config = 1 - @])
    /\ UNCHANGED <<picked, drag>>

(* The pointer goes down on a node, or on the surface.                     *)
PickNode ==
    /\ detail /\ drag = NoId
    /\ picked' \in Ids(graph) \cup {NoId}
    /\ UNCHANGED <<detail, listed, stored, graph, dirty, drag, saves, edits, lost>>

(* The pointer goes down on an output port: an edge is being pulled.       *)
PullEdge ==
    /\ detail /\ drag = NoId
    /\ drag' \in Ids(graph)
    /\ UNCHANGED <<detail, listed, stored, graph, dirty, picked, saves, edits, lost>>

(* The pointer goes up over a node (connect), or elsewhere or off canvas.  *)
Connect(to) ==
    /\ drag # NoId /\ to # drag /\ <<drag, to>> \notin graph.edges
    /\ Update([graph EXCEPT !.edges = @ \cup {<<drag, to>>}])
    /\ drag' = NoId
    /\ UNCHANGED picked

LetGo ==
    /\ drag # NoId
    /\ drag' = NoId
    /\ UNCHANGED <<detail, listed, stored, graph, dirty, picked, saves, edits, lost>>

(* The Delete key: every node with the selected id, and its edges.  An     *)
(* edge may be on the pointer meanwhile.                                   *)
DeleteNode ==
    /\ picked # NoId
    /\ LET left == {i \in DOMAIN graph.nodes : graph.nodes[i] # picked}
           nth(k) == CHOOSE i \in left : Cardinality({j \in left : j <= i}) = k
       IN Update([graph EXCEPT !.nodes = [k \in 1 .. Cardinality(left) |-> graph.nodes[nth(k)]],
                               !.edges = {e \in @ : e[1] # picked /\ e[2] # picked}])
    /\ picked' = NoId
    /\ UNCHANGED drag

-----------------------------------------------------------------------------
(* save: the button is enabled while there is something unsaved and no     *)
(* save of this editor under way.                                          *)
CleanWhenSent(d) == FALSE
CleanWhenStored(d) == d

Save ==
    /\ detail /\ drag = NoId /\ dirty /\ ~Saving
    /\ dirty' = CleanWhenStored(dirty)
    /\ \E slot \in Slots \ {s.slot : s \in saves} :
         saves' = saves \cup {[slot |-> slot, mine |-> TRUE, graph |-> graph, answer |-> "none"]}
    /\ lost' = (saves # {})
    /\ UNCHANGED <<detail, listed, stored, graph, picked, drag, edits>>

(* PUT /fabric/workflows/:slug/graph: refused with the errors, or stored.  *)
(* The answer may not arrive.                                              *)
AcceptsLocally(g) == ValidateGraphLocally(g) = {}
Accepts(g) == ValidateGraph(g) = {}

PutGraph(s) ==
    /\ s.answer = "none"
    /\ \E heard \in BOOLEAN :
         LET answer == IF heard /\ Accepts(s.graph) THEN "stored" ELSE "failed"
         IN saves' = (saves \ {s}) \cup {[s EXCEPT !.answer = answer]}
    /\ stored' = IF Accepts(s.graph) THEN [stored EXCEPT !.graph = s.graph] ELSE stored
    /\ lost' = (detail /\ (lost \/ ~s.mine))
    /\ UNCHANGED <<detail, listed, canvas, edits>>

(* The handler goes on; the one of an editor that was left changes nothing.*)
SaveEnds(s) ==
    /\ s.answer # "none"
    /\ saves' = saves \ {s}
    /\ dirty' = (dirty /\ ~(s.mine /\ s.answer = "stored"))
    /\ UNCHANGED <<detail, listed, stored, graph, picked, drag, edits, lost>>

EditorNext ==
    \/ OpenDetail \/ Back \/ LoadList
    \/ AddNode \/ PatchNode \/ PickNode \/ DeleteNode
    \/ PullEdge \/ LetGo \/ \E to \in Ids(graph) : Connect(to)
    \/ Save \/ \E s \in saves : PutGraph(s) \/ SaveEnds(s)

EditorSpec == EditorInit /\ [][EditorNext]_edVars

-----------------------------------------------------------------------------
(* Whatever is drawn, deleted half-way through a drag or named twice, a    *)
(* graph that is stored can be run to its end: no id twice, no edge to     *)
(* nowhere, and an order of its nodes.  The canvas ensures none of this;   *)
(* PUT refuses what lacks it.  Nothing of the kind is said of the steps an *)
(* emptied graph falls back to: nobody validates those (see WorkflowForm). *)
StoredGraphsRunnable == stored.graph.nodes # <<>> => Runnable(stored.graph)

(* An editor that does not say "unsaved" shows what the gateway would run, *)
(* unless the graph was edited while a save was under way, or something    *)
(* this editor does not see (a save of an editor left before, a list older *)
(* than the last save) got in between.  An emptied canvas is the exception:*)
(* it is stored, and the workflow's steps run again.                       *)
CleanMeansStored ==
    detail /\ ~dirty /\ ~lost /\ graph.nodes # <<>> => WorkflowGraph(stored) = graph
=============================================================================
