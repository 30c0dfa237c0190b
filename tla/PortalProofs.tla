---------------------------- MODULE PortalProofs ----------------------------
(***************************************************************************)
(* Theorems about the components that share no state with the gateway's    *)
(* engine, payments and store: the pages of the portal, the sandbox of     *)
(* published skills, the catalog and its mirrors.  One section each, for   *)
(* any values of its constants.                                            *)
(***************************************************************************)
EXTENDS WorkflowEditor, GraphWalk, CapBoard, ApiPublisher, McpServers, McpForm,
        SkillSandbox, SkillRouter, CatalogMirror, SkillCatalog, FiniteFacts, SequenceTheorems, TLAPS

(* A list of n different ids has n of them at most.                        *)
LEMMA IdsFinite ==
    ASSUME NEW g, g.nodes \in Seq(Ids(g))
    PROVE  /\ Len(g.nodes) \in Nat /\ DOMAIN g.nodes = 1 .. Len(g.nodes)
           /\ IsFiniteSet(Ids(g)) /\ Cardinality(Ids(g)) \in Nat
           /\ Cardinality(Ids(g)) <= Len(g.nodes)
  <1>1. PICK n : n = Len(g.nodes)
    OBVIOUS
  <1>2. n \in Nat /\ DOMAIN g.nodes = 1 .. n
    BY <1>1
  <1>3. PICK K : K = 1 .. n
    OBVIOUS
  <1>4. IsFiniteSet(K) /\ Cardinality(K) = n
    BY <1>2, <1>3, FS_Interval
  <1>5. PICK f : f = [i \in K |-> g.nodes[i]]
    OBVIOUS
  <1>6. f \in Surjection(K, Ids(g))
    BY <1>2, <1>3, <1>5 DEF Surjection, Ids
  <1>7. IsFiniteSet(Ids(g)) /\ Cardinality(Ids(g)) <= n
    BY <1>4, <1>6, FS_Surjection
  <1> QED
    BY <1>1, <1>2, <1>7, FS_CardinalityType

(* What has no cycle can be run.                                           *)
LEMMA AcyclicRunnable ==
    ASSUME NEW g, IsGraph(g), DistinctNodes(g), ~HasCycle(g),
           \A e \in g.edges : {e[1], e[2]} \subseteq Ids(g)
    PROVE  Runnable(g)
  <1>1. PICK I, R : I = Ids(g) /\ R = g.edges
    OBVIOUS
  <1>2. /\ Len(g.nodes) \in Nat /\ IsFiniteSet(I) /\ Cardinality(I) \in Nat
        /\ Cardinality(I) <= Len(g.nodes)
    BY <1>1, IdsFinite DEF IsGraph
  <1>3. \A ring \in (SUBSET I) \ {{}} : \E a \in ring : \A b \in ring : <<a, b>> \notin R
    BY <1>1 DEF HasCycle
  <1>4. PICK wave \in [I -> 1 .. Cardinality(I)] :
          \A a, b \in I : <<a, b>> \in R => wave[a] < wave[b]
    BY <1>2, <1>3, AcyclicOrder
  <1>5. \A e \in g.edges : wave[e[1]] < wave[e[2]]
    BY <1>1, <1>4 DEF IsGraph
  <1>6. wave \in [I -> 1 .. Len(g.nodes)]
    BY <1>2, <1>4
  <1> QED
    BY <1>1, <1>5, <1>6 DEF Runnable

(* What the gateway accepts can be run.                                    *)
LEMMA AcceptedRunnable ==
    ASSUME NEW g, IsGraph(g), ValidateGraph(g) = {}
    PROVE  Runnable(g)
  <1>1. DistinctNodes(g) /\ ~HasCycle(g) /\ \A e \in g.edges : {e[1], e[2]} \subseteq Ids(g)
    BY DEF ValidateGraph
  <1> QED
    BY <1>1, AcyclicRunnable

(* A list of steps stands for a graph.                                     *)
LEMMA ChainIsGraph ==
    ASSUME NEW S, NEW list \in Seq(S)
    PROVE  IsGraph(StepsToGraph(list))
  <1>1. PICK id : id = [i \in DOMAIN list |-> IF list[i] = NoId THEN StepId(i) ELSE list[i]]
    OBVIOUS
  <1>2. PICK g : g = StepsToGraph(list)
    OBVIOUS
  <1>3. g = [nodes |-> id, edges |-> {<<id[i], id[i + 1]>> : i \in 1 .. Len(list) - 1}, config |-> 0]
    BY <1>1, <1>2 DEF StepsToGraph
  <1>4. g = [nodes |-> g.nodes, edges |-> g.edges, config |-> g.config] /\ g.nodes = id
    BY <1>3
  <1>5. id \in Seq({id[i] : i \in DOMAIN id})
    BY <1>1
  <1>6. \A e \in g.edges : e = <<e[1], e[2]>>
    BY <1>3
  <1> QED
    BY <1>2, <1>4, <1>5, <1>6 DEF IsGraph, Ids

(* The editor.  What it shows and saves are graphs, and what is stored may *)
(* be stored.                                                              *)
SaveShape(s) ==
    /\ s = [slot |-> s.slot, mine |-> s.mine, graph |-> s.graph, answer |-> s.answer]
    /\ IsGraph(s.graph)

EditorTypeOK ==
    /\ Saveable(stored) /\ Saveable(listed)
    /\ IsGraph(graph)
    /\ \A s \in saves : SaveShape(s)

(* Only the editor that is shown has a save of its own, one, and until its *)
(* answer is taken note of the editor says "unsaved".  If nothing got in   *)
(* between, what was sent is what is shown, and what was accepted is what  *)
(* is stored.                                                              *)
SavesInOrder ==
    /\ \A s \in saves : s.mine => detail /\ dirty /\ \A t \in saves : t.mine => t = s
    /\ \A s \in saves : s.mine /\ ~lost =>
         s.graph = graph /\ (s.answer = "stored" => stored.graph = s.graph)

EditorInv == EditorTypeOK /\ SavesInOrder /\ CleanMeansStored

(* A graph is one after each edit.                                         *)
LEMMA GraphEdits ==
    ASSUME NEW g, IsGraph(g)
    PROVE  /\ \A id : IsGraph([g EXCEPT !.nodes = Append(@, id)])
           /\ IsGraph([g EXCEPT !.config = 1 - @])
           /\ \A from, to : IsGraph([g EXCEPT !.edges = @ \cup {<<from, to>>}])
  <1>1. \A id : IsGraph([g EXCEPT !.nodes = Append(@, id)])
    <2>1. SUFFICES ASSUME NEW id, NEW h, h = [g EXCEPT !.nodes = Append(@, id)]
                   PROVE  IsGraph(h)
      OBVIOUS
    <2>2. /\ h = [nodes |-> Append(g.nodes, id), edges |-> g.edges, config |-> g.config]
          /\ g.nodes \in Seq(Ids(g))
      BY <2>1 DEF IsGraph
    <2>3. PICK list : list = Append(g.nodes, id)
      OBVIOUS
    <2>4. list \in Seq(Ids(g) \cup {id})
      BY <2>2, <2>3
    <2>5. list \in Seq({list[i] : i \in DOMAIN list})
      BY <2>4
    <2> QED
      BY <2>2, <2>3, <2>5 DEF IsGraph, Ids
  <1>2. IsGraph([g EXCEPT !.config = 1 - @])
    <2>1. PICK h : h = [g EXCEPT !.config = 1 - @]
      OBVIOUS
    <2>2. h = [nodes |-> g.nodes, edges |-> g.edges, config |-> 1 - g.config]
      BY <2>1 DEF IsGraph
    <2> QED
      BY <2>1, <2>2 DEF IsGraph, Ids
  <1>3. \A from, to : IsGraph([g EXCEPT !.edges = @ \cup {<<from, to>>}])
    <2>1. SUFFICES ASSUME NEW from, NEW to, NEW h, h = [g EXCEPT !.edges = @ \cup {<<from, to>>}]
                   PROVE  IsGraph(h)
      OBVIOUS
    <2>2. h = [nodes |-> g.nodes, edges |-> g.edges \cup {<<from, to>>}, config |-> g.config]
      BY <2>1 DEF IsGraph
    <2> QED
      BY <2>2 DEF IsGraph, Ids
  <1> QED
    BY <1>1, <1>2, <1>3

(* Also after nodes and edges were taken out.                              *)
LEMMA GraphCut ==
    ASSUME NEW g, IsGraph(g), NEW n \in Nat, NEW list, list = [k \in 1 .. n |-> list[k]],
           NEW es, es \subseteq g.edges, NEW h, h = [g EXCEPT !.nodes = list, !.edges = es]
    PROVE  IsGraph(h)
  <1>1. h = [nodes |-> list, edges |-> es, config |-> g.config]
    BY DEF IsGraph
  <1>2. list \in Seq({list[i] : i \in DOMAIN list})
    OBVIOUS
  <1>3. h.nodes \in Seq(Ids(h))
    <2>1. h.nodes = list
      BY <1>1
    <2> QED
      BY <1>2, <2>1 DEF Ids
  <1>4. \A e \in h.edges : e = <<e[1], e[2]>>
    BY <1>1 DEF IsGraph
  <1> QED
    BY <1>1, <1>3, <1>4 DEF IsGraph

(* What an editor opens is a graph.                                        *)
LEMMA OpenedIsGraph ==
    ASSUME NEW row, Saveable(row)
    PROVE  IsGraph(WorkflowGraph(row))
  BY ChainIsGraph DEF Saveable, WorkflowGraph

(* An edit.                                                                *)
LEMMA UpdateInv ==
    ASSUME EditorInv, NEW next, IsGraph(next), Update(next)
    PROVE  EditorInv'
  <1>1. EditorTypeOK'
    BY DEF EditorInv, EditorTypeOK, Update
  <1>2. SavesInOrder'
    BY DEF EditorInv, SavesInOrder, Update, Saving
  <1>3. CleanMeansStored'
    BY DEF CleanMeansStored, Update
  <1> QED
    BY <1>1, <1>2, <1>3 DEF EditorInv

(* All edits of the canvas.                                                *)
LEMMA EditInv ==
    ASSUME EditorInv,
           AddNode \/ PatchNode \/ DeleteNode \/ \E to \in Ids(graph) : Connect(to)
    PROVE  EditorInv'
  <1>1. PICK g : g = graph
    OBVIOUS
  <1>2. IsGraph(g)
    BY <1>1 DEF EditorInv, EditorTypeOK
  <1>3. CASE AddNode
    BY <1>1, <1>2, <1>3, GraphEdits, UpdateInv DEF AddNode
  <1>4. CASE PatchNode
    BY <1>1, <1>2, <1>4, GraphEdits, UpdateInv DEF PatchNode
  <1>5. CASE \E to \in Ids(graph) : Connect(to)
    BY <1>1, <1>2, <1>5, GraphEdits, UpdateInv DEF Connect
  <1>6. CASE DeleteNode
    <2> DEFINE left == {i \in DOMAIN graph.nodes : graph.nodes[i] # picked}
               nth(k) == CHOOSE i \in left : Cardinality({j \in left : j <= i}) = k
               list == [k \in 1 .. Cardinality(left) |-> graph.nodes[nth(k)]]
               es == {e \in graph.edges : e[1] # picked /\ e[2] # picked}
    <2>1. Update([graph EXCEPT !.nodes = list, !.edges = es])
      BY <1>6 DEF DeleteNode
    <2>2. Cardinality(left) \in Nat
      <3>1. PICK n : n = Len(g.nodes)
        OBVIOUS
      <3>2. n \in Nat /\ left \subseteq 1 .. n
        BY <1>1, <1>2, <3>1 DEF IsGraph
      <3>3. IsFiniteSet(1 .. n)
        BY <3>2, FS_Interval
      <3> HIDE DEF left
      <3> QED
        BY <3>2, <3>3, FS_Subset, FS_CardinalityType
    <2>3. list = [k \in 1 .. Cardinality(left) |-> list[k]] /\ es \subseteq graph.edges
      OBVIOUS
    <2> HIDE DEF left, list, es
    <2>4. PICK n, h : n = Cardinality(left) /\ h = [graph EXCEPT !.nodes = list, !.edges = es]
      OBVIOUS
    <2>5. n \in Nat /\ list = [k \in 1 .. n |-> list[k]] /\ es \subseteq graph.edges
          /\ h = [graph EXCEPT !.nodes = list, !.edges = es] /\ IsGraph(graph)
      BY <1>1, <1>2, <2>2, <2>3, <2>4
    <2>6. IsGraph(h)
      BY ONLY <2>5, GraphCut
    <2> QED
      BY <2>1, <2>4, <2>6, UpdateInv
  <1> QED
    BY <1>3, <1>4, <1>5, <1>6

(* Opening and leaving the editor, the list, the pointer.                  *)
LEMMA ScreenInv ==
    ASSUME EditorInv,
           OpenDetail \/ Back \/ LoadList \/ PickNode \/ PullEdge \/ LetGo \/ UNCHANGED edVars
    PROVE  EditorInv'
  <1>1. CASE OpenDetail
    <2>1. IsGraph(graph')
      BY <1>1, OpenedIsGraph DEF OpenDetail, GraphFromWorkflow, EditorInv, EditorTypeOK
    <2>2. EditorTypeOK'
      BY <1>1, <2>1 DEF OpenDetail, EditorInv, EditorTypeOK
    <2>3. SavesInOrder'
      BY <1>1 DEF OpenDetail, EditorInv, SavesInOrder
    <2>4. CleanMeansStored'
      BY <1>1 DEF OpenDetail, GraphFromWorkflow, CleanMeansStored
    <2> QED
      BY <2>2, <2>3, <2>4 DEF EditorInv
  <1>2. CASE Back
    <2>1. IsGraph(graph')
      <3>1. graph' = [nodes |-> <<>>, edges |-> {}, config |-> 0]
        BY <1>2 DEF Back, EmptyGraph
      <3> QED
        BY <3>1 DEF IsGraph, Ids
    <2>2. \A t \in saves' : \E s \in saves : t = [s EXCEPT !.mine = FALSE]
      BY <1>2 DEF Back
    <2>3. ASSUME NEW t \in saves'
          PROVE  SaveShape(t) /\ ~t.mine
      <3>1. PICK s \in saves : t = [s EXCEPT !.mine = FALSE]
        BY <2>2
      <3>2. SaveShape(s)
        BY DEF EditorInv, EditorTypeOK
      <3>3. t = [slot |-> s.slot, mine |-> FALSE, graph |-> s.graph, answer |-> s.answer]
        BY <3>1, <3>2 DEF SaveShape
      <3> QED
        BY <3>2, <3>3 DEF SaveShape
    <2>4. EditorTypeOK'
      BY <1>2, <2>1, <2>3 DEF Back, EditorInv, EditorTypeOK
    <2>5. SavesInOrder'
      BY <2>3 DEF SavesInOrder
    <2>6. CleanMeansStored'
      BY <1>2 DEF Back, CleanMeansStored
    <2> QED
      BY <2>4, <2>5, <2>6 DEF EditorInv
  <1>3. CASE LoadList
    BY <1>3 DEF LoadList, canvas, EditorInv, EditorTypeOK, SavesInOrder, CleanMeansStored
  <1>4. CASE PickNode \/ PullEdge \/ LetGo \/ UNCHANGED edVars
    BY <1>4 DEF PickNode, PullEdge, LetGo, edVars, canvas, EditorInv, EditorTypeOK, SavesInOrder,
                CleanMeansStored
  <1> QED
    BY <1>1, <1>2, <1>3, <1>4

(* The request of a save.                                                  *)
LEMMA SaveInv ==
    ASSUME EditorInv, Save
    PROVE  EditorInv'
  <1>1. PICK slot, t :
          /\ t = [slot |-> slot, mine |-> TRUE, graph |-> graph, answer |-> "none"]
          /\ saves' = saves \cup {t}
    BY DEF Save
  <1>2. SaveShape(t) /\ t.mine /\ t.graph = graph /\ t.answer = "none"
    BY <1>1 DEF SaveShape, EditorInv, EditorTypeOK
  <1>3. /\ detail /\ dirty /\ dirty' = dirty /\ (lost' <=> saves # {})
        /\ \A s \in saves : ~s.mine
        /\ UNCHANGED <<detail, listed, stored, graph>>
    BY DEF Save, CleanWhenStored, Saving
  <1>4. EditorTypeOK'
    BY <1>1, <1>2, <1>3 DEF EditorInv, EditorTypeOK
  <1>5. SavesInOrder'
    BY <1>1, <1>2, <1>3 DEF SavesInOrder
  <1>6. CleanMeansStored'
    BY <1>3 DEF CleanMeansStored
  <1> QED
    BY <1>4, <1>5, <1>6 DEF EditorInv

(* The gateway's answer to it.                                             *)
LEMMA PutGraphInv ==
    ASSUME EditorInv, NEW s \in saves, PutGraph(s)
    PROVE  EditorInv'
  <1>1. PICK answer, t :
          /\ t = [s EXCEPT !.answer = answer]
          /\ saves' = (saves \ {s}) \cup {t}
          /\ answer = "stored" => Accepts(s.graph)
          /\ answer \in {"stored", "failed"}
    BY DEF PutGraph
  <1>2. SaveShape(s) /\ Saveable(stored) /\ Saveable(listed) /\ IsGraph(graph)
    BY DEF EditorInv, EditorTypeOK
  <1>3. t = [slot |-> s.slot, mine |-> s.mine, graph |-> s.graph, answer |-> answer]
    BY <1>1, <1>2 DEF SaveShape
  <1>4. SaveShape(t) /\ t.graph = s.graph /\ t.answer = answer /\ (t.mine <=> s.mine)
    BY <1>2, <1>3 DEF SaveShape
  <1>5. /\ stored' = IF Accepts(s.graph) THEN [stored EXCEPT !.graph = s.graph] ELSE stored
        /\ lost' <=> detail /\ (lost \/ ~s.mine)
        /\ UNCHANGED <<detail, listed, graph, dirty>>
    BY DEF PutGraph, canvas
  <1>6. CASE Accepts(s.graph)
    <2>1. stored' = [steps |-> stored.steps, graph |-> s.graph]
      BY <1>2, <1>5, <1>6 DEF Saveable
    <2>2. Saveable(stored') /\ stored'.graph = s.graph
      BY <1>2, <1>6, <2>1 DEF Saveable, Accepts, SaveShape
    <2>3. EditorTypeOK'
      BY <1>1, <1>2, <1>4, <1>5, <2>2 DEF EditorInv, EditorTypeOK
    <2>4. SavesInOrder'
      BY <1>1, <1>4, <1>5, <2>2 DEF EditorInv, SavesInOrder
    <2>5. CleanMeansStored'
      BY <1>5 DEF EditorInv, SavesInOrder, CleanMeansStored
    <2> QED
      BY <2>3, <2>4, <2>5 DEF EditorInv
  <1>7. CASE ~Accepts(s.graph)
    <2>1. stored' = stored
      BY <1>5, <1>7
    <2>2. EditorTypeOK'
      BY <1>1, <1>2, <1>4, <1>5, <2>1 DEF EditorInv, EditorTypeOK
    <2>3. SavesInOrder'
      BY <1>1, <1>4, <1>5, <1>7, <2>1 DEF EditorInv, SavesInOrder
    <2>4. CleanMeansStored'
      BY <1>5, <2>1 DEF EditorInv, SavesInOrder, CleanMeansStored
    <2> QED
      BY <2>2, <2>3, <2>4 DEF EditorInv
  <1> QED
    BY <1>6, <1>7

(* The end of its handler.                                                 *)
LEMMA SaveEndsInv ==
    ASSUME EditorInv, NEW s \in saves, SaveEnds(s)
    PROVE  EditorInv'
  <1>1. /\ saves' = saves \ {s}
        /\ dirty' <=> dirty /\ ~(s.mine /\ s.answer = "stored")
        /\ UNCHANGED <<detail, listed, stored, graph, lost>>
    BY DEF SaveEnds
  <1>2. EditorTypeOK'
    BY <1>1 DEF EditorInv, EditorTypeOK
  <1>3. SavesInOrder'
    BY <1>1 DEF EditorInv, SavesInOrder
  <1>4. CleanMeansStored'
    BY <1>1 DEF EditorInv, SavesInOrder, CleanMeansStored, WorkflowGraph
  <1> QED
    BY <1>2, <1>3, <1>4 DEF EditorInv

(* Every step of the editor and the gateway.                               *)
LEMMA EditorInvHolds == EditorSpec => []EditorInv
  <1>1. EditorInit => EditorInv
    <2> SUFFICES ASSUME EditorInit PROVE EditorInv
      OBVIOUS
    <2>1. IsGraph(EmptyGraph)
      BY DEF IsGraph, Ids, EmptyGraph
    <2>2. EditorTypeOK
      BY <2>1, EditorAssumption DEF EditorInit, EditorTypeOK
    <2> QED
      BY <2>2 DEF EditorInit, EditorInv, SavesInOrder, CleanMeansStored
  <1>2. EditorInv /\ [EditorNext]_edVars => EditorInv'
    BY EditInv, ScreenInv, SaveInv, PutGraphInv, SaveEndsInv DEF EditorNext
  <1> QED
    BY <1>1, <1>2, PTL DEF EditorSpec

(* Whatever is drawn and saved by whichever editor, and whatever steps lie *)
(* beside it: a stored graph has distinct nodes, edges between them, and   *)
(* an order.                                                               *)
THEOREM StoredGraphsRunnableHolds == EditorSpec => []StoredGraphsRunnable
  <1>1. EditorInv => StoredGraphsRunnable
    BY AcceptedRunnable DEF EditorInv, EditorTypeOK, Saveable, StoredGraphsRunnable
  <1> QED
    BY <1>1, EditorInvHolds, PTL

(* An editor that says nothing is unsaved shows what would be run, for     *)
(* every schedule of edits, saves, answers and other editors' saves.       *)
THEOREM CleanMeansStoredHolds == EditorSpec => []CleanMeansStored
  <1>1. EditorInv => CleanMeansStored
    BY DEF EditorInv
  <1> QED
    BY <1>1, EditorInvHolds, PTL

-----------------------------------------------------------------------------
(* GraphWalk.  The calls under way are frames on a stack.                  *)
Mentioned(g) == Ids(g) \cup {e[1] : e \in g.edges} \cup {e[2] : e \in g.edges}
Frame(g) == [node : Mentioned(g), left : SUBSET Mentioned(g), deepest : Nat]

TakenFrom(s, m) == [s EXCEPT ![Len(s)].left = @ \ {m}]

LessOne(s, t, m) ==
    /\ Len(s) \in Nat \ {0} /\ DOMAIN s = 1 .. Len(s)
    /\ Len(t) = Len(s) /\ DOMAIN t = 1 .. Len(s)
    /\ \A i \in 1 .. Len(s) :
         /\ t[i].node = s[i].node /\ t[i].deepest = s[i].deepest
         /\ t[i].left = IF i = Len(s) THEN s[i].left \ {m} ELSE s[i].left

(* Pushing, popping, and the innermost loop taking one of its neighbours.  *)
LEMMA PushFacts ==
    ASSUME NEW F, NEW s \in Seq(F), NEW f \in F
    PROVE  /\ Append(s, f) \in Seq(F) /\ Len(Append(s, f)) = Len(s) + 1
           /\ DOMAIN Append(s, f) = 1 .. Len(s) + 1
           /\ \A i \in 1 .. Len(s) : Append(s, f)[i] = s[i]
           /\ Append(s, f)[Len(s) + 1] = f
  OBVIOUS

LEMMA PopFacts ==
    ASSUME NEW F, NEW s \in Seq(F), s # <<>>, NEW t, t = SubSeq(s, 1, Len(s) - 1)
    PROVE  /\ Len(s) \in Nat \ {0} /\ DOMAIN s = 1 .. Len(s)
           /\ t \in Seq(F) /\ Len(t) = Len(s) - 1 /\ DOMAIN t = 1 .. Len(s) - 1
           /\ \A i \in 1 .. Len(s) - 1 : t[i] = s[i]
  <1>1. Len(s) \in Nat \ {0} /\ DOMAIN s = 1 .. Len(s)
    OBVIOUS
  <1>2. \A i \in 1 .. Len(s) - 1 : s[i] \in F
    BY <1>1
  <1>3. SubSeq(s, 1, Len(s) - 1) \in Seq(F)
    BY <1>1, <1>2, SubSeqProperties
  <1> QED
    BY <1>1, <1>3

LEMMA TakeFacts ==
    ASSUME NEW g, NEW s \in Seq(Frame(g)), s # <<>>, NEW m,
           NEW t, t = TakenFrom(s, m)
    PROVE  t \in Seq(Frame(g)) /\ LessOne(s, t, m)
  <1>1. Len(s) \in Nat \ {0} /\ DOMAIN s = 1 .. Len(s)
    OBVIOUS
  <1>2. PICK k, F, f : k = Len(s) /\ F = Frame(g) /\ f = s[k]
    OBVIOUS
  <1>3. f \in F /\ f = [node |-> f.node, left |-> f.left, deepest |-> f.deepest]
    <2>1. s[Len(s)] \in Frame(g)
      BY <1>1, ElementOfSeq
    <2> QED
      BY <1>2, <2>1 DEF Frame
  <1>4. PICK h : h = [f EXCEPT !.left = @ \ {m}]
    OBVIOUS
  <1>5. h \in F /\ h.node = f.node /\ h.deepest = f.deepest /\ h.left = f.left \ {m}
    BY <1>2, <1>3, <1>4 DEF Frame
  <1>6. [s EXCEPT ![k].left = @ \ {m}] = [s EXCEPT ![k] = h]
    BY <1>2, <1>4
  <1>7. /\ [s EXCEPT ![k] = h] \in Seq(F) /\ Len([s EXCEPT ![k] = h]) = k
        /\ \A j \in 1 .. k : [s EXCEPT ![k] = h][j] = IF j = k THEN h ELSE s[j]
    BY <1>1, <1>2, <1>5, ExceptSeq
  <1>8. DOMAIN [s EXCEPT ![k] = h] = 1 .. k
    BY <1>1, <1>2
  <1> QED
    BY <1>1, <1>2, <1>5, <1>6, <1>7, <1>8 DEF TakenFrom, LessOne

(* findCycle.  The nodes of the stack are grey, and each leads to the next.*)
Colours == {"white", "grey", "black"}

Trail(g, s, c) ==
    /\ s \in Seq(Frame(g))
    /\ c \in [Ids(g) -> Colours]
    /\ \A i \in DOMAIN s :
         /\ s[i].node \in Ids(g) /\ c[s[i].node] = "grey"
         /\ s[i].left \subseteq Successors(g, s[i].node)
         /\ i + 1 \in DOMAIN s => s[i + 1].node \in Successors(g, s[i].node)
    /\ \A i, j \in DOMAIN s : s[i].node = s[j].node => i = j

(* No other node is grey, black ones lead to black ones only, and what the *)
(* loop of a call has taken is black, unless it is being called.  So there *)
(* is no ring of black nodes: one of them was the first to turn black.     *)
NoRing(g, B) ==
    \A ring \in (SUBSET B) \ {{}} : \E n \in ring : \A m \in ring : <<n, m>> \notin g.edges

Blacks(g, c) == {n \in Ids(g) : c[n] = "black"}

Explored(g, s, c) ==
    /\ \A n \in Ids(g) : c[n] = "grey" => \E i \in DOMAIN s : s[i].node = n
    /\ \A n \in Blacks(g, c) : Successors(g, n) \cap Ids(g) \subseteq Blacks(g, c)
    /\ \A i \in DOMAIN s : \A m \in (Successors(g, s[i].node) \cap Ids(g)) \ s[i].left :
         m \in Blacks(g, c) \/ (i + 1 \in DOMAIN s /\ m = s[i + 1].node)
    /\ NoRing(g, Blacks(g, c))

LEMMA EdgesOf ==
    ASSUME NEW g, IsGraph(g)
    PROVE  /\ \A n, m : m \in Successors(g, n) <=> <<n, m>> \in g.edges
           /\ \A n, m : m \in Parents(g, n) <=> n \in Ids(g) /\ <<m, n>> \in g.edges
           /\ \A n : Successors(g, n) \subseteq Mentioned(g)
           /\ \A n : Parents(g, n) \subseteq Mentioned(g)
  BY DEF IsGraph, Successors, Parents, Mentioned

LEMMA NoRingIsAcyclic == ASSUME NEW g PROVE NoRing(g, Ids(g)) <=> ~HasCycle(g)
  BY DEF NoRing, HasCycle

(* A neighbour is passed by.                                               *)
LEMMA TakeKeeps ==
    ASSUME NEW g, IsGraph(g), NEW s, NEW c, Trail(g, s, c), s # <<>>, NEW m,
           m \in Ids(g) => c[m] = "black",
           NEW t, t = TakenFrom(s, m)
    PROVE  Trail(g, t, c) /\ (Explored(g, s, c) => Explored(g, t, c))
  <1>1. PICK k : k = Len(s)
    OBVIOUS
  <1>2. /\ t \in Seq(Frame(g)) /\ DOMAIN t = 1 .. k
        /\ \A i \in 1 .. k : /\ t[i].node = s[i].node
                             /\ t[i].left = IF i = k THEN s[i].left \ {m} ELSE s[i].left
    <2>1. s \in Seq(Frame(g))
      BY DEF Trail
    <2>2. t \in Seq(Frame(g)) /\ LessOne(s, t, m)
      BY <2>1, TakeFacts
    <2> QED
      BY <1>1, <2>2 DEF LessOne
  <1>3. k \in Nat /\ DOMAIN s = 1 .. k
    BY <1>1 DEF Trail
  <1>4. Trail(g, t, c)
    BY <1>2, <1>3 DEF Trail
  <1>5. ASSUME Explored(g, s, c) PROVE Explored(g, t, c)
    <2>1. \A n \in Ids(g) : c[n] = "grey" => \E i \in 1 .. k : t[i].node = n
      BY <1>2, <1>3, <1>5 DEF Explored
    <2>2. \A i \in 1 .. k : \A n \in (Successors(g, t[i].node) \cap Ids(g)) \ t[i].left :
            n \in Blacks(g, c) \/ (i + 1 \in 1 .. k /\ n = t[i + 1].node)
      <3> SUFFICES ASSUME NEW i \in 1 .. k,
                          NEW n \in (Successors(g, t[i].node) \cap Ids(g)) \ t[i].left
                   PROVE  n \in Blacks(g, c) \/ (i + 1 \in 1 .. k /\ n = t[i + 1].node)
        OBVIOUS
      <3>1. CASE n = m
        BY <3>1 DEF Blacks
      <3>2. CASE n # m
        <4>1. n \in (Successors(g, s[i].node) \cap Ids(g)) \ s[i].left
          BY <1>2, <3>2
        <4>2. n \in Blacks(g, c) \/ (i + 1 \in 1 .. k /\ n = s[i + 1].node)
          BY <1>3, <1>5, <4>1 DEF Explored
        <4> QED
          BY <1>2, <4>2
      <3> QED
        BY <3>1, <3>2
    <2> QED
      BY <1>2, <1>5, <2>1, <2>2 DEF Explored
  <1> QED
    BY <1>1, <1>4, <1>5

(* A white node is called, from the list or from the loop of a call.       *)
Calling(g, s, c, m, t, u, d) ==
    /\ \/ s = <<>> /\ t = s
       \/ s # <<>> /\ m \in s[Len(s)].left /\ t = TakenFrom(s, m)
    /\ u = Append(t, CallOn(m, Successors(g, m)))
    /\ d = [c EXCEPT ![m] = "grey"]

LEMMA CallKeeps ==
    ASSUME NEW g, IsGraph(g), NEW s, NEW c, Trail(g, s, c), NEW m \in Ids(g), c[m] = "white",
           NEW t, NEW u, NEW d, Calling(g, s, c, m, t, u, d)
    PROVE  Trail(g, u, d) /\ (Explored(g, s, c) => Explored(g, u, d))
  <1>1. PICK k, f : k = Len(s) /\ f = CallOn(m, Successors(g, m))
    OBVIOUS
  <1>13. /\ \/ s = <<>> /\ t = s
            \/ s # <<>> /\ m \in s[k].left /\ t = TakenFrom(s, m)
         /\ u = Append(t, f)
    BY <1>1 DEF Calling
  <1>14. d = [c EXCEPT ![m] = "grey"]
    BY DEF Calling
  <1>2. k \in Nat /\ DOMAIN s = 1 .. k /\ s \in Seq(Frame(g))
    BY <1>1 DEF Trail
  <1>3. /\ t \in Seq(Frame(g)) /\ Len(t) = k
        /\ \A i \in 1 .. k : /\ t[i].node = s[i].node
                             /\ t[i].left = IF i = k THEN s[i].left \ {m} ELSE s[i].left
    <2>1. CASE s = <<>> /\ t = s
      BY <1>1, <1>2, <2>1
    <2>2. CASE s # <<>> /\ t = TakenFrom(s, m)
      <3>1. t \in Seq(Frame(g)) /\ LessOne(s, t, m)
        BY <1>2, <2>2, TakeFacts
      <3> QED
        BY <1>1, <3>1 DEF LessOne
    <2> QED
      BY <1>13, <2>1, <2>2
  <1>4. /\ f \in Frame(g) /\ f.node = m /\ f.left = Successors(g, m)
    BY <1>1, EdgesOf DEF Frame, CallOn, Mentioned
  <1>5. /\ u \in Seq(Frame(g)) /\ DOMAIN u = 1 .. k + 1 /\ u[k + 1] = f
        /\ \A i \in 1 .. k : u[i] = t[i]
    BY <1>3, <1>4, <1>13, PushFacts
  <1>6. \A i \in 1 .. k : /\ s[i].node \in Ids(g) /\ c[s[i].node] = "grey"
                          /\ s[i].left \subseteq Successors(g, s[i].node)
                          /\ i + 1 \in 1 .. k => s[i + 1].node \in Successors(g, s[i].node)
    BY <1>2 DEF Trail
  <1>7. /\ d \in [Ids(g) -> Colours] /\ d[m] = "grey"
        /\ \A n \in Ids(g) \ {m} : d[n] = c[n]
    BY <1>14 DEF Trail, Colours
  <1>8. \A i \in 1 .. k : s[i].node # m /\ u[i].node = s[i].node /\ d[s[i].node] = "grey"
    BY <1>3, <1>5, <1>6, <1>7
  <1>9. k > 0 => m \in Successors(g, s[k].node)
    BY <1>2, <1>6, <1>13
  <1>12. /\ \A i \in 1 .. k + 1 : i = k + 1 \/ i \in 1 .. k
         /\ \A i \in 1 .. k : i + 1 \in 1 .. k + 1
         /\ \A i \in 1 .. k + 1 : i + 1 \in 1 .. k + 1 => i \in 1 .. k
         /\ k + 1 \in 1 .. k + 1
    BY <1>2
  <1>10. Trail(g, u, d)
    <2>1. \A i \in 1 .. k + 1 :
            /\ u[i].node \in Ids(g) /\ d[u[i].node] = "grey"
            /\ u[i].left \subseteq Successors(g, u[i].node)
      <3> SUFFICES ASSUME NEW i \in 1 .. k + 1
                   PROVE  /\ u[i].node \in Ids(g) /\ d[u[i].node] = "grey"
                          /\ u[i].left \subseteq Successors(g, u[i].node)
        OBVIOUS
      <3>1. CASE i = k + 1
        BY <1>4, <1>5, <1>7, <3>1
      <3>2. CASE i \in 1 .. k
        <4>1. u[i].left \subseteq s[i].left
          BY <1>3, <1>5, <3>2
        <4> QED
          BY <1>6, <1>8, <3>2, <4>1
      <3> QED
        BY <1>12, <3>1, <3>2
    <2>2. \A i \in 1 .. k + 1 : i + 1 \in 1 .. k + 1 =>
            u[i + 1].node \in Successors(g, u[i].node)
      BY <1>2, <1>4, <1>5, <1>6, <1>8, <1>9
    <2>3. \A i, j \in 1 .. k : s[i].node = s[j].node => i = j
      BY <1>2 DEF Trail
    <2>4. \A i, j \in 1 .. k + 1 : u[i].node = u[j].node => i = j
      BY <1>2, <1>4, <1>5, <1>8, <2>3
    <2> QED
      BY <1>5, <1>7, <2>1, <2>2, <2>4 DEF Trail
  <1>11. ASSUME Explored(g, s, c) PROVE Explored(g, u, d)
    <2>1. Blacks(g, d) = Blacks(g, c)
      BY <1>7 DEF Blacks
    <2>2. \A n \in Ids(g) : d[n] = "grey" => \E i \in 1 .. k + 1 : u[i].node = n
      <3>1. \A i \in 1 .. k : i \in 1 .. k + 1
        BY <1>2
      <3>2. k + 1 \in 1 .. k + 1
        BY <1>2
      <3> QED
        BY <1>2, <1>4, <1>5, <1>7, <1>8, <1>11, <3>1, <3>2 DEF Explored
    <2>3. ASSUME NEW i \in 1 .. k + 1,
                 NEW n \in (Successors(g, u[i].node) \cap Ids(g)) \ u[i].left
          PROVE  n \in Blacks(g, c) \/ (i + 1 \in 1 .. k + 1 /\ n = u[i + 1].node)
      <3>1. CASE i = k + 1
        BY <1>4, <1>5, <2>3, <3>1
      <3>2. CASE i \in 1 .. k /\ n \in s[i].left
        <4>1. i = k /\ n = m
          BY <1>3, <1>5, <2>3, <3>2
        <4> QED
          BY <1>2, <1>4, <1>5, <4>1
      <3>3. CASE i \in 1 .. k /\ n \notin s[i].left
        <4>1. n \in Blacks(g, c) \/ (i + 1 \in 1 .. k /\ n = s[i + 1].node)
          BY <1>2, <1>8, <1>11, <2>3, <3>3 DEF Explored
        <4>2. ASSUME i + 1 \in 1 .. k PROVE u[i + 1].node = s[i + 1].node
          BY <1>8, <4>2
        <4> QED
          BY <1>12, <3>3, <4>1, <4>2
      <3> QED
        BY <1>12, <3>1, <3>2, <3>3
    <2> QED
      BY <1>5, <1>11, <2>1, <2>2, <2>3 DEF Explored
  <1> QED
    BY <1>1, <1>10, <1>11

(* A call whose loop is done turns its node black.                         *)
Returning(s, c, t, d) ==
    /\ s # <<>> /\ s[Len(s)].left = {}
    /\ t = SubSeq(s, 1, Len(s) - 1)
    /\ d = [c EXCEPT ![s[Len(s)].node] = "black"]

LEMMA ReturnKeeps ==
    ASSUME NEW g, IsGraph(g), NEW s, NEW c, Trail(g, s, c), NEW t, NEW d, Returning(s, c, t, d)
    PROVE  Trail(g, t, d) /\ (Explored(g, s, c) => Explored(g, t, d))
  <1>1. PICK k, n : k = Len(s) /\ n = s[k].node
    OBVIOUS
  <1>8. /\ s # <<>> /\ s[k].left = {} /\ d = [c EXCEPT ![n] = "black"]
        /\ t = SubSeq(s, 1, Len(s) - 1)
    BY <1>1 DEF Returning
  <1>2. /\ k \in Nat \ {0} /\ DOMAIN s = 1 .. k
        /\ t \in Seq(Frame(g)) /\ DOMAIN t = 1 .. k - 1
        /\ \A i \in 1 .. k - 1 : t[i] = s[i]
    BY <1>1, <1>8, PopFacts DEF Trail
  <1>3. k \in 1 .. k /\ \A i \in 1 .. k - 1 : i \in 1 .. k /\ i # k
    BY <1>2
  <1>4. n \in Ids(g) /\ c[n] = "grey" /\ \A i \in 1 .. k - 1 : s[i].node # n
    BY <1>1, <1>2, <1>3 DEF Trail
  <1>5. /\ d \in [Ids(g) -> Colours] /\ d[n] = "black"
        /\ \A m \in Ids(g) \ {n} : d[m] = c[m]
    BY <1>4, <1>8 DEF Trail, Colours
  <1>6. Trail(g, t, d)
    <2>1. \A i \in 1 .. k - 1 : i + 1 \in 1 .. k - 1 => i + 1 \in 1 .. k
      BY <1>2
    <2>2. \A i \in 1 .. k - 1 :
            /\ s[i].node \in Ids(g) /\ d[s[i].node] = "grey"
            /\ s[i].left \subseteq Successors(g, s[i].node)
            /\ i + 1 \in 1 .. k - 1 => s[i + 1].node \in Successors(g, s[i].node)
      BY <1>2, <1>3, <1>4, <1>5, <2>1 DEF Trail
    <2>3. \A i, j \in 1 .. k - 1 : s[i].node = s[j].node => i = j
      BY <1>2, <1>3 DEF Trail
    <2> QED
      BY <1>2, <1>5, <2>1, <2>2, <2>3 DEF Trail
  <1>7. ASSUME Explored(g, s, c) PROVE Explored(g, t, d)
    <2>1. Blacks(g, d) = Blacks(g, c) \cup {n} /\ n \notin Blacks(g, c)
      BY <1>4, <1>5 DEF Blacks
    <2>2. \A m \in Ids(g) : d[m] = "grey" => \E i \in 1 .. k - 1 : t[i].node = m
      <3> SUFFICES ASSUME NEW m \in Ids(g), d[m] = "grey"
                   PROVE  \E i \in 1 .. k - 1 : t[i].node = m
        OBVIOUS
      <3>1. PICK i \in 1 .. k : s[i].node = m
        BY <1>2, <1>5, <1>7 DEF Explored
      <3>2. i # k
        BY <1>1, <1>5, <3>1
      <3>3. i \in 1 .. k - 1
        BY <1>2, <3>2
      <3> QED
        BY <1>2, <3>1, <3>3
    <2>3. Successors(g, n) \cap Ids(g) \subseteq Blacks(g, c)
      <3>1. k + 1 \notin 1 .. k
        BY <1>2
      <3> QED
        BY <1>1, <1>2, <1>3, <1>7, <1>8, <3>1 DEF Explored
    <2>4. \A i \in 1 .. k - 1 : \A m \in (Successors(g, t[i].node) \cap Ids(g)) \ t[i].left :
            m \in Blacks(g, d) \/ (i + 1 \in 1 .. k - 1 /\ m = t[i + 1].node)
      <3> SUFFICES ASSUME NEW i \in 1 .. k - 1,
                          NEW m \in (Successors(g, t[i].node) \cap Ids(g)) \ t[i].left
                   PROVE  m \in Blacks(g, d) \/ (i + 1 \in 1 .. k - 1 /\ m = t[i + 1].node)
        OBVIOUS
      <3>1. m \in Blacks(g, c) \/ (i + 1 \in 1 .. k /\ m = s[i + 1].node)
        BY <1>2, <1>3, <1>7 DEF Explored
      <3>2. i + 1 \in 1 .. k => i + 1 = k \/ i + 1 \in 1 .. k - 1
        BY <1>2
      <3> QED
        BY <1>1, <1>2, <2>1, <3>1, <3>2
    <2>5. NoRing(g, Blacks(g, d))
      <3> SUFFICES ASSUME NEW ring \in (SUBSET Blacks(g, d)) \ {{}}
                   PROVE  \E a \in ring : \A b \in ring : <<a, b>> \notin g.edges
        BY DEF NoRing
      <3>1. CASE ring \subseteq {n}
        <4>1. ring = {n}
          BY <3>1
        <4> QED
          BY <1>4, <2>1, <2>3, <4>1, EdgesOf
      <3>2. CASE ~(ring \subseteq {n})
        <4>1. ring \ {n} \in (SUBSET Blacks(g, c)) \ {{}}
          BY <2>1, <3>2
        <4>2. PICK a \in ring \ {n} : \A b \in ring \ {n} : <<a, b>> \notin g.edges
          BY <1>7, <4>1 DEF Explored, NoRing
        <4>3. <<a, n>> \notin g.edges
          BY <1>4, <1>7, <2>1, <4>1, <4>2, EdgesOf DEF Explored
        <4> QED
          BY <4>2, <4>3
      <3> QED
        BY <3>1, <3>2
    <2>6. \A m \in Blacks(g, d) : Successors(g, m) \cap Ids(g) \subseteq Blacks(g, d)
      BY <1>7, <2>1, <2>3 DEF Explored
    <2> QED
      BY <1>2, <2>2, <2>4, <2>5, <2>6 DEF Explored
  <1> QED
    BY <1>1, <1>6, <1>7

(* A call that ends early leaves its node grey.                            *)
LEMMA CutKeeps ==
    ASSUME NEW g, NEW s, NEW c, Trail(g, s, c), s # <<>>, NEW t, t = SubSeq(s, 1, Len(s) - 1)
    PROVE  Trail(g, t, c)
  <1>1. PICK k : k = Len(s)
    OBVIOUS
  <1>2. /\ k \in Nat \ {0} /\ DOMAIN s = 1 .. k
        /\ t \in Seq(Frame(g)) /\ DOMAIN t = 1 .. k - 1
        /\ \A i \in 1 .. k - 1 : t[i] = s[i]
    BY <1>1, PopFacts DEF Trail
  <1>3. \A i \in 1 .. k - 1 : i \in 1 .. k /\ (i + 1 \in 1 .. k - 1 => i + 1 \in 1 .. k)
    BY <1>2
  <1> QED
    BY <1>2, <1>3 DEF Trail

(* A grey neighbour is a call under way, so it is on a cycle.              *)
LEMMA HitIsOnCycle ==
    ASSUME NEW g, IsGraph(g), NEW s, NEW c, Trail(g, s, c), Explored(g, s, c), s # <<>>,
           NEW m \in s[Len(s)].left, m \in Ids(g), c[m] = "grey"
    PROVE  HasCycle(g) /\ OnCycle(g, m)
  <1>1. PICK k : k = Len(s)
    OBVIOUS
  <1>2. k \in Nat \ {0} /\ DOMAIN s = 1 .. k /\ k \in 1 .. k
    BY <1>1 DEF Trail
  <1>3. PICK i \in 1 .. k : s[i].node = m
    BY <1>2 DEF Explored
  <1>4. \A j \in 1 .. k : /\ s[j].node \in Ids(g)
                          /\ j + 1 \in 1 .. k => s[j + 1].node \in Successors(g, s[j].node)
    BY <1>2 DEF Trail
  <1>5. m \in Successors(g, s[k].node)
    BY <1>1, <1>2 DEF Trail
  <1>6. \A j \in i .. k : /\ j \in 1 .. k /\ j \in Nat /\ j <= k
                          /\ j = k \/ (j + 1 \in i .. k /\ j + 1 \in 1 .. k)
    BY <1>2, <1>3
  <1>7. i \in i .. k
    BY <1>2, <1>3
  <1>8. HasCycle(g)
    <2>1. PICK ring : ring = {s[j].node : j \in i .. k}
      OBVIOUS
    <2>2. ring \in (SUBSET Ids(g)) \ {{}}
      <3>1. \A j \in i .. k : s[j].node \in Ids(g)
        BY <1>4, <1>6
      <3>2. s[i].node \in ring /\ ring \subseteq Ids(g)
        BY <1>7, <2>1, <3>1
      <3> QED
        BY <3>2
    <2>3. ASSUME NEW n \in ring PROVE \E p \in ring : <<n, p>> \in g.edges
      <3>1. PICK j \in i .. k : n = s[j].node
        BY <2>1, <2>3
      <3>2. CASE j = k
        BY <1>3, <1>5, <1>7, <2>1, <3>1, <3>2, EdgesOf
      <3>3. CASE j # k
        BY <1>4, <1>6, <2>1, <3>1, <3>3, EdgesOf
      <3> QED
        BY <3>2, <3>3
    <2> QED
      BY <2>2, <2>3 DEF HasCycle
  <1>9. OnCycle(g, m)
    <2> SUFFICES ASSUME NEW S \in SUBSET Ids(g),
                        \A n \in S \cup {m} : Successors(g, n) \cap Ids(g) \subseteq S
                 PROVE  m \in S
      BY DEF OnCycle
    <2>1. PICK X : X = {j \in i .. k : s[j].node \in S \cup {m}}
      OBVIOUS
    <2>2. X \in SUBSET Nat /\ X # {} /\ \A j \in X : j <= k
      BY <1>3, <1>6, <1>7, <2>1
    <2>3. PICK j \in X : \A l \in X : l <= j
      BY <1>2, <2>2, GreatestNumber
    <2>4. CASE j = k
      BY <1>5, <2>1, <2>3, <2>4
    <2>5. CASE j # k
      <3>1. j \in i .. k /\ j + 1 \in i .. k /\ j + 1 \in 1 .. k
        BY <1>6, <2>1, <2>3, <2>5
      <3>2. s[j + 1].node \in S
        BY <1>4, <1>6, <2>1, <2>3, <3>1
      <3>3. j + 1 \in X /\ ~(j + 1 <= j)
        BY <2>1, <2>2, <2>3, <3>1, <3>2
      <3> QED
        BY <2>3, <3>3
    <2> QED
      BY <2>4, <2>5
  <1> QED
    BY <1>8, <1>9

(* When every node was looked at and no call is under way, all are black.  *)
LEMMA DoneIsAcyclic ==
    ASSUME NEW g, NEW c, Trail(g, <<>>, c), Explored(g, <<>>, c),
           \A n \in Ids(g) : c[n] # "white"
    PROVE  ~HasCycle(g)
  <1>1. \A n \in Ids(g) : c[n] # "grey" /\ c[n] \in Colours
    BY DEF Trail, Explored
  <1>2. Blacks(g, c) = Ids(g)
    BY <1>1 DEF Blacks, Colours
  <1> QED
    BY <1>2, NoRingIsAcyclic DEF Explored

(* An empty id may be met, and is taken for none found.                    *)
Missed(g) == NoId \in Ids(g) /\ HasCycle(g)

TurnsInRange == turns \in 0 .. Len(drawn.nodes)

SearchInv ==
    doing = "search" =>
        /\ found = {}
        /\ Trail(drawn, walks, colour)
        /\ Missed(drawn) \/ Explored(drawn, walks, colour)
        /\ \A i \in 1 .. turns : colour[drawn.nodes[i]] # "white"

WalkInv ==
    /\ drawn \in Drawings /\ doing \in {"search", "depths", "rows", "over"} /\ TurnsInRange
    /\ SearchInv /\ WalkFindsCycles

LEMMA NodeFacts ==
    ASSUME NEW g, IsGraph(g)
    PROVE  /\ Len(g.nodes) \in Nat /\ DOMAIN g.nodes = 1 .. Len(g.nodes)
           /\ \A i \in 1 .. Len(g.nodes) : g.nodes[i] \in Ids(g)
           /\ \A n \in Ids(g) : \E i \in 1 .. Len(g.nodes) : g.nodes[i] = n
  BY DEF IsGraph, Ids

LEMMA WalkStarts == WalkInit => WalkInv
  <1> SUFFICES ASSUME WalkInit PROVE WalkInv
    OBVIOUS
  <1>1. IsGraph(drawn) /\ drawn \in Drawings
    BY DrawingsAssumption DEF WalkInit
  <1>2. Trail(drawn, walks, colour)
    BY DEF WalkInit, Trail, Colours
  <1>3. Explored(drawn, walks, colour)
    BY DEF WalkInit, Explored, NoRing, Blacks
  <1>4. TurnsInRange /\ \A i \in 1 .. turns : FALSE
    BY <1>1, NodeFacts DEF WalkInit, TurnsInRange
  <1> QED
    BY <1>1, <1>2, <1>3, <1>4 DEF WalkInit, WalkInv, SearchInv, WalkFindsCycles

LEMMA WalkSteps == WalkInv /\ [WalkNext]_walkVars => WalkInv'
  <1> SUFFICES ASSUME WalkInv, [WalkNext]_walkVars PROVE WalkInv'
    OBVIOUS
  <1>1. /\ IsGraph(drawn) /\ drawn \in Drawings /\ turns \in 0 .. Len(drawn.nodes)
        /\ Len(drawn.nodes) \in Nat
        /\ \A i \in 1 .. Len(drawn.nodes) : drawn.nodes[i] \in Ids(drawn)
        /\ \A n \in Ids(drawn) : \E i \in 1 .. Len(drawn.nodes) : drawn.nodes[i] = n
    BY DrawingsAssumption, NodeFacts DEF WalkInv, TurnsInRange
  <1>2. ASSUME doing = "search"
        PROVE  /\ found = {} /\ Trail(drawn, walks, colour)
               /\ Missed(drawn) \/ Explored(drawn, walks, colour)
               /\ \A i \in 1 .. turns : colour[drawn.nodes[i]] # "white"
    BY <1>2 DEF WalkInv, SearchInv
  <1>3. ASSUME doing = "search", walks # <<>>
        PROVE  Inner = walks[Len(walks)] /\ Ahead = Inner.left
    BY <1>3 DEF Inner, Ahead
  <1>4. ASSUME doing = "search" PROVE colour \in [Ids(drawn) -> Colours] /\ DOMAIN colour = Ids(drawn)
    BY <1>2, <1>4 DEF Trail
  <1>5. ASSUME NEW d, doing = "search", \A n \in Ids(drawn) : colour[n] # "white" => d[n] # "white"
        PROVE  \A i \in 1 .. turns : d[drawn.nodes[i]] # "white"
    BY <1>1, <1>2, <1>5
  <1>6. CASE WalkNode
    <2>1. PICK n : n = TakenNode
      OBVIOUS
    <2>2. /\ doing = "search" /\ doing' = doing /\ walks = <<>> /\ turns' = turns + 1
          /\ turns' \in 0 .. Len(drawn.nodes) /\ drawn' = drawn /\ found' = found
          /\ n = drawn.nodes[turns + 1] /\ n \in Ids(drawn)
          /\ 1 .. turns' = (1 .. turns) \cup {turns + 1}
      BY <1>1, <1>6, <2>1 DEF WalkNode, TakesNode, TakenNode, Searching
    <2>3. CASE colour[n] = "white"
      <3>1. colour' = [colour EXCEPT ![n] = "grey"]
        BY <1>6, <2>1, <2>3 DEF WalkNode, Walk
      <3>5. Calling(drawn, walks, colour, n, walks, walks', colour')
        <4>1. walks' = Append(walks, CallOn(n, Successors(drawn, n)))
          BY <1>6, <2>1, <2>3 DEF WalkNode, Walk
        <4> QED
          BY <2>2, <3>1, <4>1 DEF Calling
      <3>2. /\ Trail(drawn, walks', colour')
            /\ Explored(drawn, walks, colour) => Explored(drawn, walks', colour')
        <4>1. Trail(drawn, walks, colour)
          BY <1>2, <2>2
        <4> QED
          BY <1>1, <2>2, <2>3, <3>5, <4>1, CallKeeps
      <3>3. colour'[n] # "white" /\ \A m \in Ids(drawn) : colour[m] # "white" => colour'[m] # "white"
        BY <1>4, <2>2, <3>1
      <3>4. \A i \in 1 .. turns' : colour'[drawn.nodes[i]] # "white"
        BY <1>5, <2>2, <3>3
      <3> QED
        BY <1>1, <1>2, <2>2, <3>2, <3>4 DEF WalkInv, SearchInv, TurnsInRange, WalkFindsCycles
    <2>4. CASE colour[n] # "white"
      <3>1. colour' = colour /\ walks' = walks
        BY <1>6, <2>1, <2>4 DEF WalkNode
      <3>2. \A i \in 1 .. turns' : colour[drawn.nodes[i]] # "white"
        BY <1>2, <2>2, <2>4
      <3> QED
        BY <1>1, <1>2, <2>2, <3>1, <3>2 DEF WalkInv, SearchInv, TurnsInRange, WalkFindsCycles
    <2> QED
      BY <2>3, <2>4
  <1>7. ASSUME NEW m \in Ahead, WalkOn(m) PROVE WalkInv'
    <2>1. /\ doing = "search" /\ doing' = doing /\ turns' = turns /\ drawn' = drawn
          /\ found' = found /\ walks # <<>> /\ m \in walks[Len(walks)].left
          /\ Took(m) = TakenFrom(walks, m)
          /\ m \in DOMAIN colour => colour[m] # "grey"
      BY <1>7 DEF WalkOn, Meets, Searching, Ahead, Inner, Took, TakenFrom
    <2>2. CASE m \in Ids(drawn) /\ colour[m] = "white"
      <3>1. PICK t : t = Took(m)
        OBVIOUS
      <3>2. colour' = [colour EXCEPT ![m] = "grey"]
        BY <1>4, <1>7, <2>1, <2>2, <3>1 DEF WalkOn, Walk
      <3>6. Calling(drawn, walks, colour, m, t, walks', colour')
        <4>1. walks' = Append(t, CallOn(m, Successors(drawn, m))) /\ t = TakenFrom(walks, m)
          BY <1>4, <1>7, <2>1, <2>2, <3>1 DEF WalkOn, Walk
        <4> QED
          BY <2>1, <3>2, <4>1 DEF Calling
      <3>3. /\ Trail(drawn, walks', colour')
            /\ Explored(drawn, walks, colour) => Explored(drawn, walks', colour')
        <4>1. Trail(drawn, walks, colour)
          BY <1>2, <2>1
        <4> QED
          BY <1>1, <2>2, <3>6, <4>1, CallKeeps
      <3>4. \A n \in Ids(drawn) : colour[n] # "white" => colour'[n] # "white"
        BY <1>4, <2>1, <2>2, <3>2
      <3>5. \A i \in 1 .. turns : colour'[drawn.nodes[i]] # "white"
        BY <1>5, <2>1, <3>4
      <3> QED
        BY <1>1, <1>2, <2>1, <3>3, <3>5 DEF WalkInv, SearchInv, TurnsInRange, WalkFindsCycles
    <2>3. CASE ~(m \in Ids(drawn) /\ colour[m] = "white")
      <3>1. colour' = colour /\ walks' = TakenFrom(walks, m)
        BY <1>4, <1>7, <2>1, <2>3 DEF WalkOn
      <3>2. m \in Ids(drawn) => colour[m] = "black"
        BY <1>4, <2>1, <2>3 DEF Colours
      <3>3. /\ Trail(drawn, walks', colour')
            /\ Explored(drawn, walks, colour) => Explored(drawn, walks', colour')
        BY <1>1, <1>2, <2>1, <3>1, <3>2, TakeKeeps
      <3> QED
        BY <1>1, <1>2, <2>1, <3>1, <3>3 DEF WalkInv, SearchInv, TurnsInRange, WalkFindsCycles
    <2> QED
      BY <2>2, <2>3
  <1>8. ASSUME NEW m \in Ahead, WalkHits(m) PROVE WalkInv'
    <2>1. /\ doing = "search" /\ drawn' = drawn /\ walks # <<>>
          /\ m \in walks[Len(walks)].left
          /\ m \in DOMAIN colour /\ colour[m] = "grey" /\ colour' = colour
      BY <1>8 DEF WalkHits, Meets, Searching, Ahead, Inner
    <2>2. m \in Ids(drawn)
      BY <1>4, <2>1
    <2>3. /\ HasCycle(drawn)
          /\ NoId \notin Ids(drawn) => OnCycle(drawn, m)
      BY <1>1, <1>2, <2>1, <2>2, HitIsOnCycle DEF Missed
    <2>4. CASE m = NoId
      <3>1. /\ walks' = SubSeq(walks, 1, Len(walks) - 1) /\ doing' = doing
            /\ turns' = turns /\ found' = found
        BY <1>8, <2>4 DEF WalkHits, Returned
      <3>2. Trail(drawn, walks', colour)
        BY <1>1, <1>2, <2>1, <3>1, CutKeeps
      <3> QED
        BY <1>1, <1>2, <2>1, <2>2, <2>3, <2>4, <3>1, <3>2
           DEF WalkInv, SearchInv, TurnsInRange, WalkFindsCycles, Missed
    <2>5. CASE m # NoId
      <3>1. doing' = "depths" /\ turns' = 0 /\ found' = {m}
        BY <1>8, <2>5 DEF WalkHits
      <3>2. 0 \in 0 .. Len(drawn.nodes)
        BY <1>1
      <3> QED
        BY <1>1, <2>1, <2>3, <3>1, <3>2 DEF WalkInv, SearchInv, TurnsInRange, WalkFindsCycles
    <2> QED
      BY <2>4, <2>5
  <1>9. CASE WalkReturns
    <2>1. /\ doing = "search" /\ doing' = doing /\ drawn' = drawn /\ walks # <<>>
          /\ walks[Len(walks)].left = {} /\ turns' = turns /\ found' = found
          /\ colour' = [colour EXCEPT ![walks[Len(walks)].node] = "black"]
          /\ walks' = SubSeq(walks, 1, Len(walks) - 1)
      BY <1>9 DEF WalkReturns, Searching, Ahead, Inner, Blackened, Returned
    <2>2. /\ Trail(drawn, walks', colour')
          /\ Explored(drawn, walks, colour) => Explored(drawn, walks', colour')
      <3>1. Trail(drawn, walks, colour)
        BY <1>2, <2>1
      <3>2. Returning(walks, colour, walks', colour')
        BY <2>1 DEF Returning
      <3> QED
        BY <1>1, <3>1, <3>2, ReturnKeeps
    <2>3. \A n \in Ids(drawn) : colour[n] # "white" => colour'[n] # "white"
      BY <1>4, <2>1
    <2>4. \A i \in 1 .. turns : colour'[drawn.nodes[i]] # "white"
      BY <1>5, <2>1, <2>3
    <2> QED
      BY <1>1, <1>2, <2>1, <2>2, <2>4 DEF WalkInv, SearchInv, TurnsInRange, WalkFindsCycles
  <1>10. CASE LoopDone("search", "depths")
    <2>1. /\ doing = "search" /\ doing' = "depths" /\ turns' = 0 /\ turns = Len(drawn.nodes)
          /\ walks = <<>> /\ drawn' = drawn /\ found' = found
      BY <1>10 DEF LoopDone
    <2>2. \A n \in Ids(drawn) : colour[n] # "white"
      BY <1>1, <1>2, <2>1
    <2>3. NoId \notin Ids(drawn) => ~HasCycle(drawn)
      BY <1>2, <2>1, <2>2, DoneIsAcyclic DEF Missed
    <2>4. 0 \in 0 .. Len(drawn.nodes)
      BY <1>1
    <2> QED
      BY <1>1, <1>2, <2>1, <2>3, <2>4 DEF WalkInv, SearchInv, TurnsInRange, WalkFindsCycles
  <1>11. CASE AutoLayout \/ UNCHANGED walkVars
    <2>1. /\ drawn' = drawn /\ found' = found /\ turns' \in 0 .. Len(drawn.nodes)
          /\ doing' \in {"search", "depths", "rows", "over"}
          /\ (doing = "search" \/ doing' = "search") => UNCHANGED walkVars
      BY <1>1, <1>11 DEF AutoLayout, DepthOfNode, DepthOfParent, DepthReturns, PlaceNode, LoopDone,
           TakesNode, Measuring, walkVars, WalkInv
    <2>2. SearchInv'
      BY <1>2, <2>1 DEF SearchInv, walkVars
    <2>3. WalkFindsCycles'
      BY <2>1 DEF WalkFindsCycles, WalkInv, walkVars
    <2> QED
      BY <1>1, <2>1, <2>2, <2>3 DEF WalkInv, TurnsInRange
  <1> QED
    BY <1>6, <1>7, <1>8, <1>9, <1>10, <1>11 DEF WalkNext, FindCycle

(* depthOf.  A depth that some neighbour amounts to, and one beyond it.    *)
Reaches(dep, ps, d) == d = 0 \/ \E p \in ps : p \in DOMAIN dep /\ d = dep[p] + 1
Exceeds(dep, p, d) == p \in DOMAIN dep /\ dep[p] < d

(* The nodes under way have no depth yet, each is a parent of the one      *)
(* before, and what a loop has taken is counted or is being called.        *)
Frames(g, s, dep) ==
    /\ s \in Seq(Frame(g))
    /\ \A i \in DOMAIN s :
         /\ s[i].node \notin DOMAIN dep
         /\ s[i].left \subseteq Parents(g, s[i].node)
         /\ i + 1 \in DOMAIN s => s[i + 1].node \in Parents(g, s[i].node)
         /\ Reaches(dep, Parents(g, s[i].node), s[i].deepest)
         /\ \A p \in Parents(g, s[i].node) \ s[i].left :
              Exceeds(dep, p, s[i].deepest) \/ (i + 1 \in DOMAIN s /\ p = s[i + 1].node)
    /\ \A i, j \in DOMAIN s : s[i].node = s[j].node => i = j

Depths(g, dep) ==
    \A n \in DOMAIN dep :
        /\ dep[n] \in Nat
        /\ \A p \in Parents(g, n) : Exceeds(dep, p, dep[n])
        /\ Reaches(dep, Parents(g, n), dep[n])

Counting(s, t, m, e) ==
    /\ s # <<>> /\ m \in s[Len(s)].left
    /\ t = [TakenFrom(s, m) EXCEPT ![Len(s)].deepest = e]

Counted(s, t, m, e) ==
    /\ DOMAIN t = 1 .. Len(s) /\ DOMAIN s = 1 .. Len(s) /\ Len(s) \in Nat \ {0}
    /\ \A i \in 1 .. Len(s) :
         /\ t[i].node = s[i].node
         /\ t[i].left = IF i = Len(s) THEN s[i].left \ {m} ELSE s[i].left
         /\ t[i].deepest = IF i = Len(s) THEN e ELSE s[i].deepest

LEMMA CountFacts ==
    ASSUME NEW g, NEW s \in Seq(Frame(g)), NEW t, NEW m, NEW e \in Nat, Counting(s, t, m, e)
    PROVE  t \in Seq(Frame(g)) /\ Counted(s, t, m, e)
  <1>1. PICK k, u, F : k = Len(s) /\ u = TakenFrom(s, m) /\ F = Frame(g)
    OBVIOUS
  <1>2. u \in Seq(F) /\ LessOne(s, u, m) /\ t = [u EXCEPT ![k].deepest = e]
    BY <1>1, TakeFacts DEF Counting
  <1>3. k \in Nat \ {0} /\ k \in 1 .. k /\ Len(u) = k /\ DOMAIN u = 1 .. k /\ DOMAIN s = 1 .. k
    BY <1>1, <1>2 DEF LessOne
  <1>4. PICK f, h : f = u[k] /\ h = [f EXCEPT !.deepest = e]
    OBVIOUS
  <1>5. f \in F
    BY <1>2, <1>3, <1>4, ElementOfSeq
  <1>6. h \in F /\ h.node = f.node /\ h.left = f.left /\ h.deepest = e
    BY <1>1, <1>4, <1>5 DEF Frame
  <1>7. t = [u EXCEPT ![k] = h]
    BY <1>2, <1>4
  <1>11. /\ [u EXCEPT ![k] = h] \in Seq(F) /\ Len([u EXCEPT ![k] = h]) = k
         /\ \A j \in 1 .. k : [u EXCEPT ![k] = h][j] = IF j = k THEN h ELSE u[j]
    BY <1>2, <1>3, <1>6, ExceptSeq
  <1>8. /\ t \in Seq(F) /\ DOMAIN t = 1 .. k
        /\ \A j \in 1 .. k : t[j] = IF j = k THEN h ELSE u[j]
    BY <1>3, <1>7, <1>11
  <1>9. \A i \in 1 .. k :
          /\ u[i].node = s[i].node /\ u[i].deepest = s[i].deepest
          /\ u[i].left = IF i = k THEN s[i].left \ {m} ELSE s[i].left
    BY <1>1, <1>2 DEF LessOne
  <1>10. \A i \in 1 .. k :
           /\ t[i].node = s[i].node
           /\ t[i].left = IF i = k THEN s[i].left \ {m} ELSE s[i].left
           /\ t[i].deepest = IF i = k THEN e ELSE s[i].deepest
    BY <1>3, <1>4, <1>6, <1>8, <1>9
  <1> QED
    BY <1>1, <1>3, <1>8, <1>10 DEF Counted

LEMMA DeeperFacts ==
    ASSUME NEW d \in Nat, NEW e \in Nat
    PROVE  /\ Deeper(d, e) \in Nat /\ e < Deeper(d, e) /\ d <= Deeper(d, e)
           /\ Deeper(d, e) = d \/ Deeper(d, e) = e + 1
  BY DEF Deeper

(* A parent with a depth is counted.                                       *)
LEMMA CountKeeps ==
    ASSUME NEW g, IsGraph(g), NEW s, NEW dep, Frames(g, s, dep), Depths(g, dep),
           NEW m \in DOMAIN dep, NEW t, NEW e, e = Deeper(s[Len(s)].deepest, dep[m]),
           Counting(s, t, m, e)
    PROVE  Frames(g, t, dep)
  <1>1. PICK k, d : k = Len(s) /\ d = s[k].deepest
    OBVIOUS
  <1>2. s \in Seq(Frame(g)) /\ k \in Nat \ {0} /\ DOMAIN s = 1 .. k /\ k \in 1 .. k
    BY <1>1 DEF Frames, Counting
  <1>3. d \in Nat
    <2>1. s[k] \in Frame(g)
      BY <1>1, <1>2, ElementOfSeq
    <2> QED
      BY <1>1, <2>1 DEF Frame
  <1>4. dep[m] \in Nat /\ e \in Nat /\ dep[m] < e /\ d <= e /\ (e = d \/ e = dep[m] + 1)
    <2>1. dep[m] \in Nat
      BY DEF Depths
    <2> QED
      BY <1>1, <1>3, <2>1, DeeperFacts
  <1>5. /\ t \in Seq(Frame(g)) /\ DOMAIN t = 1 .. k
        /\ \A i \in 1 .. k :
             /\ t[i].node = s[i].node
             /\ t[i].left = IF i = k THEN s[i].left \ {m} ELSE s[i].left
             /\ t[i].deepest = IF i = k THEN e ELSE s[i].deepest
    <2>1. t \in Seq(Frame(g)) /\ Counted(s, t, m, e)
      BY <1>2, <1>4, CountFacts
    <2> QED
      BY <1>1, <2>1 DEF Counted
  <1>6. m \in s[k].left /\ m \in Parents(g, s[k].node)
    BY <1>1, <1>2 DEF Counting, Frames
  <1>7. ASSUME NEW i \in 1 .. k
        PROVE  /\ t[i].node \notin DOMAIN dep
               /\ t[i].left \subseteq Parents(g, t[i].node)
               /\ i + 1 \in 1 .. k => t[i + 1].node \in Parents(g, t[i].node)
    BY <1>2, <1>5 DEF Frames
  <1>8. ASSUME NEW i \in 1 .. k
        PROVE  Reaches(dep, Parents(g, t[i].node), t[i].deepest)
    <2>1. Reaches(dep, Parents(g, s[i].node), s[i].deepest)
      BY <1>2 DEF Frames
    <2>2. CASE i # k \/ e = d
      BY <1>1, <1>5, <2>1, <2>2
    <2>3. CASE i = k /\ e = dep[m] + 1
      BY <1>5, <1>6, <2>3 DEF Reaches
    <2> QED
      BY <1>4, <2>2, <2>3
  <1>9. ASSUME NEW i \in 1 .. k, NEW p \in Parents(g, t[i].node) \ t[i].left
        PROVE  Exceeds(dep, p, t[i].deepest) \/ (i + 1 \in 1 .. k /\ p = t[i + 1].node)
    <2>1. CASE i = k /\ p = m
      BY <1>4, <1>5, <2>1 DEF Exceeds
    <2>2. CASE i = k /\ p # m
      <3>5. p \in Parents(g, s[k].node) /\ p \notin s[k].left
        BY <1>2, <1>5, <1>9, <2>2
      <3>1. p \in Parents(g, s[k].node) \ s[k].left /\ k + 1 \notin 1 .. k
        BY <1>2, <3>5
      <3>2. Exceeds(dep, p, d)
        BY <1>1, <1>2, <3>1 DEF Frames
      <3>3. dep[p] \in Nat /\ p \in DOMAIN dep /\ dep[p] < d
        BY <3>2 DEF Exceeds, Depths
      <3>4. dep[p] < e
        BY <1>3, <1>4, <3>3
      <3> QED
        BY <1>5, <2>2, <3>3, <3>4 DEF Exceeds
    <2>3. CASE i # k
      <3>1. p \in Parents(g, s[i].node) \ s[i].left
        BY <1>5, <1>9, <2>3
      <3>2. Exceeds(dep, p, s[i].deepest) \/ (i + 1 \in 1 .. k /\ p = s[i + 1].node)
        BY <1>2, <3>1 DEF Frames
      <3> QED
        BY <1>5, <2>3, <3>2
    <2> QED
      BY <2>1, <2>2, <2>3
  <1>10. \A i, j \in 1 .. k : t[i].node = t[j].node => i = j
    BY <1>2, <1>5 DEF Frames
  <1> QED
    BY <1>5, <1>7, <1>8, <1>9, <1>10 DEF Frames

(* A parent without one is called,                                         *)
LEMMA ParentKeeps ==
    ASSUME NEW g, IsGraph(g), NEW s, NEW dep, Frames(g, s, dep), s # <<>>,
           NEW m \in s[Len(s)].left, m \notin DOMAIN dep, \A i \in DOMAIN s : s[i].node # m,
           NEW t, t = TakenFrom(s, m), NEW u, u = Append(t, CallOn(m, Parents(g, m)))
    PROVE  Frames(g, u, dep)
  <1>1. PICK k, f : k = Len(s) /\ f = CallOn(m, Parents(g, m))
    OBVIOUS
  <1>2. s \in Seq(Frame(g)) /\ k \in Nat \ {0} /\ DOMAIN s = 1 .. k /\ k \in 1 .. k
    BY <1>1 DEF Frames
  <1>3. /\ t \in Seq(Frame(g)) /\ Len(t) = k
        /\ \A i \in 1 .. k : /\ t[i].node = s[i].node /\ t[i].deepest = s[i].deepest
                             /\ t[i].left = IF i = k THEN s[i].left \ {m} ELSE s[i].left
    <2>1. t \in Seq(Frame(g)) /\ LessOne(s, t, m)
      BY <1>2, TakeFacts
    <2> QED
      BY <1>1, <2>1 DEF LessOne
  <1>4. m \in Parents(g, s[k].node)
    BY <1>1, <1>2 DEF Frames
  <1>5. f \in Frame(g) /\ f.node = m /\ f.left = Parents(g, m) /\ f.deepest = 0
    BY <1>1, <1>4, EdgesOf DEF Frame, CallOn
  <1>6. /\ u \in Seq(Frame(g)) /\ DOMAIN u = 1 .. k + 1 /\ u[k + 1] = f
        /\ \A i \in 1 .. k : u[i] = t[i]
    BY <1>1, <1>3, <1>5, PushFacts
  <1>7. /\ \A i \in 1 .. k + 1 : i = k + 1 \/ i \in 1 .. k
        /\ \A i \in 1 .. k : i + 1 \in 1 .. k + 1 /\ (i = k \/ i + 1 \in 1 .. k)
        /\ k + 1 \in 1 .. k + 1 /\ k + 1 + 1 \notin 1 .. k + 1
    BY <1>2
  <1>8. \A i \in 1 .. k : u[i].node = s[i].node /\ u[i].deepest = s[i].deepest
    BY <1>3, <1>6
  <1>9. ASSUME NEW i \in 1 .. k + 1
        PROVE  /\ u[i].node \notin DOMAIN dep
               /\ u[i].left \subseteq Parents(g, u[i].node)
               /\ Reaches(dep, Parents(g, u[i].node), u[i].deepest)
    <2>1. CASE i = k + 1
      BY <1>5, <1>6, <2>1 DEF Reaches
    <2>2. CASE i \in 1 .. k
      <3>1. u[i].left \subseteq s[i].left
        BY <1>3, <1>6, <2>2
      <3> QED
        BY <1>2, <1>8, <2>2, <3>1 DEF Frames
    <2> QED
      BY <1>7, <2>1, <2>2
  <1>10. ASSUME NEW i \in 1 .. k + 1, i + 1 \in 1 .. k + 1
         PROVE  u[i + 1].node \in Parents(g, u[i].node)
    <2>1. i \in 1 .. k
      BY <1>7, <1>10
    <2>2. CASE i = k
      BY <1>4, <1>5, <1>6, <1>8, <2>1, <2>2
    <2>3. CASE i + 1 \in 1 .. k
      BY <1>2, <1>8, <2>1, <2>3 DEF Frames
    <2> QED
      BY <1>7, <2>1, <2>2, <2>3
  <1>11. ASSUME NEW i \in 1 .. k + 1, NEW p \in Parents(g, u[i].node) \ u[i].left
         PROVE  Exceeds(dep, p, u[i].deepest) \/ (i + 1 \in 1 .. k + 1 /\ p = u[i + 1].node)
    <2>1. CASE i = k + 1
      BY <1>5, <1>6, <1>11, <2>1
    <2>2. CASE i = k /\ p = m
      BY <1>5, <1>6, <1>7, <2>2
    <2>3. CASE i \in 1 .. k /\ ~(i = k /\ p = m)
      <3>1. p \in Parents(g, s[i].node) \ s[i].left
        BY <1>3, <1>6, <1>8, <1>11, <2>3
      <3>2. Exceeds(dep, p, s[i].deepest) \/ (i + 1 \in 1 .. k /\ p = s[i + 1].node)
        BY <1>2, <2>3, <3>1 DEF Frames
      <3> QED
        BY <1>7, <1>8, <2>3, <3>2
    <2> QED
      BY <1>7, <2>1, <2>2, <2>3
  <1>12. \A i, j \in 1 .. k + 1 : u[i].node = u[j].node => i = j
    <2>1. \A i, j \in 1 .. k : s[i].node = s[j].node => i = j
      BY <1>2 DEF Frames
    <2>2. \A i \in 1 .. k : s[i].node # m
      BY <1>2
    <2>3. u[k + 1].node = m /\ \A i \in 1 .. k : u[i].node # m
      BY <1>5, <1>6, <1>8, <2>2
    <2>4. \A i, j \in 1 .. k : u[i].node = u[j].node => i = j
      BY <1>8, <2>1
    <2> SUFFICES ASSUME NEW i \in 1 .. k + 1, NEW j \in 1 .. k + 1, u[i].node = u[j].node
                 PROVE  i = j
      OBVIOUS
    <2>5. (i = k + 1 \/ i \in 1 .. k) /\ (j = k + 1 \/ j \in 1 .. k)
      BY <1>7
    <2> QED
      BY <2>3, <2>4, <2>5
  <1> QED
    BY <1>6, <1>9, <1>10, <1>11, <1>12 DEF Frames

(* and one that is being called is on a cycle.                             *)
LEMMA SeenIsCyclic ==
    ASSUME NEW g, IsGraph(g), NEW s, NEW dep, Frames(g, s, dep), s # <<>>,
           NEW m \in s[Len(s)].left, NEW i \in DOMAIN s, s[i].node = m
    PROVE  HasCycle(g)
  <1>1. PICK k : k = Len(s)
    OBVIOUS
  <1>2. k \in Nat \ {0} /\ DOMAIN s = 1 .. k /\ k \in 1 .. k
    BY <1>1 DEF Frames
  <1>3. \A j \in 1 .. k : j + 1 \in 1 .. k => s[j + 1].node \in Parents(g, s[j].node)
    BY <1>2 DEF Frames
  <1>4. m \in Parents(g, s[k].node)
    BY <1>1, <1>2 DEF Frames
  <1>5. \A j \in i .. k : /\ j \in 1 .. k /\ (j = k \/ j + 1 \in 1 .. k)
                          /\ j = i \/ (j - 1 \in i .. k /\ j - 1 \in 1 .. k /\ (j - 1) + 1 = j)
    BY <1>2
  <1>6. i \in i .. k /\ k \in i .. k
    BY <1>2
  <1>7. PICK ring : ring = {s[j].node : j \in i .. k}
    OBVIOUS
  <1>8. ring \in (SUBSET Ids(g)) \ {{}}
    <2>1. \A j \in i .. k : s[j].node \in Ids(g)
      BY <1>3, <1>4, <1>5, EdgesOf
    <2>2. s[i].node \in ring /\ ring \subseteq Ids(g)
      BY <1>6, <1>7, <2>1
    <2> QED
      BY <2>2
  <1>9. ASSUME NEW n \in ring PROVE \E p \in ring : <<n, p>> \in g.edges
    <2>1. PICK j \in i .. k : n = s[j].node
      BY <1>7, <1>9
    <2>2. CASE j = i
      <3>1. s[k].node \in ring /\ <<n, s[k].node>> \in g.edges
        BY <1>4, <1>6, <1>7, <2>1, <2>2, EdgesOf
      <3> QED
        BY <3>1
    <2>3. CASE j # i
      <3>1. j - 1 \in i .. k /\ j - 1 \in 1 .. k /\ j \in 1 .. k /\ (j - 1) + 1 = j
        BY <1>5, <2>3
      <3>2. n \in Parents(g, s[j - 1].node)
        BY <1>3, <2>1, <3>1
      <3>3. s[j - 1].node \in ring /\ <<n, s[j - 1].node>> \in g.edges
        BY <1>7, <3>1, <3>2, EdgesOf
      <3> QED
        BY <3>3
    <2> QED
      BY <2>2, <2>3
  <1> QED
    BY <1>8, <1>9 DEF HasCycle

(* A call whose loop is done has the depth of its node.                    *)
Settling(s, dep, t, dip) ==
    /\ s # <<>> /\ s[Len(s)].left = {}
    /\ dip = [m \in DOMAIN dep \cup {s[Len(s)].node} |->
                IF m = s[Len(s)].node THEN s[Len(s)].deepest ELSE dep[m]]
    /\ t = [i \in 1 .. Len(s) - 1 |->
              IF i < Len(s) - 1 THEN s[i]
              ELSE [s[i] EXCEPT !.deepest = Deeper(@, s[Len(s)].deepest)]]

LEMMA SettleKeeps ==
    ASSUME NEW g, IsGraph(g), NEW s, NEW dep, Frames(g, s, dep), Depths(g, dep),
           NEW t, NEW dip, Settling(s, dep, t, dip)
    PROVE  /\ Frames(g, t, dip) /\ Depths(g, dip)
           /\ DOMAIN dip = DOMAIN dep \cup {s[Len(s)].node}
           /\ Len(s) > 1 => t # <<>> /\ t[1].node = s[1].node
  <1>1. PICK k, n, d : k = Len(s) /\ n = s[k].node /\ d = s[k].deepest
    OBVIOUS
  <1>2. s \in Seq(Frame(g)) /\ k \in Nat \ {0} /\ DOMAIN s = 1 .. k /\ k \in 1 .. k
    BY <1>1 DEF Frames, Settling
  <1>3. /\ dip = [m \in DOMAIN dep \cup {n} |-> IF m = n THEN d ELSE dep[m]]
        /\ t = [i \in 1 .. k - 1 |-> IF i < k - 1 THEN s[i]
                                     ELSE [s[i] EXCEPT !.deepest = Deeper(@, d)]]
        /\ s[k].left = {}
    BY <1>1 DEF Settling
  <1>4. \A i \in 1 .. k : /\ s[i] \in Frame(g) /\ s[i].deepest \in Nat
                          /\ s[i] = [node |-> s[i].node, left |-> s[i].left, deepest |-> s[i].deepest]
    <2>1. \A i \in 1 .. k : s[i] \in Frame(g)
      BY <1>2, ElementOfSeq
    <2> QED
      BY <2>1 DEF Frame
  <1>5. d \in Nat
    BY <1>1, <1>2, <1>4
  <1>6. /\ DOMAIN dip = DOMAIN dep \cup {n} /\ dip[n] = d
        /\ \A m \in DOMAIN dep : m # n /\ dip[m] = dep[m]
        /\ n \notin DOMAIN dep
    BY <1>1, <1>2, <1>3 DEF Frames
  <1>7. \A i \in 1 .. k - 1 : /\ i \in 1 .. k /\ i # k /\ i + 1 \in 1 .. k
                              /\ i + 1 = k \/ i + 1 \in 1 .. k - 1
                              /\ i < k - 1 <=> i + 1 # k
    BY <1>2
  <1>8. ASSUME NEW i \in 1 .. k - 1
        PROVE  /\ t[i] \in Frame(g)
               /\ t[i].node = s[i].node /\ t[i].left = s[i].left
               /\ t[i].deepest = IF i + 1 = k THEN Deeper(s[i].deepest, d) ELSE s[i].deepest
    <2>1. CASE i + 1 # k
      BY <1>3, <1>4, <1>7, <2>1
    <2>2. CASE i + 1 = k
      <3>1. t[i] = [s[i] EXCEPT !.deepest = Deeper(@, d)]
        BY <1>3, <1>7, <2>2
      <3>2. PICK f : f = s[i]
        OBVIOUS
      <3>3. Deeper(f.deepest, d) \in Nat
        BY <1>4, <1>5, <1>7, <3>2, DeeperFacts
      <3>4. /\ t[i] = [node |-> f.node, left |-> f.left, deepest |-> Deeper(f.deepest, d)]
            /\ f \in Frame(g)
        BY <1>4, <1>7, <3>1, <3>2
      <3> QED
        BY <2>2, <3>2, <3>3, <3>4 DEF Frame
    <2> QED
      BY <2>1, <2>2
  <1>9. t \in Seq(Frame(g)) /\ DOMAIN t = 1 .. k - 1
    <2>1. DOMAIN t = 1 .. k - 1 /\ k - 1 \in Nat /\ t = [i \in 1 .. k - 1 |-> t[i]]
      BY <1>2, <1>3
    <2>2. t \in [1 .. k - 1 -> Frame(g)]
      BY <1>8, <2>1
    <2> QED
      BY <2>1, <2>2, SeqDef
  <1>10. \A p, ps, e : /\ Exceeds(dep, p, e) => Exceeds(dip, p, e)
                       /\ Reaches(dep, ps, e) => Reaches(dip, ps, e)
    BY <1>6 DEF Exceeds, Reaches
  <1>11. \A p \in Parents(g, n) : Exceeds(dep, p, d)
    <2>1. k + 1 \notin 1 .. k
      BY <1>2
    <2> QED
      BY <1>1, <1>2, <1>3, <2>1 DEF Frames
  <1>12. Reaches(dep, Parents(g, n), d)
    BY <1>1, <1>2 DEF Frames
  <1>13. Depths(g, dip)
    BY <1>5, <1>6, <1>10, <1>11, <1>12 DEF Depths
  <1>14. ASSUME NEW i \in 1 .. k - 1
         PROVE  /\ t[i].node \notin DOMAIN dip
                /\ t[i].left \subseteq Parents(g, t[i].node)
                /\ i + 1 \in 1 .. k - 1 => t[i + 1].node \in Parents(g, t[i].node)
    <2>1. s[i].node # n /\ s[i].node \notin DOMAIN dep
      BY <1>1, <1>2, <1>7 DEF Frames
    <2>2. /\ s[i].left \subseteq Parents(g, s[i].node)
          /\ s[i + 1].node \in Parents(g, s[i].node)
      BY <1>2, <1>7 DEF Frames
    <2> QED
      BY <1>6, <1>8, <2>1, <2>2
  <1>15. ASSUME NEW i \in 1 .. k - 1
         PROVE  /\ Reaches(dip, Parents(g, t[i].node), t[i].deepest)
                /\ \A p \in Parents(g, t[i].node) \ t[i].left :
                     \/ Exceeds(dip, p, t[i].deepest)
                     \/ i + 1 \in 1 .. k - 1 /\ p = t[i + 1].node
    <2>1. PICK P : P = Parents(g, s[i].node)
      OBVIOUS
    <2>2. /\ Reaches(dep, P, s[i].deepest)
          /\ \A p \in P \ s[i].left :
               Exceeds(dep, p, s[i].deepest) \/ (i + 1 \in 1 .. k /\ p = s[i + 1].node)
          /\ s[i + 1].node \in P
      BY <1>2, <1>7, <2>1 DEF Frames
    <2>3. CASE i + 1 # k
      <3>1. i + 1 \in 1 .. k - 1 /\ t[i + 1].node = s[i + 1].node /\ t[i].deepest = s[i].deepest
        BY <1>7, <1>8, <2>3
      <3> QED
        BY <1>8, <1>10, <2>1, <2>2, <3>1
    <2>4. CASE i + 1 = k
      <3>1. PICK a, e : a = s[i].deepest /\ e = Deeper(a, d)
        OBVIOUS
      <3>2. /\ a \in Nat /\ e \in Nat /\ d < e /\ a <= e /\ (e = a \/ e = d + 1)
            /\ t[i].deepest = e
        BY <1>4, <1>5, <1>7, <1>8, <2>4, <3>1, DeeperFacts
      <3>3. Reaches(dip, P, e)
        <4>1. CASE e = a
          BY <1>10, <2>2, <3>1, <4>1
        <4>2. CASE e = d + 1
          BY <1>1, <1>6, <2>2, <2>4, <4>2 DEF Reaches
        <4> QED
          BY <3>2, <4>1, <4>2
      <3>4. ASSUME NEW p \in P \ s[i].left PROVE Exceeds(dip, p, e)
        <4>1. CASE p = n
          BY <1>6, <3>2, <4>1 DEF Exceeds
        <4>2. CASE p # n
          <5>1. p \in DOMAIN dep /\ dep[p] < a /\ dep[p] \in Nat
            BY <1>1, <2>2, <2>4, <3>1, <3>4, <4>2 DEF Exceeds, Depths
          <5>2. dep[p] < e
            BY <3>2, <5>1
          <5> QED
            BY <1>6, <5>1, <5>2 DEF Exceeds
        <4> QED
          BY <4>1, <4>2
      <3> QED
        BY <1>8, <2>1, <3>2, <3>3, <3>4
    <2> QED
      BY <2>3, <2>4
  <1>16. \A i, j \in 1 .. k - 1 : t[i].node = t[j].node => i = j
    <2>1. \A i, j \in 1 .. k : s[i].node = s[j].node => i = j
      BY <1>2 DEF Frames
    <2> QED
      BY <1>7, <1>8, <2>1
  <1>17. Frames(g, t, dip)
    BY <1>9, <1>14, <1>15, <1>16 DEF Frames
  <1>18. ASSUME k > 1 PROVE t # <<>> /\ t[1].node = s[1].node
    <2>1. 1 \in 1 .. k - 1
      BY <1>2, <1>18
    <2>2. DOMAIN t # {}
      BY <1>9, <2>1
    <2>3. t # <<>>
      BY <2>2
    <2> QED
      BY <1>8, <2>1, <2>3
  <1> QED
    BY <1>1, <1>6, <1>13, <1>17, <1>18

(* The depths of a graph without cycles.                                   *)
NodesReached ==
    \A i \in 1 .. turns :
        \/ drawn.nodes[i] \in DOMAIN depth
        \/ walks # <<>> /\ walks[1].node = drawn.nodes[i]

DepthInv ==
    /\ doing = "search" => DOMAIN depth = {}
    /\ ~HasCycle(drawn) =>
         /\ Depths(drawn, depth)
         /\ doing = "depths" => Frames(drawn, walks, depth) /\ NodesReached
         /\ doing \in {"rows", "over"} => Ids(drawn) \subseteq DOMAIN depth

LEMMA DepthsStart == WalkInit => DepthInv
  BY DEF WalkInit, DepthInv, Depths

LEMMA DepthSteps == WalkInv /\ WalkInv' /\ DepthInv /\ [WalkNext]_walkVars => DepthInv'
  <1> SUFFICES ASSUME WalkInv, WalkInv', DepthInv, [WalkNext]_walkVars PROVE DepthInv'
    OBVIOUS
  <1>1. /\ IsGraph(drawn) /\ turns \in 0 .. Len(drawn.nodes)
        /\ Len(drawn.nodes) \in Nat
        /\ \A i \in 1 .. Len(drawn.nodes) : drawn.nodes[i] \in Ids(drawn)
        /\ \A n \in Ids(drawn) : \E i \in 1 .. Len(drawn.nodes) : drawn.nodes[i] = n
    BY DrawingsAssumption, NodeFacts DEF WalkInv, TurnsInRange
  <1>2. CASE doing = "search" \/ UNCHANGED walkVars
    <2>1. CASE UNCHANGED walkVars
      BY <2>1 DEF DepthInv, NodesReached, walkVars
    <2>2. CASE LoopDone("search", "depths")
      <3>1. /\ doing = "search" /\ doing' = "depths" /\ turns' = 0 /\ walks = <<>> /\ walks' = walks
            /\ drawn' = drawn /\ depth' = depth
        BY <2>2 DEF LoopDone
      <3>2. Frames(drawn, <<>>, depth)
        BY DEF Frames
      <3>3. 1 .. 0 = {}
        OBVIOUS
      <3> QED
        BY <3>1, <3>2, <3>3 DEF DepthInv, NodesReached
    <2>3. CASE doing = "search" /\ ~UNCHANGED walkVars /\ ~LoopDone("search", "depths")
      <3>1. drawn' = drawn /\ depth' = depth /\ (doing' = "search" \/ (doing' = "depths" /\ found' # {}))
        BY <2>3 DEF WalkNext, FindCycle, AutoLayout, WalkNode, WalkOn, WalkHits, WalkReturns, Meets,
             TakesNode, Searching, DepthOfNode, DepthOfParent, DepthReturns, PlaceNode, LoopDone
      <3>2. doing' = "depths" => HasCycle(drawn)
        BY <3>1 DEF WalkInv, WalkFindsCycles
      <3> QED
        BY <2>3, <3>1, <3>2 DEF DepthInv
    <2> QED
      BY <1>2, <2>1, <2>2, <2>3
  <1>3. CASE HasCycle(drawn) /\ doing # "search"
    <2>1. drawn' = drawn /\ doing' # "search"
      BY <1>3 DEF WalkNext, FindCycle, AutoLayout, WalkNode, WalkOn, WalkHits, WalkReturns, Meets,
           TakesNode, DepthOfNode, DepthOfParent, DepthReturns, PlaceNode, LoopDone, Measuring,
           walkVars
    <2> QED
      BY <1>3, <2>1 DEF DepthInv
  <1>4. CASE ~HasCycle(drawn) /\ doing = "depths"
    <2>1. /\ Depths(drawn, depth) /\ Frames(drawn, walks, depth) /\ NodesReached /\ found = {}
      BY <1>4 DEF DepthInv, WalkInv, WalkFindsCycles
    <2>2. CASE DepthOfNode
      <3>1. PICK n : n = TakenNode
        OBVIOUS
      <3>2. /\ doing' = doing /\ drawn' = drawn /\ depth' = depth /\ walks = <<>>
            /\ turns' = turns + 1 /\ turns' \in 0 .. Len(drawn.nodes) /\ n = drawn.nodes[turns + 1]
            /\ walks' = IF Known(n) THEN walks ELSE <<CallOn(n, Parents(drawn, n))>>
        BY <1>1, <2>1, <2>2, <3>1 DEF DepthOfNode, TakesNode, TakenNode, Measuring
      <3>3. n \in Ids(drawn)
        BY <1>1, <3>2
      <3>4. \A i \in 1 .. turns' : i = turns + 1 \/ i \in 1 .. turns
        BY <1>1, <3>2
      <3>5. CASE Known(n)
        <4>1. walks' = <<>>
          BY <3>2, <3>5
        <4>2. \A i \in 1 .. turns' : drawn.nodes[i] \in DOMAIN depth
          BY <2>1, <3>2, <3>4, <3>5 DEF NodesReached, Known
        <4> QED
          BY <1>4, <2>1, <3>2, <4>1, <4>2 DEF DepthInv, NodesReached
      <3>6. CASE ~Known(n)
        <4>1. PICK f, s : f = CallOn(n, Parents(drawn, n)) /\ s = <<f>>
          OBVIOUS
        <4>2. /\ f \in Frame(drawn) /\ f.node = n /\ f.left = Parents(drawn, n) /\ f.deepest = 0
          BY <1>1, <3>3, <4>1, EdgesOf DEF Frame, CallOn, Mentioned
        <4>3. s \in Seq(Frame(drawn)) /\ DOMAIN s = {1} /\ s[1] = f
          BY <4>1, <4>2
        <4>4. Frames(drawn, s, depth)
          BY <3>6, <4>2, <4>3 DEF Frames, Reaches, Known
        <4>5. walks' = s /\ s # <<>>
          BY <3>2, <3>6, <4>1
        <4>6. \A i \in 1 .. turns' : drawn.nodes[i] \in DOMAIN depth \/ s[1].node = drawn.nodes[i]
          BY <2>1, <3>2, <3>4, <4>2, <4>3 DEF NodesReached
        <4> QED
          BY <1>4, <2>1, <3>2, <4>4, <4>5, <4>6 DEF DepthInv, NodesReached
      <3> QED
        BY <3>5, <3>6
    <2>3. ASSUME NEW p \in Ahead, DepthOfParent(p) PROVE DepthInv'
      <3>1. /\ doing' = doing /\ drawn' = drawn /\ depth' = depth /\ turns' = turns
            /\ walks # <<>> /\ p \in walks[Len(walks)].left
        BY <2>3 DEF DepthOfParent, Measuring, Ahead, Inner
      <3>2. /\ Len(walks) \in Nat \ {0} /\ DOMAIN walks = 1 .. Len(walks)
            /\ walks \in Seq(Frame(drawn))
        BY <2>1, <3>1 DEF Frames
      <3>9. 1 \in 1 .. Len(walks) /\ Len(walks) \in 1 .. Len(walks)
        BY <3>2
      <3>3. PICK t : t = TakenFrom(walks, p)
        OBVIOUS
      <3>4. t \in Seq(Frame(drawn)) /\ LessOne(walks, t, p)
        BY <3>1, <3>2, <3>3, TakeFacts
      <3>5. Took(p) = t
        BY <3>3 DEF Took, TakenFrom
      <3>6. ~Known(p) => ~Seen(p)
        BY <1>1, <1>4, <2>1, <3>1, SeenIsCyclic DEF Seen
      <3>7. CASE Known(p)
        <4>1. PICK e : e = Deeper(walks[Len(walks)].deepest, depth[p])
          OBVIOUS
        <4>2. Deeper(t[Len(walks)].deepest, depth[p]) = e
          BY <3>4, <3>9, <4>1 DEF LessOne
        <4>3. walks' = [t EXCEPT ![Len(walks)].deepest = e]
          BY <2>3, <3>5, <3>7, <4>2 DEF DepthOfParent
        <4>4. Counting(walks, walks', p, e)
          BY <3>1, <3>3, <4>3 DEF Counting
        <4>5. p \in DOMAIN depth
          BY <3>7 DEF Known
        <4>6. Frames(drawn, walks', depth)
          BY <1>1, <2>1, <4>1, <4>4, <4>5, CountKeeps
        <4>7. walks' # <<>> /\ walks'[1].node = walks[1].node
          <5>1. depth[p] \in Nat /\ walks[Len(walks)].deepest \in Nat
            <6>1. walks[Len(walks)] \in Frame(drawn)
              BY <3>2, ElementOfSeq
            <6> QED
              BY <2>1, <4>5, <6>1 DEF Depths, Frame
          <5>2. e \in Nat
            BY <4>1, <5>1, DeeperFacts
          <5>3. Counted(walks, walks', p, e)
            BY <3>2, <4>4, <5>2, CountFacts
          <5>4. DOMAIN walks' # {} /\ walks'[1].node = walks[1].node
            BY <3>9, <5>3 DEF Counted
          <5> QED
            BY <5>4
        <4> QED
          BY <1>4, <2>1, <3>1, <4>6, <4>7 DEF DepthInv, NodesReached
      <3>8. CASE ~Known(p)
        <4>1. PICK u : u = Append(t, CallOn(p, Parents(drawn, p)))
          OBVIOUS
        <4>2. walks' = u
          BY <2>3, <3>5, <3>6, <3>8, <4>1 DEF DepthOfParent
        <4>3. p \notin DOMAIN depth /\ \A i \in DOMAIN walks : walks[i].node # p
          BY <3>6, <3>8 DEF Known, Seen
        <4>4. Frames(drawn, u, depth)
          BY <1>1, <2>1, <3>1, <3>3, <4>1, <4>3, ParentKeeps
        <4>5. u # <<>> /\ u[1].node = walks[1].node
          <5>1. PICK f : f = CallOn(p, Parents(drawn, p))
            OBVIOUS
          <5>2. u = Append(t, f) /\ Len(t) = Len(walks) /\ t[1].node = walks[1].node
            BY <3>4, <3>9, <4>1, <5>1 DEF LessOne
          <5>3. u[1] = t[1] /\ u # <<>>
            BY <3>2, <3>4, <5>2
          <5> QED
            BY <5>2, <5>3
        <4> QED
          BY <1>4, <2>1, <3>1, <4>2, <4>4, <4>5 DEF DepthInv, NodesReached
      <3> QED
        BY <3>7, <3>8
    <2>4. CASE DepthReturns
      <3>1. /\ doing' = doing /\ drawn' = drawn /\ turns' = turns
            /\ walks # <<>> /\ walks[Len(walks)].left = {}
        BY <2>4 DEF DepthReturns, Measuring, Ahead, Inner
      <3>2. /\ Len(walks) \in Nat \ {0} /\ DOMAIN walks = 1 .. Len(walks)
            /\ walks \in Seq(Frame(drawn))
        BY <2>1, <3>1 DEF Frames
      <3>3. Len(Returned) = Len(walks) - 1 /\ DOMAIN Returned = 1 .. Len(walks) - 1
        BY <3>1, <3>2, PopFacts DEF Returned
      <3>4. Settling(walks, depth, walks', depth')
        BY <2>4, <3>1, <3>3 DEF Settling, DepthReturns, WithDepth, Inner
      <3>5. /\ Frames(drawn, walks', depth') /\ Depths(drawn, depth')
            /\ DOMAIN depth' = DOMAIN depth \cup {walks[Len(walks)].node}
            /\ Len(walks) > 1 => walks' # <<>> /\ walks'[1].node = walks[1].node
        BY <1>1, <2>1, <3>4, SettleKeeps
      <3>6. Len(walks) > 1 \/ Len(walks) = 1
        BY <3>2
      <3>7. ASSUME NEW i \in 1 .. turns
            PROVE  \/ drawn.nodes[i] \in DOMAIN depth'
                   \/ walks' # <<>> /\ walks'[1].node = drawn.nodes[i]
        BY <2>1, <3>5, <3>6 DEF NodesReached
      <3> QED
        BY <1>4, <3>1, <3>5, <3>7 DEF DepthInv, NodesReached
    <2>5. CASE LoopDone("depths", "rows")
      <3>1. /\ doing' = "rows" /\ drawn' = drawn /\ depth' = depth /\ walks = <<>>
            /\ turns = Len(drawn.nodes)
        BY <2>5 DEF LoopDone
      <3>2. Ids(drawn) \subseteq DOMAIN depth
        BY <1>1, <2>1, <3>1 DEF NodesReached
      <3> QED
        BY <1>4, <2>1, <3>1, <3>2 DEF DepthInv
    <2>6. \/ DepthOfNode \/ DepthReturns \/ \E p \in Ahead : DepthOfParent(p)
          \/ LoopDone("depths", "rows") \/ UNCHANGED walkVars
      BY <1>4 DEF WalkNext, FindCycle, AutoLayout, WalkNode, WalkOn, WalkHits, WalkReturns, Meets,
           TakesNode, PlaceNode, LoopDone
    <2> QED
      BY <1>2, <2>2, <2>3, <2>4, <2>5, <2>6
  <1>5. CASE ~HasCycle(drawn) /\ doing \in {"rows", "over"}
    <2>1. drawn' = drawn /\ depth' = depth /\ doing' \in {"rows", "over"}
      BY <1>5 DEF WalkNext, FindCycle, AutoLayout, WalkNode, WalkOn, WalkHits, WalkReturns, Meets,
           TakesNode, DepthOfNode, DepthOfParent, DepthReturns, PlaceNode, LoopDone, Measuring,
           walkVars
    <2> QED
      BY <1>5, <2>1 DEF DepthInv
  <1> QED
    BY <1>2, <1>3, <1>4, <1>5 DEF WalkInv

LEMMA DepthsAreLayers == WalkInv /\ DepthInv => LayersAreDepths
  <1> SUFFICES ASSUME WalkInv, DepthInv, doing \in {"rows", "over"}, ~HasCycle(drawn),
                      NEW n \in Ids(drawn)
               PROVE  /\ \A p \in Parents(drawn, n) : depth[p] < depth[n]
                      /\ depth[n] = 0 \/ \E p \in Parents(drawn, n) : depth[n] = depth[p] + 1
    BY DEF LayersAreDepths
  <1>1. n \in DOMAIN depth /\ Depths(drawn, depth)
    BY DEF DepthInv
  <1> QED
    BY <1>1 DEF Depths, Exceeds, Reaches

(* The rows: in each layer those below the number of nodes placed are      *)
(* taken.                                                                  *)
RowIn(counts, d) == IF d \in DOMAIN counts THEN counts[d] ELSE 0

RowsInv ==
    /\ doing \in {"search", "depths"} => DOMAIN places = {} /\ DOMAIN perLayer = {}
    /\ doing = "rows" => DOMAIN places \subseteq 1 .. turns
    /\ \A d \in DOMAIN perLayer : perLayer[d] \in Nat
    /\ \A i \in DOMAIN places :
         /\ places[i] = <<depth[drawn.nodes[i]], places[i][2]>>
         /\ places[i][2] \in Nat /\ places[i][2] < RowIn(perLayer, places[i][1])
    /\ \A i, j \in DOMAIN places : places[i] = places[j] => i = j

LEMMA RowsStart == WalkInit => RowsInv
  BY DEF WalkInit, RowsInv

LEMMA RowSteps == WalkInv /\ RowsInv /\ [WalkNext]_walkVars => RowsInv'
  <1> SUFFICES ASSUME WalkInv, RowsInv, [WalkNext]_walkVars PROVE RowsInv'
    OBVIOUS
  <1>1. CASE PlaceNode /\ ~UNCHANGED <<perLayer, places>>
    <2>1. PICK k, d, r : k = turns + 1 /\ d = depth[TakenNode] /\ r = RowIn(perLayer, d)
      OBVIOUS
    <2>2. /\ doing = "rows" /\ doing' = doing /\ drawn' = drawn /\ depth' = depth /\ turns' = k
          /\ places' = [i \in DOMAIN places \cup {k} |-> IF i = k THEN <<d, r>> ELSE places[i]]
          /\ perLayer' = [c \in DOMAIN perLayer \cup {d} |-> IF c = d THEN r + 1 ELSE perLayer[c]]
          /\ d = depth[drawn.nodes[k]]
      BY <1>1, <2>1 DEF PlaceNode, TakesNode, RowTaken, Row, RowIn, TakenNode
    <2>3. turns \in Nat
      BY DrawingsAssumption, NodeFacts DEF WalkInv, TurnsInRange
    <2>4. k \notin DOMAIN places /\ DOMAIN places \cup {k} \subseteq 1 .. k
      BY <2>1, <2>2, <2>3 DEF RowsInv
    <2>5. r \in Nat /\ r < r + 1
      BY <2>1 DEF RowsInv, RowIn
    <2>6. \A c \in DOMAIN perLayer' : perLayer'[c] \in Nat
      BY <2>2, <2>5 DEF RowsInv
    <2>7. ASSUME NEW i \in DOMAIN places
          PROVE  /\ places'[i] = places[i] /\ i # k
                 /\ places[i] = <<depth[drawn.nodes[i]], places[i][2]>>
                 /\ places[i][2] \in Nat /\ places[i][2] < RowIn(perLayer, places[i][1])
      BY <2>2, <2>4 DEF RowsInv
    <2>8. /\ RowIn(perLayer', d) = r + 1
          /\ \A c : c # d => RowIn(perLayer', c) = RowIn(perLayer, c)
      BY <2>2 DEF RowIn
    <2>9. ASSUME NEW i \in DOMAIN places
          PROVE  /\ places[i][2] < RowIn(perLayer', places[i][1]) /\ places[i] # <<d, r>>
      <3>1. CASE places[i][1] = d
        <4>1. places[i][2] \in Nat /\ places[i][2] < r
          BY <2>1, <2>7, <3>1
        <4>2. places[i][2] < r + 1 /\ places[i][2] # r
          BY <2>5, <4>1
        <4> QED
          BY <2>8, <3>1, <4>2
      <3>2. CASE places[i][1] # d
        BY <2>7, <2>8, <3>2
      <3> QED
        BY <3>1, <3>2
    <2>10. /\ DOMAIN places' = DOMAIN places \cup {k} /\ places'[k] = <<d, r>>
      BY <2>2
    <2>11. ASSUME NEW i \in DOMAIN places'
           PROVE  /\ places'[i] = <<depth[drawn.nodes[i]], places'[i][2]>>
                  /\ places'[i][2] \in Nat /\ places'[i][2] < RowIn(perLayer', places'[i][1])
      <3>1. CASE i = k
        BY <2>2, <2>5, <2>8, <2>10, <3>1
      <3>2. CASE i # k
        BY <2>7, <2>9, <2>10, <3>2
      <3> QED
        BY <3>1, <3>2
    <2>12. \A i, j \in DOMAIN places' : places'[i] = places'[j] => i = j
      BY <2>7, <2>9, <2>10 DEF RowsInv
    <2> QED
      BY <2>2, <2>4, <2>6, <2>10, <2>11, <2>12 DEF RowsInv
  <1>2. CASE ~(PlaceNode /\ ~UNCHANGED <<perLayer, places>>)
    <2>1. /\ places' = places /\ perLayer' = perLayer /\ drawn' = drawn
          /\ doing' \in {"search", "depths"} => doing \in {"search", "depths"}
          /\ doing' = "rows" => doing = "depths" \/ (doing = "rows" /\ turns' \in {turns, turns + 1})
          /\ doing \notin {"search", "depths"} => depth' = depth
      BY <1>2 DEF WalkInv, WalkNext, FindCycle, AutoLayout, WalkNode, WalkOn, WalkHits, WalkReturns,
           Meets, TakesNode, Searching, DepthOfNode, DepthOfParent, DepthReturns, PlaceNode,
           LoopDone, Measuring, walkVars
    <2>2. turns \in Nat /\ 1 .. turns \subseteq 1 .. turns + 1
      <3>1. turns \in Nat
        BY DrawingsAssumption, NodeFacts DEF WalkInv, TurnsInRange
      <3> QED
        BY <3>1
    <2>4. doing' = "rows" => DOMAIN places \subseteq 1 .. turns'
      BY <2>1, <2>2 DEF RowsInv
    <2>5. \A i \in DOMAIN places : depth' = depth
      BY <2>1 DEF RowsInv, WalkInv
    <2> QED
      BY <2>1, <2>4, <2>5 DEF RowsInv
  <1> QED
    BY <1>1, <1>2

-----------------------------------------------------------------------------
LEMMA WalkSafety == WalkSpec => [](WalkInv /\ DepthInv /\ RowsInv)
  <1>1. WalkInit => WalkInv /\ DepthInv /\ RowsInv
    BY WalkStarts, DepthsStart, RowsStart
  <1>2. (WalkInv /\ DepthInv /\ RowsInv) /\ [WalkNext]_walkVars => (WalkInv /\ DepthInv /\ RowsInv)'
    BY WalkSteps, DepthSteps, RowSteps
  <1> QED
    BY <1>1, <1>2, PTL DEF WalkSpec

(* findCycle returns a node of a cycle exactly if there is one.            *)
THEOREM WalkFindsCyclesHolds == WalkSpec => []WalkFindsCycles
  BY WalkSafety, PTL DEF WalkInv

(* autoLayout's layers are the longest paths to the nodes.                 *)
THEOREM LayersAreDepthsHolds == WalkSpec => []LayersAreDepths
  BY WalkSafety, DepthsAreLayers, PTL

(* It puts no two nodes in one place.                                      *)
THEOREM PlacesApartHolds == WalkSpec => []PlacesApart
  <1>1. RowsInv => PlacesApart
    BY DEF RowsInv, PlacesApart
  <1> QED
    BY <1>1, WalkSafety, PTL

(* So both answer right, on any graph.                                     *)
THEOREM WalksAnswerRightHolds == WalkSpec => []WalksAnswerRight
  BY WalkFindsCyclesHolds, LayersAreDepthsHolds, PlacesApartHolds, PTL DEF WalksAnswerRight

-----------------------------------------------------------------------------
(* CapBoard.  What a roster says was so, and of an agent nothing else      *)
(* happened to it still is, but for one whose tier is being recorded.      *)
Caps == Tiers \cup {NoTier}
CardShape == [tier : Caps, cap : Caps]
Rosters == UNION {[S -> CardShape] : S \in SUBSET Agents}
Drop == [id : Nat, agent : Agents, tier : Tiers, mine : BOOLEAN,
         at : {"sent", "registered", "read"}, cards : Rosters, cap : Caps]

Confirmed(cards) ==
    \A a \in DOMAIN cards : cards[a].tier \in wasTier[a] \cup {NoTier} /\ cards[a].cap \in wasTier[a] \cup {NoTier}
Agrees(cards, a) ==
    a \in DOMAIN cards /\ cards[a].tier # NoTier =>
        cards[a].tier = chainTier[a] /\ cards[a].cap \in {chainTier[a], NoTier}
Landed(d) == d.at \in {"registered", "read"}
Untouched(a) == a \in Agents /\ a \notin disturbed

BoardTypeOK ==
    /\ chainTier \in [Agents -> Caps]
    /\ wasTier \in [Agents -> SUBSET Tiers]
    /\ roster \in Rosters
    /\ kept \in Rosters
    /\ drops \subseteq Drop
    /\ asked \in Nat

HistoryHolds ==
    /\ \A a \in Agents : chainTier[a] \in wasTier[a] \cup {NoTier}
    /\ Confirmed(roster)
    /\ Confirmed(kept)
    /\ \A d \in drops :
         /\ Confirmed(d.cards)
         /\ Landed(d) => d.tier \in wasTier[d.agent] \cup {NoTier}
         /\ d.cap \in wasTier[d.agent] \cup {NoTier}

CurrentHolds ==
    /\ \A a \in Agents : Untouched(a) /\ (\A d \in drops : Landed(d) => d.agent # a) => Agrees(roster, a)
    /\ \A d \in drops :
         /\ \A a \in Agents : Untouched(a) /\ a # d.agent => Agrees(d.cards, a)
         /\ Landed(d) /\ Untouched(d.agent) =>
              d.tier = chainTier[d.agent] /\ d.cap \in {chainTier[d.agent], NoTier}
         /\ d.mine \/ ~Untouched(d.agent)
         /\ \A e \in drops : d # e => ~Untouched(d.agent)
    /\ \A d \in drops : d.at = "sent" => d.cap = NoTier

BoardInv == BoardTypeOK /\ HistoryHolds /\ CurrentHolds

(* A roster is a function on some agents, from cards.                      *)
LEMMA RosterShape ==
    ASSUME NEW r
    PROVE  r \in Rosters <=>
             /\ r = [a \in DOMAIN r |-> r[a]]
             /\ DOMAIN r \subseteq Agents
             /\ \A a \in DOMAIN r : r[a] \in CardShape
  BY DEF Rosters

(* Saving may fail: what is stored is the old roster or the new.           *)
LEMMA PersistHolds ==
    ASSUME BoardInv, NEW cards \in Rosters, Persist(cards), Confirmed(cards),
           UNCHANGED <<chainTier, wasTier, asked, disturbed>>,
           drops' \subseteq drops,
           \A a \in Agents : Untouched(a) /\ (\A d \in drops' : Landed(d) => d.agent # a) =>
               Agrees(cards, a)
    PROVE  BoardInv'
  <1>1. BoardTypeOK'
    BY DEF BoardInv, BoardTypeOK, Persist
  <1>2. HistoryHolds'
    BY DEF BoardInv, HistoryHolds, Persist, Confirmed, Landed
  <1>3. CurrentHolds'
    BY DEF BoardInv, CurrentHolds, Persist, Agrees, Untouched, Landed
  <1> QED
    BY <1>1, <1>2, <1>3 DEF BoardInv

(* Adding and removing agents.                                             *)
LEMMA AddRemoveInv ==
    ASSUME BoardInv, NEW a \in Agents, AddAgent(a) \/ RemoveAgent(a)
    PROVE  BoardInv'
  <1>1. PICK cards :
          /\ cards \in {With(roster, a, Card(NoTier, NoTier)), Without(roster, a)}
          /\ Persist(cards)
          /\ UNCHANGED <<chainTier, wasTier, busyCard, drops, asked, disturbed>>
    BY DEF AddAgent, RemoveAgent
  <1>2. /\ cards = [b \in DOMAIN cards |-> cards[b]]
        /\ DOMAIN cards \subseteq DOMAIN roster \cup {a}
        /\ \A b \in DOMAIN cards :
             \/ cards[b] = [tier |-> NoTier, cap |-> NoTier]
             \/ b \in DOMAIN roster /\ cards[b] = roster[b]
    BY <1>1 DEF With, Without, Card
  <1>3. cards \in Rosters
    <2>1. roster \in Rosters
      BY DEF BoardInv, BoardTypeOK
    <2>2. [tier |-> NoTier, cap |-> NoTier] \in CardShape
      BY DEF CardShape, Caps
    <2> QED
      BY <1>2, <2>1, <2>2, RosterShape
  <1>4. Confirmed(cards)
    BY <1>2 DEF Confirmed, BoardInv, HistoryHolds
  <1>5. \A b : Agrees(roster, b) => Agrees(cards, b)
    BY <1>2 DEF Agrees
  <1> QED
    BY <1>1, <1>3, <1>4, <1>5, PersistHolds DEF BoardInv, CurrentHolds

(* Recording a tier.                                                       *)
LEMMA RecordTierInv ==
    ASSUME BoardInv, NEW d \in drops, RecordTier(d)
    PROVE  BoardInv'
  <1>1. PICK cards : cards = Recorded(d)
    OBVIOUS
  <1>2. d \in Drop /\ Landed(d)
    BY DEF BoardInv, BoardTypeOK, RecordTier, Landed
  <1>3. /\ cards = [b \in DOMAIN cards |-> cards[b]]
        /\ DOMAIN cards = DOMAIN d.cards
        /\ \A b \in DOMAIN cards :
             cards[b] = IF b = d.agent THEN [tier |-> d.tier, cap |-> d.cap] ELSE d.cards[b]
    BY <1>1 DEF Recorded, Card
  <1>4. cards \in Rosters
    <2>1. d.cards \in Rosters /\ [tier |-> d.tier, cap |-> d.cap] \in CardShape
      BY <1>2 DEF Drop, CardShape, Caps
    <2> QED
      BY <1>3, <2>1, RosterShape
  <1>5. Confirmed(cards)
    <2>1. Confirmed(d.cards) /\ d.tier \in wasTier[d.agent] \cup {NoTier}
                            /\ d.cap \in wasTier[d.agent] \cup {NoTier}
      BY <1>2 DEF BoardInv, HistoryHolds
    <2> QED
      BY <1>3, <2>1 DEF Confirmed
  <1>6. drops' = drops \ {d} /\ UNCHANGED <<chainTier, wasTier, asked, disturbed>>
    BY DEF RecordTier
  <1>7. CASE d.mine
    <2>1. ASSUME NEW a \in Agents, Untouched(a), \A e \in drops' : Landed(e) => e.agent # a
          PROVE  Agrees(cards, a)
      <3>1. CASE a = d.agent
        BY <1>2, <1>3, <2>1, <3>1 DEF Agrees, BoardInv, CurrentHolds
      <3>2. CASE a # d.agent
        BY <1>3, <2>1, <3>2 DEF Agrees, BoardInv, CurrentHolds
      <3> QED
        BY <3>1, <3>2
    <2>2. Persist(cards)
      BY <1>1, <1>7 DEF RecordTier
    <2> QED
      BY <1>4, <1>5, <1>6, <2>1, <2>2, PersistHolds
  <1>8. CASE ~d.mine
    <2>1. roster' = roster /\ kept' \in {kept, cards}
      BY <1>1, <1>8 DEF RecordTier
    <2>2. BoardTypeOK'
      BY <1>4, <1>6, <2>1 DEF BoardInv, BoardTypeOK
    <2>3. HistoryHolds'
      BY <1>5, <1>6, <2>1 DEF BoardInv, HistoryHolds, Confirmed, Landed
    <2>4. ~Untouched(d.agent)
      BY <1>8 DEF BoardInv, CurrentHolds
    <2>5. CurrentHolds'
      BY <1>6, <2>1, <2>4 DEF BoardInv, CurrentHolds, Agrees, Untouched, Landed
    <2> QED
      BY <2>2, <2>3, <2>5 DEF BoardInv
  <1> QED
    BY <1>7, <1>8

(* Leaving the board and opening it again.                                 *)
LEMMA ReopenInv ==
    ASSUME BoardInv, ReopenBoard
    PROVE  BoardInv'
  <1>1. /\ roster' = kept /\ UNCHANGED <<chainTier, wasTier, kept, asked>>
        /\ \A a : Untouched(a)' => /\ Untouched(a)
                                   /\ \A d \in drops : d.agent # a
                                   /\ a \in DOMAIN kept => a \in DOMAIN roster /\ roster[a] = kept[a]
    BY DEF ReopenBoard, Untouched
  <1>2. \A e \in drops' : \E d \in drops : e = [d EXCEPT !.mine = FALSE]
    BY DEF ReopenBoard
  <1>3. ASSUME NEW e \in drops'
        PROVE  /\ e \in Drop
               /\ \E d \in drops : /\ e.agent = d.agent /\ e.tier = d.tier /\ e.cap = d.cap
                                   /\ e.at = d.at /\ e.cards = d.cards
    <2>1. PICK d \in drops : e = [d EXCEPT !.mine = FALSE]
      BY <1>2
    <2>2. d \in Drop
      BY DEF BoardInv, BoardTypeOK
    <2> QED
      BY <2>1, <2>2 DEF Drop
  <1>4. BoardTypeOK'
    BY <1>1, <1>3 DEF BoardInv, BoardTypeOK
  <1>5. HistoryHolds'
    BY <1>1, <1>3 DEF BoardInv, HistoryHolds, Confirmed, Landed
  <1>6. ASSUME NEW a \in Agents, Untouched(a)'
        PROVE  Agrees(roster, a)'
    <2>1. Agrees(roster, a)
      BY <1>1, <1>6 DEF BoardInv, CurrentHolds
    <2> QED
      BY <1>1, <1>6, <2>1 DEF Agrees
  <1>7. ASSUME NEW e \in drops'
        PROVE  /\ ~Untouched(e.agent)'
               /\ \A a \in Agents : Untouched(a)' => Agrees(e.cards, a)'
               /\ e.at = "sent" => e.cap = NoTier
    BY <1>1, <1>3 DEF BoardInv, CurrentHolds, Agrees
  <1>8. CurrentHolds'
    BY <1>6, <1>7 DEF CurrentHolds
  <1> QED
    BY <1>4, <1>5, <1>8 DEF BoardInv

(* A card dropped on a tier.                                               *)
LEMMA AssignInv ==
    ASSUME BoardInv, NEW a \in Agents, NEW t \in Tiers, Assign(a, t)
    PROVE  BoardInv'
  <1>1. PICK d : d = [id |-> asked + 1, agent |-> a, tier |-> t, mine |-> TRUE,
                      at |-> "sent", cards |-> roster, cap |-> NoTier]
    OBVIOUS
  <1>2. /\ d \in Drop /\ d.agent = a /\ d.mine /\ d.at = "sent"
        /\ d.cards = roster /\ d.cap = NoTier
    BY <1>1 DEF Drop, Caps, BoardInv, BoardTypeOK
  <1>3. /\ drops' = drops \cup {d} /\ asked' = asked + 1
        /\ UNCHANGED <<chainTier, wasTier, roster, kept>>
    BY <1>1 DEF Assign
  <1>4. /\ \A b : Untouched(b)' => Untouched(b)
        /\ drops # {} => ~Untouched(a)' /\ \A e \in drops : ~Untouched(e.agent)'
    BY DEF Assign, Untouched
  <1>5. BoardTypeOK'
    BY <1>2, <1>3 DEF BoardInv, BoardTypeOK
  <1>6. HistoryHolds'
    BY <1>2, <1>3 DEF BoardInv, HistoryHolds, Confirmed, Landed
  <1>7. \A b \in Agents : Untouched(b)' => Agrees(roster, b)
    BY <1>4 DEF BoardInv, CurrentHolds
  <1>8. ASSUME NEW e \in drops'
        PROVE  /\ \A b \in Agents : Untouched(b)' /\ b # e.agent => Agrees(e.cards, b)'
               /\ Landed(e)' /\ Untouched(e.agent)' =>
                    e.tier = chainTier[e.agent] /\ e.cap \in {chainTier[e.agent], NoTier}
               /\ e.mine \/ ~Untouched(e.agent)'
               /\ \A f \in drops' : e # f => ~Untouched(e.agent)'
               /\ e.at = "sent" => e.cap = NoTier
    <2>1. CASE e \in drops
      BY <1>3, <1>4, <2>1 DEF BoardInv, CurrentHolds, Agrees, Landed
    <2>2. CASE e = d
      BY <1>2, <1>3, <1>4, <1>7, <2>2 DEF Agrees, Landed
    <2> QED
      BY <1>3, <2>1, <2>2
  <1>9. CurrentHolds'
    BY <1>3, <1>7, <1>8 DEF CurrentHolds, Agrees
  <1> QED
    BY <1>5, <1>6, <1>9 DEF BoardInv

(* A registration at the vault.                                            *)
LEMMA RegistersFacts ==
    ASSUME BoardInv, NEW a \in Agents, NEW t \in Tiers, Registers(a, t)
    PROVE  /\ chainTier' \in [Agents -> Caps]
           /\ wasTier' \in [Agents -> SUBSET Tiers]
           /\ chainTier'[a] = t /\ t \in wasTier'[a]
           /\ \A b \in Agents : wasTier[b] \subseteq wasTier'[b] /\ (b # a => chainTier'[b] = chainTier[b])
           /\ \A b \in Agents : chainTier'[b] \in wasTier'[b] \cup {NoTier}
           /\ \A r \in Rosters : Confirmed(r) => Confirmed(r)'
           /\ \A r \in Rosters, b \in Agents : b # a /\ Agrees(r, b) => Agrees(r, b)'
  <1>1. /\ chainTier' \in [Agents -> Caps]
        /\ wasTier' \in [Agents -> SUBSET Tiers]
        /\ chainTier'[a] = t /\ t \in wasTier'[a]
        /\ \A b \in Agents : wasTier[b] \subseteq wasTier'[b] /\ (b # a => chainTier'[b] = chainTier[b])
    BY DEF Registers, BoardInv, BoardTypeOK, Caps
  <1>2. \A b \in Agents : chainTier'[b] \in wasTier'[b] \cup {NoTier}
    BY <1>1 DEF BoardInv, HistoryHolds
  <1>3. \A r \in Rosters : Confirmed(r) => Confirmed(r)'
    BY <1>1, RosterShape DEF Confirmed
  <1>4. \A r \in Rosters, b \in Agents : b # a /\ Agrees(r, b) => Agrees(r, b)'
    BY <1>1 DEF Agrees
  <1> QED
    BY <1>1, <1>2, <1>3, <1>4

(* A registration that nobody, or nobody any more, waits for.              *)
LEMMA UnheardInv ==
    ASSUME BoardInv, NEW a \in Agents, NEW t \in Tiers, Registers(a, t),
           drops' \subseteq drops, disturbed' = disturbed \cup {a}, asked' \in Nat,
           UNCHANGED <<roster, kept>>,
           \A d \in drops \ drops' : ~Landed(d)
    PROVE  BoardInv'
  <1>1. BoardTypeOK'
    BY RegistersFacts DEF BoardInv, BoardTypeOK
  <1>2. \A d \in drops' : d \in drops /\ d \in Drop /\ d.cards \in Rosters /\ d.agent \in Agents
    BY DEF BoardInv, BoardTypeOK, Drop
  <1>3. HistoryHolds'
    <2>1. Confirmed(roster)' /\ Confirmed(kept)'
      <3>1. \A r \in Rosters : Confirmed(r) => Confirmed(r)'
        BY RegistersFacts
      <3>2. /\ roster \in Rosters /\ kept \in Rosters /\ Confirmed(roster) /\ Confirmed(kept)
        BY DEF BoardInv, BoardTypeOK, HistoryHolds
      <3>3. roster' = roster /\ kept' = kept
        OBVIOUS
      <3> QED
        BY <3>1, <3>2, <3>3 DEF Confirmed
    <2>2. \A d \in drops' : Confirmed(d.cards)'
      BY <1>2, RegistersFacts DEF BoardInv, HistoryHolds
    <2>3. \A d \in drops' : /\ Landed(d)' => d.tier \in wasTier'[d.agent] \cup {NoTier}
                            /\ d.cap \in wasTier'[d.agent] \cup {NoTier}
      BY <1>2, RegistersFacts DEF BoardInv, HistoryHolds, Landed
    <2> QED
      BY <2>1, <2>2, <2>3, RegistersFacts DEF HistoryHolds
  <1>4. \A b : Untouched(b)' => Untouched(b) /\ b # a
    BY DEF Untouched
  <1>5. ASSUME NEW b \in Agents, Untouched(b)', \A d \in drops' : Landed(d)' => d.agent # b
        PROVE  Agrees(roster, b)'
    <2>1. Agrees(roster, b) /\ roster \in Rosters
      BY <1>4, <1>5 DEF BoardInv, BoardTypeOK, CurrentHolds, Landed
    <2> QED
      BY <1>4, <1>5, <2>1, RegistersFacts DEF Agrees
  <1>6. ASSUME NEW d \in drops'
        PROVE  /\ \A b \in Agents : Untouched(b)' /\ b # d.agent => Agrees(d.cards, b)'
               /\ Landed(d)' /\ Untouched(d.agent)' =>
                    d.tier = chainTier'[d.agent] /\ d.cap \in {chainTier'[d.agent], NoTier}
               /\ d.mine \/ ~Untouched(d.agent)'
               /\ \A e \in drops' : d # e => ~Untouched(d.agent)'
               /\ d.at = "sent" => d.cap = NoTier
    BY <1>2, <1>4, RegistersFacts DEF BoardInv, CurrentHolds, Landed
  <1>7. CurrentHolds'
    BY <1>5, <1>6 DEF CurrentHolds
  <1> QED
    BY <1>1, <1>3, <1>7 DEF BoardInv

(* A registration that is mined and answered.                              *)
LEMMA RegisterDoneInv ==
    ASSUME BoardInv, NEW d \in drops, RegisterDone(d)
    PROVE  BoardInv'
  <1>1. PICK e : e = [d EXCEPT !.at = "registered"]
    OBVIOUS
  <1>2. /\ d \in Drop /\ d.agent \in Agents /\ d.tier \in Tiers /\ d.at = "sent" /\ d.cap = NoTier
        /\ d.cards \in Rosters
    BY DEF BoardInv, BoardTypeOK, CurrentHolds, Drop, RegisterDone
  <1>3. /\ e \in Drop /\ e.agent = d.agent /\ e.tier = d.tier /\ e.cap = NoTier
        /\ e.at = "registered" /\ e.mine = d.mine /\ e.cards = d.cards
    BY <1>1, <1>2 DEF Drop
  <1>4. /\ Registers(d.agent, d.tier) /\ drops' = (drops \ {d}) \cup {e}
        /\ UNCHANGED <<roster, kept, busyCard, asked, disturbed>>
    BY <1>1 DEF RegisterDone
  <1>5. /\ chainTier' \in [Agents -> Caps]
        /\ wasTier' \in [Agents -> SUBSET Tiers]
        /\ chainTier'[d.agent] = d.tier /\ d.tier \in wasTier'[d.agent]
        /\ \A b \in Agents : wasTier[b] \subseteq wasTier'[b]
        /\ \A b \in Agents : chainTier'[b] \in wasTier'[b] \cup {NoTier}
        /\ \A r \in Rosters : Confirmed(r) => Confirmed(r)'
        /\ \A r \in Rosters, b \in Agents : b # d.agent /\ Agrees(r, b) => Agrees(r, b)'
    BY <1>2, <1>4, RegistersFacts
  <1>6. \A f \in drops' : f.cards \in Rosters /\ f.agent \in Agents /\ f \in Drop
    BY <1>2, <1>3, <1>4 DEF BoardInv, BoardTypeOK, Drop
  <1>7. BoardTypeOK'
    BY <1>4, <1>5, <1>6 DEF BoardInv, BoardTypeOK
  <1>8. HistoryHolds'
    <2>1. Confirmed(roster)' /\ Confirmed(kept)'
      <3>1. roster \in Rosters /\ kept \in Rosters /\ Confirmed(roster) /\ Confirmed(kept)
        BY DEF BoardInv, BoardTypeOK, HistoryHolds
      <3>2. \A a \in Agents : wasTier[a] \subseteq wasTier'[a]
        BY <1>5
      <3> QED
        BY <1>4, <3>1, <3>2, RosterShape DEF Confirmed
    <2>2. \A f \in drops' : Confirmed(f.cards)'
      BY <1>3, <1>4, <1>5, <1>6 DEF BoardInv, HistoryHolds
    <2>3. \A f \in drops' : /\ Landed(f)' => f.tier \in wasTier'[f.agent] \cup {NoTier}
                            /\ f.cap \in wasTier'[f.agent] \cup {NoTier}
      BY <1>3, <1>4, <1>5, <1>6 DEF BoardInv, HistoryHolds, Landed
    <2> QED
      BY <1>5, <2>1, <2>2, <2>3 DEF HistoryHolds
  <1>9. \A b : Untouched(b)' <=> Untouched(b)
    BY <1>4 DEF Untouched
  <1>10. \A f \in drops : f # d => ~Untouched(f.agent) /\ ~Untouched(d.agent)
    BY DEF BoardInv, CurrentHolds
  <1>11. ASSUME NEW b \in Agents, Untouched(b)', \A f \in drops' : Landed(f)' => f.agent # b
         PROVE  Agrees(roster, b)'
    <2>1. b # d.agent
      BY <1>3, <1>4, <1>11 DEF Landed
    <2>2. Agrees(roster, b) /\ roster \in Rosters
      BY <1>2, <1>4, <1>9, <1>11, <2>1 DEF BoardInv, BoardTypeOK, CurrentHolds, Landed
    <2> QED
      BY <1>4, <1>5, <2>1, <2>2 DEF Agrees
  <1>12. ASSUME NEW f \in drops'
         PROVE  /\ \A b \in Agents : Untouched(b)' /\ b # f.agent => Agrees(f.cards, b)'
                /\ Landed(f)' /\ Untouched(f.agent)' =>
                     f.tier = chainTier'[f.agent] /\ f.cap \in {chainTier'[f.agent], NoTier}
                /\ f.mine \/ ~Untouched(f.agent)'
                /\ \A g \in drops' : f # g => ~Untouched(f.agent)'
                /\ f.at = "sent" => f.cap = NoTier
    <2>1. CASE f = e
      BY <1>2, <1>3, <1>4, <1>5, <1>9, <1>10, <2>1 DEF BoardInv, CurrentHolds
    <2>2. CASE f # e
      <3>1. f \in drops /\ f # d
        BY <1>4, <2>2
      <3> QED
        BY <1>5, <1>6, <1>9, <1>10, <3>1 DEF BoardInv, CurrentHolds
    <2> QED
      BY <2>1, <2>2
  <1>13. CurrentHolds'
    BY <1>11, <1>12 DEF CurrentHolds
  <1> QED
    BY <1>7, <1>8, <1>13 DEF BoardInv

(* The cap read back.                                                      *)
LEMMA ReadBackInv ==
    ASSUME BoardInv, NEW d \in drops, ReadBack(d)
    PROVE  BoardInv'
  <1>1. PICK cap \in {chainTier[d.agent], NoTier} :
          drops' = (drops \ {d}) \cup {[d EXCEPT !.at = "read", !.cap = cap]}
    BY DEF ReadBack
  <1>2. PICK e : e = [d EXCEPT !.at = "read", !.cap = cap]
    OBVIOUS
  <1>3. d \in Drop /\ d.agent \in Agents /\ Landed(d) /\ cap \in Caps
        /\ cap \in wasTier[d.agent] \cup {NoTier}
    BY DEF BoardInv, BoardTypeOK, HistoryHolds, Drop, ReadBack, Landed, Caps
  <1>4. /\ e \in Drop /\ e.agent = d.agent /\ e.tier = d.tier /\ e.cap = cap
        /\ e.at = "read" /\ e.mine = d.mine /\ e.cards = d.cards
    BY <1>2, <1>3 DEF Drop
  <1>5. /\ drops' = (drops \ {d}) \cup {e}
        /\ UNCHANGED <<chainTier, wasTier, roster, kept, busyCard, asked, disturbed>>
    BY <1>1, <1>2 DEF ReadBack
  <1>6. BoardTypeOK'
    BY <1>4, <1>5 DEF BoardInv, BoardTypeOK
  <1>7. HistoryHolds'
    BY <1>3, <1>4, <1>5 DEF BoardInv, HistoryHolds, Confirmed, Landed
  <1>8. ASSUME NEW f \in drops'
        PROVE  /\ \A b \in Agents : Untouched(b)' /\ b # f.agent => Agrees(f.cards, b)'
               /\ Landed(f)' /\ Untouched(f.agent)' =>
                    f.tier = chainTier'[f.agent] /\ f.cap \in {chainTier'[f.agent], NoTier}
               /\ f.mine \/ ~Untouched(f.agent)'
               /\ \A g \in drops' : f # g => ~Untouched(f.agent)'
               /\ f.at = "sent" => f.cap = NoTier
    <2>1. CASE f = e
      BY <1>3, <1>4, <1>5, <2>1 DEF BoardInv, CurrentHolds, Untouched, Agrees
    <2>2. CASE f # e
      BY <1>5, <2>2 DEF BoardInv, CurrentHolds, Untouched, Agrees, Landed
    <2> QED
      BY <2>1, <2>2
  <1>9. ASSUME NEW b \in Agents, Untouched(b)', \A f \in drops' : Landed(f)' => f.agent # b
        PROVE  Agrees(roster, b)'
    BY <1>3, <1>4, <1>5, <1>9 DEF BoardInv, CurrentHolds, Untouched, Agrees, Landed
  <1>10. CurrentHolds'
    BY <1>8, <1>9 DEF CurrentHolds
  <1> QED
    BY <1>6, <1>7, <1>10 DEF BoardInv

(* A registration that fails, or is mined and its answer lost.             *)
LEMMA RegisterFailsInv ==
    ASSUME BoardInv, NEW d \in drops, RegisterFails(d)
    PROVE  BoardInv'
  <1>1. /\ d \in Drop /\ d.agent \in Agents /\ d.tier \in Tiers /\ d.at = "sent"
        /\ roster' = roster /\ kept' = kept /\ asked' = asked /\ drops' = drops \ {d}
        /\ roster \in Rosters /\ asked \in Nat
    BY DEF BoardInv, BoardTypeOK, Drop, RegisterFails, OnFailure
  <1>2. CASE UNCHANGED <<chainTier, wasTier, disturbed>>
    <2>1. Persist(roster)
      BY <1>1 DEF Persist
    <2>2. Confirmed(roster)
      BY DEF BoardInv, HistoryHolds
    <2>3. \A a \in Agents : Untouched(a) /\ (\A e \in drops' : Landed(e) => e.agent # a) =>
            Agrees(roster, a)
      BY <1>1 DEF BoardInv, CurrentHolds, Landed
    <2> QED
      BY <1>1, <1>2, <2>1, <2>2, <2>3, PersistHolds
  <1>3. CASE Registers(d.agent, d.tier) /\ disturbed' = disturbed \cup {d.agent}
    <2>1. \A e \in drops \ drops' : ~Landed(e)
      BY <1>1 DEF Landed
    <2> QED
      BY <1>1, <1>3, <2>1, UnheardInv
  <1> QED
    BY <1>2, <1>3 DEF RegisterFails

(* Every tier on the board, or kept for its next opening, was that agent's *)
(* cap, and so was every cap read back; without anything else happening to *)
(* that agent it still is.                                                 *)
THEOREM TierWasConfirmedHolds == BoardSpec => []TierWasConfirmed
  <1>1. BoardInit => BoardInv
    <2> SUFFICES ASSUME BoardInit PROVE BoardInv
      OBVIOUS
    <2>1. PICK before \in Before :
            /\ chainTier = [a \in Agents |-> IF a \in DOMAIN before THEN before[a] ELSE NoTier]
            /\ wasTier = [a \in Agents |-> {chainTier[a]} \ {NoTier}]
            /\ roster = [a \in DOMAIN before |-> Card(before[a], before[a])] /\ kept = roster
      BY DEF BoardInit
    <2>2. DOMAIN before \subseteq Agents /\ \A a \in DOMAIN before : before[a] \in Tiers
      BY BoardAssumption
    <2>3. /\ DOMAIN roster = DOMAIN before
          /\ \A a \in DOMAIN roster : roster[a] = [tier |-> before[a], cap |-> before[a]]
                                      /\ chainTier[a] = before[a] /\ a \in Agents
      BY <2>1, <2>2 DEF Card
    <2>4. roster \in Rosters
      <3>1. roster = [a \in DOMAIN roster |-> roster[a]]
        BY <2>1
      <3> QED
        BY <2>2, <2>3, <3>1, RosterShape DEF CardShape, Caps
    <2>5. chainTier \in [Agents -> Caps] /\ wasTier \in [Agents -> SUBSET Tiers]
      BY <2>1, <2>2 DEF Caps
    <2>6. BoardTypeOK
      BY <2>1, <2>4, <2>5 DEF BoardInit, BoardTypeOK
    <2>7. drops = {} /\ kept = roster
      BY <2>1 DEF BoardInit
    <2>8. HistoryHolds
      <3>1. \A a \in Agents : wasTier[a] = {chainTier[a]} \ {NoTier}
        BY <2>1
      <3>2. ASSUME NEW a \in DOMAIN roster
            PROVE  /\ roster[a].tier \in wasTier[a] \cup {NoTier}
                   /\ roster[a].cap \in wasTier[a] \cup {NoTier}
        <4>1. roster[a].tier = chainTier[a] /\ roster[a].cap = chainTier[a] /\ a \in Agents
          BY <2>3
        <4> QED
          BY <3>1, <4>1
      <3> QED
        BY <2>7, <3>1, <3>2 DEF HistoryHolds, Confirmed
    <2>9. CurrentHolds
      <3>1. \A a : Agrees(roster, a)
        BY <2>3 DEF Agrees
      <3> QED
        BY <2>7, <3>1 DEF CurrentHolds
    <2> QED
      BY <2>6, <2>8, <2>9 DEF BoardInv
  <1>2. BoardInv /\ [BoardNext]_boardVars => BoardInv'
    <2> SUFFICES ASSUME BoardInv, [BoardNext]_boardVars PROVE BoardInv'
      OBVIOUS
    <2>1. CASE ReopenBoard
      BY <2>1, ReopenInv
    <2>2. ASSUME NEW a \in Agents, AddAgent(a) \/ RemoveAgent(a) PROVE BoardInv'
      BY <2>2, AddRemoveInv
    <2>3. ASSUME NEW a \in Agents, NEW t \in Tiers, Assign(a, t) PROVE BoardInv'
      BY <2>3, AssignInv
    <2>4. ASSUME NEW a \in Agents, NEW t \in Tiers, RegisterElsewhere(a, t) PROVE BoardInv'
      <3>1. asked' \in Nat /\ drops' = drops
        BY <2>4 DEF RegisterElsewhere, BoardInv, BoardTypeOK
      <3> QED
        BY <2>4, <3>1, UnheardInv DEF RegisterElsewhere
    <2>5. ASSUME NEW d \in drops, RegisterDone(d) \/ ReadBack(d) \/ RecordTier(d) \/ RegisterFails(d)
          PROVE  BoardInv'
      BY <2>5, RegisterDoneInv, ReadBackInv, RecordTierInv, RegisterFailsInv
    <2>6. CASE UNCHANGED boardVars
      BY <2>6 DEF boardVars, BoardInv, BoardTypeOK, HistoryHolds, CurrentHolds, Confirmed,
                  Agrees, Landed, Untouched
    <2> QED
      BY <2>1, <2>2, <2>3, <2>4, <2>5, <2>6 DEF BoardNext
  <1>3. BoardInv => TierWasConfirmed
    <2> SUFFICES ASSUME BoardInv, NEW cards \in {roster, kept}, NEW a \in DOMAIN cards
                 PROVE  /\ {cards[a].tier, cards[a].cap} \subseteq wasTier[a] \cup {NoTier}
                        /\ /\ cards = roster /\ cards[a].tier # NoTier
                           /\ a \notin disturbed \cup {d.agent : d \in drops}
                           => cards[a].tier = chainTier[a] /\ cards[a].cap \in {chainTier[a], NoTier}
      BY DEF TierWasConfirmed
    <2>1. Confirmed(cards) /\ a \in Agents
      BY RosterShape DEF BoardInv, BoardTypeOK, HistoryHolds
    <2>2. cards = roster /\ a \notin disturbed \cup {d.agent : d \in drops} => Agrees(roster, a)
      BY <2>1 DEF BoardInv, CurrentHolds, Untouched
    <2> QED
      BY <2>1, <2>2 DEF Confirmed, Agrees
  <1> QED
    BY <1>1, <1>2, <1>3, PTL DEF BoardSpec

-----------------------------------------------------------------------------
(* ApiPublisher.  What a page knows of the rows stays true of them, since  *)
(* rows are appended only: lists, the row it has opened, those it tests.   *)
ApiRow == [name : RowNames, slug : TypedSlugs \cup {Slug(n) : n \in RowNames}]
TestCall == [test : Nat, state : {"sent", "answered"}, row : Nat]

Reached(c) ==
    LET slug == rows[c.row].slug
    IN slug # Blank /\ slug = LowerCase(slug) =>
         c.by \in c.row .. Len(rows) /\ Bears(rows[c.by], slug)

PagesInv ==
    /\ rows \in Seq(ApiRow)
    /\ apisShown \in 0 .. Len(rows)
    /\ apiLoads \subseteq 0 .. Len(rows) \cup {Asked}
    /\ instance \in Nat
    /\ view = "detail" => opened \in 1 .. Len(rows)
    /\ \A q \in posts : q.body \in Filled
    /\ calls \subseteq TestCall
    /\ \A c \in calls : c.row \in 1 .. Len(rows)
    /\ \A c \in answered : c.row \in 1 .. Len(rows) /\ Reached(c)

(* A row more takes nothing back.                                          *)
LEMMA RowMore ==
    ASSUME PagesInv, NEW row \in ApiRow, rows' = Append(rows, row)
    PROVE  /\ rows' \in Seq(ApiRow) /\ Len(rows') = Len(rows) + 1
           /\ 0 .. Len(rows) \subseteq 0 .. Len(rows')
           /\ 1 .. Len(rows) \subseteq 1 .. Len(rows')
           /\ \A i \in 1 .. Len(rows) : rows'[i] = rows[i]
           /\ \A c \in answered : c.row \in 1 .. Len(rows') /\ Reached(c)'
  <1>1. /\ rows' \in Seq(ApiRow) /\ Len(rows) \in Nat /\ Len(rows') = Len(rows) + 1
        /\ \A i \in 1 .. Len(rows) : rows'[i] = rows[i]
    BY DEF PagesInv
  <1>2. /\ 0 .. Len(rows) \subseteq 0 .. Len(rows')
        /\ 1 .. Len(rows) \subseteq 1 .. Len(rows')
    BY <1>1
  <1>3. ASSUME NEW c \in answered PROVE c.row \in 1 .. Len(rows') /\ Reached(c)'
    <2>1. c.row \in 1 .. Len(rows) /\ Reached(c) /\ rows'[c.row] = rows[c.row]
      BY <1>1 DEF PagesInv
    <2>2. PICK slug : slug = rows[c.row].slug
      OBVIOUS
    <2>3. ASSUME slug # Blank, slug = LowerCase(slug)
          PROVE  c.by \in c.row .. Len(rows') /\ Bears(rows'[c.by], slug)
      <3>1. c.by \in c.row .. Len(rows) /\ Bears(rows[c.by], slug)
        BY <2>1, <2>2, <2>3 DEF Reached
      <3>2. c.by \in 1 .. Len(rows) /\ c.by \in c.row .. Len(rows')
        BY <1>1, <2>1, <3>1
      <3> QED
        BY <1>1, <3>1, <3>2
    <2> QED
      BY <1>2, <2>1, <2>2, <2>3 DEF Reached
  <1> QED
    BY <1>1, <1>2, <1>3

(* createApi, for the page or for somebody else.                           *)
LEMMA CreateApiInv ==
    ASSUME PagesInv, NEW body, CreateApi(body),
           \/ \E n \in RowNames : body = [name |-> n]
           \/ body \in Filled,
           UNCHANGED <<apisShown, apiLoads, view, opened, instance, calls, answered>>,
           \A q \in posts' : q.body \in Filled
    PROVE  PagesInv'
  <1>1. PICK row : row = [name |-> body.name,
                          slug |-> IF "slug" \in DOMAIN body THEN body.slug ELSE Slug(body.name)]
    OBVIOUS
  <1>2. row \in ApiRow
    <2>1. CASE \E n \in RowNames : body = [name |-> n]
      BY <1>1, <2>1 DEF ApiRow
    <2>2. CASE body \in Filled
      BY <1>1, <2>2 DEF ApiRow, Filled
    <2> QED
      BY <2>1, <2>2
  <1>3. rows' = Append(rows, row)
    BY <1>1 DEF CreateApi
  <1>4. /\ rows' \in Seq(ApiRow)
        /\ 0 .. Len(rows) \subseteq 0 .. Len(rows')
        /\ 1 .. Len(rows) \subseteq 1 .. Len(rows')
        /\ \A c \in answered : c.row \in 1 .. Len(rows') /\ Reached(c)'
    BY <1>2, <1>3, RowMore
  <1> QED
    BY <1>4 DEF PagesInv

(* getApi finds the newest row that bears a key, if any does.              *)
LEMMA GetApiFacts ==
    ASSUME rows \in Seq(ApiRow), NEW key, NEW i \in 1 .. Len(rows), Bears(rows[i], key)
    PROVE  GetApi(key) \in i .. Len(rows) /\ Bears(rows[GetApi(key)], key)
  <1> DEFINE bearers == {j \in DOMAIN rows : Bears(rows[j], key)}
  <1>1. /\ Len(rows) \in Nat /\ DOMAIN rows = 1 .. Len(rows)
        /\ bearers \in SUBSET Nat /\ i \in bearers /\ \A j \in bearers : j <= Len(rows)
    OBVIOUS
  <1>2. \E m \in bearers : \A j \in bearers : m >= j
    <2> HIDE DEF bearers
    <2> QED
      BY <1>1, GreatestNumber
  <1>3. Max(bearers) \in bearers /\ Max(bearers) >= i
    <2> HIDE DEF bearers
    <2> QED
      BY <1>1, <1>2 DEF Max
  <1>4. GetApi(key) = Max(bearers)
    BY <1>1 DEF GetApi
  <1>5. Max(bearers) \in DOMAIN rows /\ Bears(rows[Max(bearers)], key)
    BY <1>3
  <1> HIDE DEF bearers
  <1> QED
    BY <1>1, <1>3, <1>4, <1>5

(* So a test of a row with a plain slug finds it, or a newer namesake.     *)
LEMMA RunApiInv ==
    ASSUME PagesInv, RunApi
    PROVE  PagesInv'
  <1>1. PICK c \in calls : \E who :
          /\ LET key == rows[c.row].slug
             IN who = IF key = Blank THEN NoRow
                      ELSE IF GetApi(key) = NoRow THEN Skill ELSE GetApi(key)
          /\ answered' = answered \cup {[row |-> c.row, by |-> who]}
          /\ calls' = (calls \ {c}) \cup {[c EXCEPT !.state = "answered"]}
          /\ UNCHANGED <<rows, apisShown, apiLoads, view, opened, instance, posts>>
    BY DEF RunApi
  <1>2. PICK key, to :
          /\ key = rows[c.row].slug
          /\ to = IF key = Blank THEN NoRow
                  ELSE IF GetApi(key) = NoRow THEN Skill ELSE GetApi(key)
          /\ answered' = answered \cup {[row |-> c.row, by |-> to]}
          /\ calls' = (calls \ {c}) \cup {[c EXCEPT !.state = "answered"]}
          /\ UNCHANGED <<rows, apisShown, apiLoads, view, opened, instance, posts>>
    BY <1>1
  <1>3. c \in TestCall /\ c.row \in 1 .. Len(rows) /\ rows \in Seq(ApiRow) /\ Len(rows) \in Nat
    BY DEF PagesInv
  <1>4. ASSUME key # Blank, key = LowerCase(key)
        PROVE  to \in c.row .. Len(rows) /\ Bears(rows[to], key)
    <2>1. Bears(rows[c.row], key)
      BY <1>2, <1>4 DEF Bears
    <2>2. GetApi(key) \in c.row .. Len(rows) /\ Bears(rows[GetApi(key)], key)
      BY <1>3, <2>1, GetApiFacts
    <2>3. GetApi(key) # NoRow
      BY <1>3, <2>2 DEF NoRow
    <2> QED
      BY <1>2, <1>4, <2>2, <2>3
  <1>5. PICK a : a = [row |-> c.row, by |-> to]
    OBVIOUS
  <1>6. a.row \in 1 .. Len(rows) /\ Reached(a)
    BY <1>2, <1>3, <1>4, <1>5 DEF Reached
  <1>7. \A b \in answered' : b.row \in 1 .. Len(rows') /\ Reached(b)'
    <2>1. \A b \in answered' : b.row \in 1 .. Len(rows) /\ Reached(b)
      BY <1>2, <1>5, <1>6 DEF PagesInv
    <2> QED
      BY <1>2, <2>1 DEF Reached
  <1>8. PICK d : d = [c EXCEPT !.state = "answered"]
    OBVIOUS
  <1>9. d \in TestCall /\ d.row = c.row
    BY <1>3, <1>8 DEF TestCall
  <1>10. calls' \subseteq TestCall /\ \A e \in calls' : e.row \in 1 .. Len(rows')
    BY <1>2, <1>3, <1>8, <1>9 DEF PagesInv
  <1> QED
    BY <1>2, <1>7, <1>10 DEF PagesInv

(* What the page does on its own.                                          *)
LEMMA PageInv ==
    ASSUME PagesInv,
           \/ ListApis \/ ListArrives \/ OpenRow \/ OpenApiForm \/ BackToApis
           \/ SubmitApi \/ SubmitDone \/ SubmitFails \/ SendTest \/ TestEnds
           \/ UNCHANGED pubVars
    PROVE  PagesInv'
  <1>1. rows' = rows /\ answered' = answered /\ Len(rows) \in Nat
    BY DEF PagesInv, ListApis, ListArrives, OpenRow, OpenApiForm, BackToApis, Show, SubmitApi,
           SubmitDone, SubmitFails, SendTest, TestEnds, pubVars
  <1>2. \A c \in answered' : c.row \in 1 .. Len(rows') /\ Reached(c)'
    BY <1>1 DEF PagesInv, Reached
  <1>3. CASE ListApis
    <2>1. Len(rows) \in 0 .. Len(rows)
      BY <1>1
    <2>2. apiLoads' \subseteq 0 .. Len(rows) \cup {Asked}
      BY <1>3, <2>1 DEF ListApis, PagesInv
    <2> QED
      BY <1>1, <1>2, <1>3, <2>2 DEF ListApis, PagesInv
  <1>4. CASE ListArrives
    BY <1>1, <1>2, <1>4 DEF ListArrives, PagesInv
  <1>5. CASE OpenRow
    <2>1. PICK row \in 1 .. apisShown : Show("detail", row)
      BY <1>5 DEF OpenRow
    <2>2. row \in 1 .. Len(rows)
      BY <1>1 DEF PagesInv
    <2> QED
      BY <1>1, <1>2, <2>1, <2>2 DEF Show, PagesInv
  <1>6. CASE OpenApiForm \/ BackToApis
    <2>1. instance' \in Nat /\ view' # "detail"
      BY <1>6 DEF OpenApiForm, BackToApis, Show, PagesInv
    <2>2. UNCHANGED <<rows, apisShown, apiLoads, posts, calls, answered>>
      BY <1>6 DEF OpenApiForm, BackToApis, Show
    <2> QED
      BY <1>1, <1>2, <2>1, <2>2 DEF PagesInv
  <1>7. CASE SubmitApi
    BY <1>1, <1>2, <1>7 DEF SubmitApi, PagesInv
  <1>8. CASE SubmitDone
    BY <1>1, <1>2, <1>8 DEF SubmitDone, PagesInv
  <1>9. CASE SubmitFails
    BY <1>1, <1>2, <1>9 DEF SubmitFails, PagesInv
  <1>10. CASE SendTest
    <2>1. [test |-> instance, state |-> "sent", row |-> opened] \in TestCall /\ opened \in 1 .. Len(rows)
      BY <1>1, <1>10 DEF SendTest, PagesInv, TestCall
    <2> QED
      BY <1>1, <1>2, <1>10, <2>1 DEF SendTest, PagesInv
  <1>11. CASE TestEnds
    BY <1>1, <1>2, <1>11 DEF TestEnds, PagesInv
  <1>12. CASE UNCHANGED pubVars
    BY <1>1, <1>2, <1>12 DEF pubVars, PagesInv
  <1> QED
    BY <1>3, <1>4, <1>5, <1>6, <1>7, <1>8, <1>9, <1>10, <1>11, <1>12

(* The test of a row whose slug is plain reaches its target or that of a   *)
(* newer namesake, however old the list it was opened from and whatever    *)
(* was published meanwhile.                                                *)
THEOREM TestsReachNamesakesHolds == PublisherSpec => []TestsReachNamesakes
  <1>1. PublisherInit => PagesInv
    BY DEF PublisherInit, PagesInv
  <1>2. PagesInv /\ [PublisherNext]_pubVars => PagesInv'
    <2> SUFFICES ASSUME PagesInv, [PublisherNext]_pubVars PROVE PagesInv'
      OBVIOUS
    <2>1. CASE OtherPublishes
      <3>1. PICK name \in RowNames :
              \/ CreateApi([name |-> name])
              \/ \E slug \in TypedSlugs : CreateApi([name |-> name, slug |-> slug])
        BY <2>1 DEF OtherPublishes
      <3>2. /\ UNCHANGED <<apisShown, apiLoads, view, opened, instance, posts, calls, answered>>
            /\ \A q \in posts' : q.body \in Filled
        BY <2>1 DEF OtherPublishes, PagesInv
      <3>3. \A slug \in TypedSlugs : [name |-> name, slug |-> slug] \in Filled
        BY DEF Filled
      <3> QED
        BY <3>1, <3>2, <3>3, CreateApiInv
    <2>2. CASE PostApi
      <3>1. PICK q \in posts :
              /\ CreateApi(q.body)
              /\ posts' = (posts \ {q}) \cup {[q EXCEPT !.state = "answered"]}
              /\ UNCHANGED <<apisShown, apiLoads, view, opened, instance, calls, answered>>
        BY <2>2 DEF PostApi
      <3>2. q.body \in Filled /\ [q EXCEPT !.state = "answered"].body = q.body
        BY DEF PagesInv
      <3>3. \A p \in posts' : p.body \in Filled
        BY <3>1, <3>2 DEF PagesInv
      <3> QED
        BY <3>1, <3>2, <3>3, CreateApiInv
    <2>3. CASE RunApi
      BY <2>3, RunApiInv
    <2> QED
      BY <2>1, <2>2, <2>3, PageInv DEF PublisherNext
  <1>3. PagesInv => TestsReachNamesakes
    BY DEF PagesInv, Reached, TestsReachNamesakes
  <1> QED
    BY <1>1, <1>2, <1>3, PTL DEF PublisherSpec

-----------------------------------------------------------------------------
(* McpServers.  The PATCH sent last in this visit carries what is shown; an*)
(* older one has another number, and so has a later visit's.               *)
ServerInv ==
    /\ mcpListed \in Lists /\ mcpStored \in Lists /\ mcpShown \in Lists
    /\ sent \in Nat /\ lastSent \in 0 .. sent /\ lastApplied \in 0 .. sent
    /\ patches \subseteq [number : 1 .. sent, body : Lists]
    /\ ~mcpOpen => lastSent = 0
    /\ \A p \in patches : p.number = lastSent => p.body = mcpShown
    /\ SettledMeansShown

(* A toggle leaves lists to choose from behind.                            *)
LEMMA ToggledLists ==
    ASSUME mcpShown \in Lists
    PROVE  /\ \A t \in Tools : [mcpShown EXCEPT !.tools = Flip(@, t)] \in Lists
           /\ \A w \in Flows : [mcpShown EXCEPT !.workflows = Flip(@, w)] \in Lists
  BY DEF Lists, Flip

(* It is sent under a number that no request and no answer had.            *)
LEMMA ToggleInv ==
    ASSUME ServerInv, NEW lists \in Lists, Toggle(lists)
    PROVE  ServerInv'
  <1>1. /\ mcpOpen /\ mcpShown' = lists /\ sent' = sent + 1 /\ lastSent' = sent + 1
        /\ UNCHANGED <<mcpOpen, mcpListed, mcpStored, lastApplied>>
    BY DEF Toggle
  <1>2. PICK new : new = [number |-> sent + 1, body |-> lists]
    OBVIOUS
  <1>3. patches' = patches \cup {new}
    BY <1>1, <1>2 DEF Toggle, Body
  <1>4. /\ sent \in Nat /\ sent + 1 \in Nat /\ sent + 1 \in 0 .. sent + 1
        /\ 1 .. sent \subseteq 1 .. sent + 1 /\ sent + 1 \in 1 .. sent + 1
        /\ lastApplied \in 0 .. sent + 1 /\ lastApplied # sent + 1
        /\ \A p \in patches : p.number # sent + 1
    BY DEF ServerInv
  <1>5. new \in [number : 1 .. sent + 1, body : Lists] /\ new.body = lists
    BY <1>2, <1>4
  <1>6. patches' \subseteq [number : 1 .. sent', body : Lists]
    BY <1>1, <1>3, <1>4, <1>5 DEF ServerInv
  <1>7. \A p \in patches' : p.number = lastSent' => p.body = mcpShown'
    BY <1>1, <1>3, <1>4, <1>5
  <1>8. SettledMeansShown'
    BY <1>1, <1>4 DEF SettledMeansShown
  <1> QED
    BY <1>1, <1>4, <1>6, <1>7, <1>8 DEF ServerInv

(* An answer is that of the last request, which brought what is shown, or  *)
(* of another one.                                                         *)
LEMMA PatchInv ==
    ASSUME ServerInv, NEW p \in patches, ApplyPatch(p) \/ PatchFails(p)
    PROVE  ServerInv'
  <1>1. /\ p.number \in 1 .. sent /\ p.body \in Lists /\ p.number \in 0 .. sent
        /\ p.number = lastSent => p.body = mcpShown
    BY DEF ServerInv
  <1>2. /\ patches' = patches \ {p} /\ UNCHANGED <<mcpOpen, mcpListed, mcpShown, sent, lastSent>>
        /\ \/ mcpStored' = p.body /\ lastApplied' = p.number
           \/ UNCHANGED <<mcpStored, lastApplied>>
    BY DEF ApplyPatch, PatchFails
  <1>3. SettledMeansShown'
    BY <1>1, <1>2 DEF ServerInv, SettledMeansShown
  <1> QED
    BY <1>1, <1>2, <1>3 DEF ServerInv

(* What the gateway has when the last toggle's PATCH is the last to arrive *)
(* is what the detail shows, for any number of toggles and requests under  *)
(* way.                                                                    *)
THEOREM SettledMeansShownHolds == McpSpec => []SettledMeansShown
  <1>0. NoLists \in Lists
    BY DEF NoLists, Lists
  <1>1. McpInit => ServerInv
    BY <1>0 DEF McpInit, ServerInv, SettledMeansShown
  <1>2. ServerInv /\ [McpNext]_mcpVars => ServerInv'
    <2> SUFFICES ASSUME ServerInv, [McpNext]_mcpVars PROVE ServerInv'
      OBVIOUS
    <2>1. CASE OpenServer
      BY <2>1 DEF OpenServer, ServerInv, SettledMeansShown
    <2>2. CASE LeaveServer
      BY <1>0, <2>2 DEF LeaveServer, ServerInv, SettledMeansShown
    <2>3. CASE LoadServers
      BY <2>3 DEF LoadServers, ServerInv, SettledMeansShown
    <2>4. ASSUME NEW t \in Tools, ToggleTool(t) PROVE ServerInv'
      BY <2>4, ToggledLists, ToggleInv DEF ToggleTool, ServerInv
    <2>5. ASSUME NEW w \in Flows, ToggleWorkflow(w) PROVE ServerInv'
      BY <2>5, ToggledLists, ToggleInv DEF ToggleWorkflow, ServerInv
    <2>6. ASSUME NEW p \in patches, ApplyPatch(p) \/ PatchFails(p) PROVE ServerInv'
      BY <2>6, PatchInv
    <2>7. CASE UNCHANGED mcpVars
      BY <2>7 DEF mcpVars, ServerInv, SettledMeansShown
    <2> QED
      BY <2>1, <2>2, <2>3, <2>4, <2>5, <2>6, <2>7 DEF McpNext
  <1>3. ServerInv => SettledMeansShown
    BY DEF ServerInv
  <1> QED
    BY <1>1, <1>2, <1>3, PTL DEF McpSpec

-----------------------------------------------------------------------------
(* McpForm.  The two lists of a form are made of what it has offered, and  *)
(* together are what was picked; so is what was sent.                      *)
Pickable == BuiltinTools \cup ApiTools \cup FormFlows
Creation == [form : Nat, state : {"sent", "answered"}, picked : SUBSET Pickable,
             tools : SUBSET Pickable, workflows : SUBSET Pickable]

PickersInv ==
    /\ formNumber \in Nat
    /\ options \in [tools : SUBSET ApiTools, workflows : SUBSET FormFlows]
    /\ formTools \subseteq BuiltinTools \cup options.tools
    /\ formFlows \subseteq options.workflows
    /\ pickedSoFar = formTools \cup formFlows
    /\ creations \subseteq Creation
    /\ \A q \in creations : q.tools \cup q.workflows = q.picked
    /\ PickedIsExposed

(* A toggle of either picker switches one tool, and no other.              *)
LEMMA PickersApart ==
    ASSUME PickersInv
    PROVE  /\ \A t \in BuiltinTools :
                SetBuiltins(Switch(formTools \cap BuiltinTools, t)) = Switch(formTools, t)
           /\ \A t \in options.tools :
                SetApiTools(Switch(formTools \cap options.tools, t)) = Switch(formTools, t)
  <1>1. /\ formTools \subseteq BuiltinTools \cup options.tools
        /\ options.tools \cap BuiltinTools = {}
    BY PickerAssumption DEF PickersInv
  <1>2. ASSUME NEW t \in BuiltinTools
        PROVE  SetBuiltins(Switch(formTools \cap BuiltinTools, t)) = Switch(formTools, t)
    BY <1>1 DEF SetBuiltins, Switch
  <1>3. ASSUME NEW t \in options.tools
        PROVE  SetApiTools(Switch(formTools \cap options.tools, t)) = Switch(formTools, t)
    BY <1>1 DEF SetApiTools, Switch
  <1> QED
    BY <1>2, <1>3

(* So the two lists and the history of toggles go together.                *)
LEMMA ToggledInv ==
    ASSUME PickersInv, NEW x, NEW ticked, NEW flows, Pick(x, ticked, flows),
           \/ x \in BuiltinTools \cup options.tools /\ ticked = Switch(formTools, x) /\ flows = formFlows
           \/ x \in options.workflows /\ ticked = formTools /\ flows = Switch(formFlows, x)
    PROVE  PickersInv'
  <1>1. /\ formTools' = ticked /\ formFlows' = flows /\ pickedSoFar' = Switch(pickedSoFar, x)
        /\ UNCHANGED <<formNumber, options, creations, servers>>
    BY DEF Pick
  <1>2. /\ options.tools \subseteq ApiTools /\ options.workflows \subseteq FormFlows
        /\ (BuiltinTools \cup options.tools) \cap options.workflows = {}
    BY PickerAssumption DEF PickersInv
  <1>3. /\ formTools' \subseteq BuiltinTools \cup options'.tools
        /\ formFlows' \subseteq options'.workflows
    BY <1>1 DEF PickersInv, Switch
  <1>4. pickedSoFar' = formTools' \cup formFlows'
    BY <1>1, <1>2 DEF PickersInv, Switch
  <1> QED
    BY <1>1, <1>3, <1>4 DEF PickersInv, PickedIsExposed

(* A request carries the lists of the press, and the server gets them.     *)
LEMMA CreationInv ==
    ASSUME PickersInv, SubmitServer \/ PostServer
    PROVE  PickersInv'
  <1>1. CASE SubmitServer
    <2>1. PICK new : new = [form |-> formNumber, state |-> "sent", picked |-> pickedSoFar,
                            tools |-> formTools, workflows |-> formFlows]
      OBVIOUS
    <2>2. /\ formTools \subseteq Pickable /\ formFlows \subseteq Pickable
          /\ pickedSoFar \subseteq Pickable /\ formTools \cup formFlows = pickedSoFar
      BY DEF PickersInv, Pickable
    <2>3. new \in Creation /\ new.tools \cup new.workflows = new.picked
      BY <2>1, <2>2 DEF PickersInv, Creation
    <2>4. /\ creations' = creations \cup {new}
          /\ UNCHANGED <<formNumber, formOpen, formTools, formFlows, options, pickedSoFar,
                         toggles, servers>>
      BY <1>1, <2>1 DEF SubmitServer
    <2> QED
      BY <2>3, <2>4 DEF PickersInv, PickedIsExposed
  <1>2. CASE PostServer
    <2>1. PICK q \in creations :
            /\ servers' = servers \cup {[tools |-> q.tools, workflows |-> q.workflows, picked |-> q.picked]}
            /\ creations' = (creations \ {q}) \cup {[q EXCEPT !.state = "answered"]}
            /\ UNCHANGED <<formNumber, formOpen, formTools, formFlows, options, pickedSoFar, toggles>>
      BY <1>2 DEF PostServer
    <2>2. q \in Creation /\ q.tools \cup q.workflows = q.picked
      BY DEF PickersInv
    <2>3. PICK next : next = [q EXCEPT !.state = "answered"]
      OBVIOUS
    <2>4. /\ next \in Creation /\ next.tools = q.tools
          /\ next.workflows = q.workflows /\ next.picked = q.picked
      BY <2>2, <2>3 DEF Creation
    <2>5. PickedIsExposed'
      BY <2>1, <2>2 DEF PickersInv, PickedIsExposed
    <2>6. creations' \subseteq Creation /\ \A p \in creations' : p.tools \cup p.workflows = p.picked
      BY <2>1, <2>2, <2>3, <2>4 DEF PickersInv
    <2> QED
      BY <2>1, <2>5, <2>6 DEF PickersInv
  <1> QED
    BY <1>1, <1>2

(* A server exposes what was picked for it, for any tools and workflows,   *)
(* however many forms and requests there are.                              *)
THEOREM PickedIsExposedHolds == McpFormSpec => []PickedIsExposed
  <1>0. NoOptions \in [tools : SUBSET ApiTools, workflows : SUBSET FormFlows]
    BY DEF NoOptions
  <1>1. McpFormInit => PickersInv
    BY <1>0 DEF McpFormInit, PickersInv, PickedIsExposed
  <1>2. PickersInv /\ [McpFormNext]_mcpFormVars => PickersInv'
    <2> SUFFICES ASSUME PickersInv, [McpFormNext]_mcpFormVars PROVE PickersInv'
      OBVIOUS
    <2>1. CASE OpenMcpForm
      BY <1>0, <2>1 DEF OpenMcpForm, PickersInv, PickedIsExposed
    <2>2. CASE OptionsArrive
      <3>1. /\ options' \in [tools : SUBSET ApiTools, workflows : SUBSET FormFlows]
            /\ options.tools \subseteq options'.tools
            /\ options.workflows \subseteq options'.workflows
        BY <2>2 DEF OptionsArrive, PickersInv
      <3> QED
        BY <2>2, <3>1 DEF OptionsArrive, PickersInv, PickedIsExposed
    <2>3. ASSUME NEW t, PickTool(t) PROVE PickersInv'
      BY <2>3, PickersApart, ToggledInv DEF PickTool
    <2>4. ASSUME NEW w, PickWorkflow(w) PROVE PickersInv'
      BY <2>4, ToggledInv DEF PickWorkflow
    <2>5. CASE SubmitServer \/ PostServer
      BY <2>5, CreationInv
    <2>6. CASE ServerCreated
      BY <1>0, <2>6 DEF ServerCreated, CloseMcpForm, PickersInv, PickedIsExposed
    <2>7. CASE LeaveMcpForm
      BY <1>0, <2>7 DEF LeaveMcpForm, CloseMcpForm, PickersInv, PickedIsExposed
    <2>8. CASE CreationFails
      BY <2>8 DEF CreationFails, PickersInv, PickedIsExposed
    <2>9. CASE UNCHANGED mcpFormVars
      BY <2>9 DEF mcpFormVars, PickersInv, PickedIsExposed
    <2> QED
      BY <2>1, <2>2, <2>3, <2>4, <2>5, <2>6, <2>7, <2>8, <2>9 DEF McpFormNext
  <1>3. PickersInv => PickedIsExposed
    BY DEF PickersInv
  <1> QED
    BY <1>1, <1>2, <1>3, PTL DEF McpFormSpec

-----------------------------------------------------------------------------
(* SkillSandbox.  All there is to run and to request.                      *)
Units == Manifests \cup {[egress |-> {}]}
Urls == {WeatherUrl(1), WeatherUrl(2)} \cup
        UNION {UNION {BuildEndpointUrl(e, input) : e \in m.endpoint} :
                 m \in Manifests, input \in Inputs}
Hosts == {<<>>} \cup {url.host : url \in Urls} \cup Redirects
Work == [unit : Units, builtin : BOOLEAN, made : Seq(Urls), at : Hosts, age : SUBSET Nat]

Listed(w) == \A i \in DOMAIN w.made : AllowedHost(w.made[i].host, w.unit.egress)

(* A run is as old as its finished requests, one unit each at most, and the*)
(* one under way.  There are two at most, so the default wall is not hit.  *)
RunInv(r) ==
    /\ work[r] \in Work
    /\ outcome[r] \in {"none", "running", "done", "threw", "wall"}
    /\ elapsed[r] \in Nat
    /\ outcome[r] = "none" => elapsed[r] = 0
    /\ work[r].age = {} \/ \E a \in {0, 1} : work[r].age = {a}
    /\ work[r].age # {} => outcome[r] \in {"running", "wall"}
    /\ outcome[r] = "running" =>
         \E a \in {0, 1}, k \in {1, 2} :
            work[r].age = {a} /\ Len(work[r].made) = k /\ elapsed[r] <= k - 1 + a
    /\ wall >= DefaultWall => outcome[r] # "wall"
    /\ Listed(work[r])

BoxInv ==
    /\ work = [r \in Runs |-> work[r]] /\ DOMAIN outcome = Runs /\ DOMAIN elapsed = Runs
    /\ outcome = [r \in Runs |-> outcome[r]] /\ elapsed = [r \in Runs |-> elapsed[r]]
    /\ \A r \in Runs : RunInv(r)

(* The work of a run without a request, with one somewhere else, or with   *)
(* another one.                                                            *)
LEMMA AgedFacts ==
    ASSUME NEW w \in Work, NEW age \in SUBSET Nat, NEW v, v = [w EXCEPT !.age = age]
    PROVE  v \in Work /\ v.age = age /\ v.made = w.made /\ v.unit = w.unit
  BY DEF Work

(* Likewise.                                                               *)
LEMMA MovedFacts ==
    ASSUME NEW w \in Work, NEW host \in Redirects, NEW v, v = [w EXCEPT !.at = host]
    PROVE  v \in Work /\ v.age = w.age /\ v.made = w.made /\ v.unit = w.unit
  BY DEF Work, Hosts

(* Likewise.                                                               *)
LEMMA RequestFacts ==
    ASSUME NEW w \in Work, NEW url \in Urls, NEW v,
           v = [w EXCEPT !.made = Append(@, url), !.at = url.host, !.age = {0}]
    PROVE  v \in Work /\ v.age = {0} /\ v.made = Append(w.made, url) /\ v.unit = w.unit
  <1>1. PICK more : more = Append(w.made, url)
    OBVIOUS
  <1>2. w.made \in Seq(Urls) /\ more \in Seq(Urls)
    BY <1>1 DEF Work
  <1>3. v = [w EXCEPT !.made = more, !.at = url.host, !.age = {0}]
    BY <1>1
  <1>4. {0} \in SUBSET Nat /\ url.host \in Hosts
    BY DEF Hosts
  <1>5. v \in Work /\ v.age = {0} /\ v.made = more /\ v.unit = w.unit
    BY <1>2, <1>3, <1>4 DEF Work
  <1> QED
    BY <1>1, <1>5

(* A request to an allowed host is one more to a listed host.              *)
LEMMA ListedFacts ==
    ASSUME NEW w \in Work, NEW v \in Work, v.unit = w.unit, Listed(w),
           \/ v.made = w.made
           \/ \E url \in Urls : v.made = Append(w.made, url) /\ AllowedHost(url.host, w.unit.egress)
    PROVE  Listed(v)
  <1>1. CASE v.made = w.made
    BY <1>1 DEF Listed
  <1>2. ASSUME NEW url \in Urls, v.made = Append(w.made, url),
               AllowedHost(url.host, w.unit.egress)
        PROVE  Listed(v)
    <2>1. w.made \in Seq(Urls)
      BY DEF Work
    <2>2. \A i \in DOMAIN v.made :
            IF i = Len(w.made) + 1 THEN v.made[i] = url
            ELSE i \in DOMAIN w.made /\ v.made[i] = w.made[i]
      BY <1>2, <2>1
    <2> QED
      BY <1>2, <2>2 DEF Listed
  <1> QED
    BY <1>1, <1>2

(* What a step that changes one run has to show.                           *)
LEMMA OneRun ==
    ASSUME BoxInv, NEW r \in Runs, NEW w, NEW how,
           work' = [work EXCEPT ![r] = w], outcome' = [outcome EXCEPT ![r] = how],
           UNCHANGED <<elapsed, wall>>,
           work'[r] = w /\ outcome'[r] = how => RunInv(r)'
    PROVE  BoxInv'
  <1>1. /\ work'[r] = w /\ outcome'[r] = how
        /\ \A q \in Runs : q # r => work'[q] = work[q] /\ outcome'[q] = outcome[q]
        /\ work' = [q \in Runs |-> work'[q]] /\ outcome' = [q \in Runs |-> outcome'[q]]
        /\ DOMAIN outcome' = Runs /\ DOMAIN elapsed' = Runs
        /\ elapsed' = [q \in Runs |-> elapsed'[q]]
    BY DEF BoxInv
  <1>2. \A q \in Runs : q # r => RunInv(q)'
    BY <1>1 DEF BoxInv, RunInv
  <1>3. RunInv(r)'
    BY <1>1
  <1> QED
    BY <1>1, <1>2, <1>3 DEF BoxInv

(* ctx.http.get, of a run that begins or whose first request came back.    *)
LEMMA GetInv ==
    ASSUME BoxInv, NEW r \in Runs, NEW w \in Work, NEW url \in Urls, Get(r, w, url),
           UNCHANGED <<elapsed, wall>>, Listed(w),
           \/ outcome[r] = "none" /\ w.made = <<>>
           \/ outcome[r] = "running" /\ Len(w.made) = 1 /\ w.made = work[r].made
           \/ outcome[r] = "wall"
    PROVE  BoxInv'
  <1>0. RunInv(r) /\ w.made \in Seq(Urls) /\ DOMAIN outcome = Runs
    BY DEF BoxInv, Work
  <1>1. CASE AllowedHost(url.host, w.unit.egress)
    <2>1. PICK v : v = [w EXCEPT !.made = Append(@, url), !.at = url.host, !.age = {0}]
      OBVIOUS
    <2>2. /\ v \in Work /\ v.age = {0} /\ v.made = Append(w.made, url) /\ v.unit = w.unit
      BY <2>1, RequestFacts
    <2>3. PICK how : how = IF outcome[r] = "none" THEN "running" ELSE outcome[r]
      OBVIOUS
    <2>4. work' = [work EXCEPT ![r] = v] /\ outcome' = [outcome EXCEPT ![r] = how]
      BY <1>0, <1>1, <2>1, <2>3 DEF Get
    <2>5. Listed(v)
      BY <1>1, <2>2, ListedFacts
    <2>6. how = "running" => \E k \in {1, 2} : Len(v.made) = k /\ elapsed[r] <= k - 1 + 0
      BY <1>0, <2>2, <2>3 DEF RunInv
    <2>7. work'[r] = v /\ outcome'[r] = how => RunInv(r)'
      BY <1>0, <2>2, <2>3, <2>5, <2>6 DEF RunInv
    <2> QED
      BY <2>4, <2>7, OneRun
  <1>2. CASE ~AllowedHost(url.host, w.unit.egress)
    <2>1. PICK v : v = [w EXCEPT !.age = {}]
      OBVIOUS
    <2>2. v \in Work /\ v.age = {} /\ v.made = w.made /\ v.unit = w.unit
      BY <2>1, AgedFacts
    <2>3. PICK how : how = IF outcome[r] = "wall" THEN outcome[r] ELSE "threw"
      OBVIOUS
    <2>4. work' = [work EXCEPT ![r] = v] /\ outcome' = [outcome EXCEPT ![r] = how]
      BY <1>0, <1>2, <2>1, <2>3 DEF Get
    <2>5. Listed(v)
      BY <2>2, ListedFacts
    <2>6. work'[r] = v /\ outcome'[r] = how => RunInv(r)'
      BY <1>0, <2>2, <2>3, <2>5 DEF RunInv
    <2> QED
      BY <2>4, <2>6, OneRun
  <1> QED
    BY <1>1, <1>2

(* The other ends of a request: nothing is under way any more.             *)
LEMMA EndInv ==
    ASSUME BoxInv, NEW r \in Runs, work' = [work EXCEPT ![r].age = {}],
           NEW how \in {"done", "threw"},
           outcome' = [outcome EXCEPT ![r] = IF @ = "running" THEN how ELSE @],
           work[r].age # {}, UNCHANGED <<elapsed, wall>>
    PROVE  BoxInv'
  <1>1. RunInv(r) /\ work[r] \in Work /\ DOMAIN outcome = Runs
    BY DEF BoxInv, RunInv
  <1>2. PICK v : v = [work[r] EXCEPT !.age = {}]
    OBVIOUS
  <1>3. v \in Work /\ v.age = {} /\ v.made = work[r].made /\ v.unit = work[r].unit
    <2>1. {} \in SUBSET Nat
      OBVIOUS
    <2> QED
      BY <1>1, <1>2, <2>1, AgedFacts
  <1>4. PICK ends : ends = IF outcome[r] = "running" THEN how ELSE outcome[r]
    OBVIOUS
  <1>5. work' = [work EXCEPT ![r] = v] /\ outcome' = [outcome EXCEPT ![r] = ends]
    BY <1>1, <1>2, <1>4
  <1>6. Listed(v)
    BY <1>1, <1>3, ListedFacts DEF RunInv
  <1>7. ends # "none" /\ ends # "running"
    BY <1>1, <1>4 DEF RunInv
  <1>8. work'[r] = v /\ outcome'[r] = ends => RunInv(r)'
    BY <1>1, <1>3, <1>4, <1>6, <1>7 DEF RunInv
  <1> QED
    BY <1>5, <1>8, OneRun

(* A run begins, on a unit of its own.                                     *)
LEMMA StartInv ==
    ASSUME BoxInv, NEW r \in Runs, NEW m \in Manifests, NEW builtin \in BOOLEAN,
           NEW input \in Inputs, StartRun(r, m, builtin, input)
    PROVE  BoxInv'
  <1>1. RunInv(r) /\ outcome[r] = "none" /\ UNCHANGED <<elapsed, wall>>
    BY DEF BoxInv, StartRun
  <1>2. PICK w : w = [Idle EXCEPT !.unit = m, !.builtin = builtin]
    OBVIOUS
  <1>3. w = [unit |-> m, builtin |-> builtin, made |-> <<>>, at |-> <<>>, age |-> {}]
    BY <1>2 DEF Idle
  <1>4. w \in Work /\ w.made = <<>> /\ w.age = {} /\ Listed(w)
    BY <1>3 DEF Work, Hosts, Units, Listed
  <1>5. PICK urls : urls = UNION {BuildEndpointUrl(e, input) : e \in m.endpoint}
    OBVIOUS
  <1>6. urls \subseteq Urls /\ WeatherUrl(1) \in Urls
    BY <1>5 DEF Urls
  <1>7. \/ Get(r, w, WeatherUrl(1))
        \/ \E url \in urls : Get(r, w, url)
        \/ Throw(r, w)
    BY <1>2, <1>5 DEF StartRun
  <1>8. CASE \E url \in Urls : Get(r, w, url)
    BY <1>1, <1>4, <1>8, GetInv
  <1>9. CASE Throw(r, w)
    <2>1. PICK how : how = "threw"
      OBVIOUS
    <2>2. work' = [work EXCEPT ![r] = w] /\ outcome' = [outcome EXCEPT ![r] = how]
      BY <1>9, <2>1 DEF Throw
    <2>3. work'[r] = w /\ outcome'[r] = how => RunInv(r)'
      BY <1>1, <1>4, <2>1 DEF RunInv
    <2> QED
      BY <1>1, <2>2, <2>3, OneRun
  <1> QED
    BY <1>6, <1>7, <1>8, <1>9

(* Answers.                                                                *)
LEMMA AnsweredInv ==
    ASSUME BoxInv, NEW r \in Runs, FetchAnswered(r)
    PROVE  BoxInv'
  <1>1. RunInv(r) /\ work[r] \in Work /\ work[r].age # {} /\ UNCHANGED <<elapsed, wall>>
    BY DEF BoxInv, RunInv, FetchAnswered
  <1>2. CASE Len(work[r].made) = 1 /\ Get(r, work[r], WeatherUrl(2))
    <2>1. WeatherUrl(2) \in Urls /\ Listed(work[r]) /\ outcome[r] \in {"running", "wall"}
      BY <1>1 DEF Urls, RunInv
    <2> QED
      BY <1>1, <1>2, <2>1, GetInv
  <1>3. CASE /\ work' = [work EXCEPT ![r].age = {}]
             /\ outcome' = [outcome EXCEPT ![r] = IF @ = "running" THEN "done" ELSE @]
    BY <1>1, <1>3, EndInv
  <1> QED
    BY <1>2, <1>3 DEF FetchAnswered

(* A redirect changes where the request is, and not its age.               *)
LEMMA RedirectedInv ==
    ASSUME BoxInv, NEW r \in Runs, FetchRedirected(r)
    PROVE  BoxInv'
  <1>1. RunInv(r) /\ work[r] \in Work /\ DOMAIN outcome = Runs
        /\ outcome = [q \in Runs |-> outcome[q]] /\ UNCHANGED <<elapsed, outcome, wall>>
    BY DEF BoxInv, RunInv, FetchRedirected
  <1>2. PICK host \in Redirects : work' = [work EXCEPT ![r].at = host]
    BY DEF FetchRedirected
  <1>3. PICK v, how : v = [work[r] EXCEPT !.at = host] /\ how = outcome[r]
    OBVIOUS
  <1>4. v \in Work /\ v.age = work[r].age /\ v.made = work[r].made /\ v.unit = work[r].unit
    BY <1>1, <1>3, MovedFacts
  <1>5. work' = [work EXCEPT ![r] = v] /\ outcome' = [outcome EXCEPT ![r] = how]
    BY <1>1, <1>2, <1>3
  <1>6. Listed(v)
    BY <1>1, <1>4, ListedFacts DEF RunInv
  <1>7. work'[r] = v /\ outcome'[r] = how => RunInv(r)'
    BY <1>1, <1>3, <1>4, <1>6 DEF RunInv
  <1> QED
    BY <1>1, <1>5, <1>7, OneRun

(* The wall is not hit before a request that is late.                      *)
LEMMA WallInv ==
    ASSUME BoxInv, NEW r \in Runs, WallTimeout(r)
    PROVE  BoxInv'
  <1>1. RunInv(r) /\ outcome[r] = "running" /\ elapsed[r] = wall /\ UNCHANGED <<work, elapsed, wall>>
    BY DEF BoxInv, WallTimeout
  <1>2. elapsed[r] \in Nat /\ elapsed[r] <= 2
    BY <1>1 DEF RunInv
  <1>3. ~(wall >= DefaultWall)
    BY <1>1, <1>2 DEF DefaultWall
  <1>4. PICK w, how : w = work[r] /\ how = "wall"
    OBVIOUS
  <1>5. work' = [work EXCEPT ![r] = w] /\ outcome' = [outcome EXCEPT ![r] = how]
    BY <1>1, <1>4 DEF WallTimeout, BoxInv
  <1>6. work'[r] = w /\ outcome'[r] = how => RunInv(r)'
    BY <1>1, <1>3, <1>4 DEF RunInv
  <1> QED
    BY <1>1, <1>5, <1>6, OneRun

(* Time passes for requests that are not late.                             *)
LEMMA TimeInv == ASSUME BoxInv, TimePasses PROVE BoxInv'
  <1>1. /\ work' = [r \in Runs |-> [work[r] EXCEPT !.age = {a + 1 : a \in work[r].age}]]
        /\ elapsed' = [r \in Runs |-> IF outcome[r] = "running" THEN elapsed[r] + 1 ELSE elapsed[r]]
        /\ outcome' = outcome /\ wall' = wall
        /\ \A r \in Runs : FetchLimit \notin work[r].age
    BY DEF TimePasses
  <1>2. ASSUME NEW r \in Runs PROVE RunInv(r)'
    <2>1. RunInv(r) /\ work[r] \in Work
      BY DEF BoxInv, RunInv
    <2>2. PICK age : age = {a + 1 : a \in work[r].age}
      OBVIOUS
    <2>3. age \in SUBSET Nat /\ age = IF work[r].age = {} THEN {} ELSE {1}
      BY <1>1, <2>1, <2>2 DEF RunInv, FetchLimit
    <2>4. work'[r] = [work[r] EXCEPT !.age = age]
      BY <1>1, <2>2
    <2>5. work'[r] \in Work /\ work'[r].age = age /\ work'[r].made = work[r].made
          /\ work'[r].unit = work[r].unit
      <3>1. PICK w, v : w = work[r] /\ v = [w EXCEPT !.age = age]
        OBVIOUS
      <3>2. v \in Work /\ v.age = age /\ v.made = w.made /\ v.unit = w.unit
        <4>1. w \in Work /\ age \in SUBSET Nat
          BY <2>1, <2>3, <3>1
        <4> QED
          BY ONLY <3>1, <4>1 DEF Work
      <3> QED
        BY <2>4, <3>1, <3>2
    <2>6. Listed(work'[r])
      BY <2>1, <2>5, ListedFacts DEF RunInv
    <2>7. /\ elapsed[r] \in Nat /\ outcome'[r] = outcome[r]
          /\ elapsed'[r] = IF outcome[r] = "running" THEN elapsed[r] + 1 ELSE elapsed[r]
      BY <1>1, <2>1 DEF RunInv
    <2>8. ASSUME outcome[r] = "running"
          PROVE  \E k \in {1, 2} : /\ work'[r].age = {1} /\ Len(work'[r].made) = k
                                   /\ elapsed'[r] <= k - 1 + 1
      <3>1. PICK a \in {0, 1}, k \in {1, 2} :
              work[r].age = {a} /\ Len(work[r].made) = k /\ elapsed[r] <= k - 1 + a
        BY <2>1, <2>8 DEF RunInv
      <3>2. a = 0
        BY <1>1, <3>1 DEF FetchLimit
      <3>3. elapsed'[r] <= k - 1 + 1
        BY <2>7, <2>8, <3>1, <3>2
      <3> QED
        BY <2>3, <2>5, <3>1, <3>3
    <2>9. elapsed'[r] \in Nat /\ (outcome[r] = "none" => elapsed'[r] = 0)
      BY <2>1, <2>7 DEF RunInv
    <2> QED
      BY <1>1, <2>1, <2>3, <2>5, <2>6, <2>7, <2>8, <2>9 DEF RunInv
  <1> QED
    BY <1>1, <1>2 DEF BoxInv

(* Nothing outlives a run under the default wall, and no run, abandoned or *)
(* not, asks for anything at a host its manifest does not list: for any    *)
(* manifests, inputs, redirects and number of runs.                        *)
THEOREM SandboxBoundsHolds == SandboxSpec => []SandboxBounds
  <1>1. SandboxInit => BoxInv
    <2> SUFFICES ASSUME SandboxInit PROVE BoxInv
      OBVIOUS
    <2>1. Idle \in Work /\ Idle.age = {} /\ Listed(Idle)
      BY DEF Idle, Work, Hosts, Units, Listed
    <2>2. ASSUME NEW r \in Runs PROVE RunInv(r)
      BY <2>1 DEF SandboxInit, RunInv
    <2> QED
      BY <2>2 DEF SandboxInit, BoxInv
  <1>2. BoxInv /\ [SandboxNext]_boxVars => BoxInv'
    <2> SUFFICES ASSUME BoxInv, [SandboxNext]_boxVars PROVE BoxInv'
      OBVIOUS
    <2>1. ASSUME NEW r \in Runs, NEW m \in Manifests, NEW builtin \in BOOLEAN,
                 NEW input \in Inputs, StartRun(r, m, builtin, input)
          PROVE  BoxInv'
      BY <2>1, StartInv
    <2>2. ASSUME NEW r \in Runs, FetchAnswered(r) PROVE BoxInv'
      BY <2>2, AnsweredInv
    <2>3. ASSUME NEW r \in Runs, FetchFails(r) PROVE BoxInv'
      BY <2>3, EndInv DEF FetchFails
    <2>4. ASSUME NEW r \in Runs, WallTimeout(r) PROVE BoxInv'
      BY <2>4, WallInv
    <2>5. CASE TimePasses
      BY <2>5, TimeInv
    <2>6. ASSUME NEW r \in Runs, FetchRedirected(r) PROVE BoxInv'
      BY <2>6, RedirectedInv
    <2>7. CASE UNCHANGED boxVars
      BY <2>7 DEF boxVars, BoxInv, RunInv
    <2> QED
      BY <2>1, <2>2, <2>3, <2>4, <2>5, <2>6, <2>7 DEF SandboxNext
  <1>3. BoxInv => SandboxBounds
    <2> SUFFICES ASSUME BoxInv, NEW r \in Runs
                 PROVE  /\ wall >= DefaultWall /\ outcome[r] # "running" => work[r].age = {}
                        /\ \A i \in DOMAIN work[r].made :
                             \E h \in work[r].unit.egress : IsPrefix(h, work[r].made[i].host)
      BY DEF SandboxBounds
    <2> QED
      BY DEF BoxInv, RunInv, Listed, AllowedHost
  <1> QED
    BY <1>1, <1>2, <1>3, PTL DEF SandboxSpec

-----------------------------------------------------------------------------
(* SkillRouter.  What was measured are numbers; the rest is arithmetic.    *)
RouterInv ==
    /\ price \in [Candidates -> (0 .. MaxPrice) \cup {NotANumber}]
    /\ samples \in [Candidates -> Seq(Nat)]
    /\ requests \in [Candidates -> Nat]
    /\ successes \in [Candidates -> Nat]

(* One of finitely many has the greatest value.                            *)
LEMMA GreatestValue ==
    ASSUME NEW D, IsFiniteSet(D), D # {}, NEW f \in [D -> Nat]
    PROVE  \E d \in D : \A e \in D : f[e] <= f[d]
  <1>1. PICK R : R = {p \in D \X D : f[p[1]] > f[p[2]]}
    OBVIOUS
  <1>2. \A a, b \in D : <<a, b>> \in R <=> f[a] > f[b]
    BY <1>1
  <1>3. PICK d \in D : \A e \in D : <<e, d>> \notin R
    <2>1. \A a \in D : <<a, a>> \notin R
      BY <1>2
    <2>2. \A a, b, c \in D : <<a, b>> \in R /\ <<b, c>> \in R => <<a, c>> \in R
      BY <1>2
    <2> QED
      BY <2>1, <2>2, FirstInOrder
  <1>4. \A e \in D : f[e] \in Nat /\ ~(f[e] > f[d])
    BY <1>2, <1>3
  <1> QED
    BY <1>4

(* The least of some numbers is one of them.                               *)
LEMMA MinIsLeast ==
    ASSUME NEW X \in SUBSET Nat, X # {}
    PROVE  Min(X) \in X /\ \A x \in X : Min(X) <= x
  BY LeastNumber DEF Min

(* A range is at least one, and no value is above it.                      *)
LEMMA MaxIsGreatest ==
    ASSUME NEW D, IsFiniteSet(D), NEW f \in [D -> Nat],
           NEW X, X = {1} \cup {f[d] : d \in D}
    PROVE  Max(X) \in Nat /\ Max(X) >= 1 /\ \A d \in D : f[d] <= Max(X)
  <1>1. \E n \in X : \A x \in X : n >= x
    <2>1. CASE D = {}
      BY <2>1
    <2>2. CASE D # {}
      <3>1. PICK d \in D : \A e \in D : f[e] <= f[d]
        BY <2>2, GreatestValue
      <3>2. CASE f[d] >= 1
        BY <3>1, <3>2
      <3>3. CASE f[d] < 1
        BY <3>1, <3>3
      <3> QED
        BY <3>2, <3>3
    <2> QED
      BY <2>1, <2>2
  <1>2. PICK n : n = Max(X)
    OBVIOUS
  <1>3. n \in X /\ \A x \in X : n >= x
    BY <1>1, <1>2 DEF Max
  <1>4. X \subseteq Nat /\ 1 \in X /\ \A d \in D : f[d] \in X
    OBVIOUS
  <1> QED
    BY <1>2, <1>3, <1>4

(* There is a k-th value.                                                  *)
LEMMA NthNat ==
    ASSUME NEW values \in Seq(Nat), NEW k \in 1 .. Len(values)
    PROVE  Nth(values, k) \in Nat
  <1>1. PICK D, n : D = DOMAIN values /\ n = Len(values)
    OBVIOUS
  <1>2. n \in Nat /\ D = 1 .. n /\ k \in D /\ values \in [D -> Nat]
    BY <1>1
  <1>3. IsFiniteSet(D) /\ Cardinality(D) = n
    BY <1>2, FS_Interval
  <1>4. PICK d \in D : \A e \in D : values[e] <= values[d]
    BY <1>2, <1>3, GreatestValue
  <1>5. {i \in D : values[i] <= values[d]} = D
    BY <1>4
  <1>6. Cardinality({i \in D : values[i] <= values[d]}) >= k
    <2>1. Cardinality(D) >= k
      BY <1>2, <1>3
    <2> QED
      BY <1>5, <2>1
  <1>7. PICK X : X = {values[j] : j \in {i \in D :
                         Cardinality({m \in D : values[m] <= values[i]}) >= k}}
    OBVIOUS
  <1>8. X \in SUBSET Nat /\ values[d] \in X
    BY <1>2, <1>4, <1>6, <1>7
  <1>9. Min(X) \in Nat
    BY <1>8, MinIsLeast
  <1> QED
    BY <1>1, <1>7, <1>9 DEF Nth

(* So there is a median.                                                   *)
LEMMA MedianNat ==
    ASSUME NEW values \in Seq(Nat), Len(values) > 0
    PROVE  Median(values) \in Nat
  <1>1. PICK mid, n : n = Len(values) /\ mid = n \div 2
    OBVIOUS
  <1>2. n \in Nat /\ n > 0 /\ mid \in Nat
    BY <1>1
  <1>3. CASE n % 2 = 1
    <2>1. mid + 1 \in 1 .. n
      BY <1>1, <1>2, <1>3
    <2>2. PICK k : k = mid + 1
      OBVIOUS
    <2>3. Nth(values, k) \in Nat
      BY <1>1, <2>1, <2>2, NthNat
    <2> QED
      BY <1>1, <1>3, <2>2, <2>3 DEF Median
  <1>4. CASE n % 2 # 1
    <2>1. mid \in 1 .. n /\ mid + 1 \in 1 .. n
      BY <1>1, <1>2, <1>4
    <2>2. PICK k : k = mid + 1
      OBVIOUS
    <2>3. PICK a, b : a = Nth(values, mid) /\ b = Nth(values, k)
      OBVIOUS
    <2>4. a \in Nat /\ b \in Nat
      BY <1>1, <2>1, <2>2, <2>3, NthNat
    <2>5. Median(values) = (a + b + 1) \div 2
      BY <1>1, <1>4, <2>2, <2>3 DEF Median
    <2> QED
      BY <2>4, <2>5
  <1> QED
    BY <1>3, <1>4

(* What enters the scores.                                                 *)
LEMMA Quantities ==
    ASSUME RouterInv
    PROVE  /\ IsFiniteSet(Candidates) /\ Candidates # {}
           /\ \A s \in Measured : P50(s) \in Nat
           /\ Measured # {} => \A s \in Candidates : Latency(s) \in Nat
           /\ \A s \in Candidates : SuccessRate(s) \in Int
  <1>1. IsFiniteSet(Candidates) /\ Candidates # {}
    <2>1. PICK n : n = Services
      OBVIOUS
    <2>2. n \in Nat /\ n > 0
      BY <2>1, RouterAssumption
    <2>3. IsFiniteSet(1 .. n) /\ 1 \in 1 .. n
      BY <2>2, FS_Interval
    <2> QED
      BY <2>1, <2>3 DEF Candidates
  <1>2. ASSUME NEW s \in Measured PROVE P50(s) \in Nat
    <2>1. samples[s] \in Seq(Nat) /\ Len(samples[s]) > 0
      BY DEF RouterInv, Measured
    <2> QED
      BY <2>1, MedianNat DEF P50
  <1>3. ASSUME Measured # {} PROVE AssumedLatency \in Nat
    <2>1. PICK n : n = Cardinality(Measured)
      OBVIOUS
    <2>2. IsFiniteSet(Measured)
      BY <1>1, FS_Subset DEF Measured
    <2>3. n \in Nat /\ n > 0
      BY <1>3, <2>1, <2>2, FS_CardinalityType, FS_EmptySet
    <2>4. PICK list : list = SetToSeq(Measured)
      OBVIOUS
    <2>5. \E f \in [1 .. n -> Measured] : IsInjective(f)
      <3>1. PICK f : f \in Bijection(1 .. n, Measured)
        BY <2>1, <2>2, FS_CountingElements, FS_NatBijection DEF ExistsBijection
      <3> QED
        BY <3>1 DEF Bijection, Injection, IsInjective
    <2>6. list \in [1 .. n -> Measured]
      BY <2>1, <2>4, <2>5 DEF SetToSeq
    <2>7. PICK values : values = [i \in 1 .. n |-> P50(list[i])]
      OBVIOUS
    <2>8. values \in Seq(Nat) /\ Len(values) = n
      BY <1>2, <2>3, <2>6, <2>7
    <2>9. Median(values) \in Nat
      BY <2>3, <2>8, MedianNat
    <2> QED
      BY <2>1, <2>4, <2>7, <2>9 DEF AssumedLatency
  <1>4. ASSUME NEW s \in Candidates PROVE SuccessRate(s) \in Int
    <2>1. requests[s] \in Nat /\ successes[s] \in Nat /\ RateUnit \in Nat
      BY RouterAssumption DEF RouterInv
    <2>2. CASE requests[s] = 0
      BY <2>1, <2>2 DEF SuccessRate
    <2>3. CASE requests[s] # 0
      <3>1. PICK q : q = RateUnit \div requests[s]
        OBVIOUS
      <3>2. q \in Int
        BY <2>1, <2>3, <3>1
      <3> QED
        BY <2>1, <2>3, <3>1, <3>2 DEF SuccessRate
    <2> QED
      BY <2>2, <2>3
  <1> QED
    BY <1>1, <1>2, <1>3, <1>4 DEF Latency

(* A price is read as a number.                                            *)
LEMMA MoneyNat ==
    ASSUME RouterInv, NEW s \in Candidates
    PROVE  Money(s) \in Nat /\ Money(s) <= MaxPrice
  <1>1. Double \in [0 .. MaxPrice -> 0 .. MaxPrice] /\ MaxPrice \in Nat
    BY RouterAssumption
  <1>2. CASE price[s] = NotANumber
    BY <1>1, <1>2 DEF Money
  <1>3. CASE price[s] # NotANumber
    <2>1. price[s] \in 0 .. MaxPrice
      BY <1>3 DEF RouterInv
    <2>2. PICK n : n = Double[price[s]]
      OBVIOUS
    <2>3. n \in 0 .. MaxPrice
      BY <1>1, <2>1, <2>2
    <2> QED
      BY <1>1, <1>3, <2>2, <2>3 DEF Money
  <1> QED
    BY <1>2, <1>3

(* What a price is above the least one, which may come out as the same for *)
(* two prices.                                                             *)
LEMMA PriceFacts ==
    ASSUME RouterInv
    PROVE  /\ PriceRange \in Nat /\ PriceRange >= 1
           /\ \A s \in Candidates : PriceAbove(s) \in Nat /\ Money(s) \in Nat
           /\ \A s, c \in Candidates : Money(s) <= Money(c) => PriceAbove(s) <= PriceAbove(c)
  <1>1. PICK X : X = {Money(c) : c \in Candidates}
    OBVIOUS
  <1>2. X \in SUBSET Nat /\ X # {}
    BY <1>1, Quantities, MoneyNat
  <1>3. PICK low : low = Min(X)
    OBVIOUS
  <1>4. low \in Nat /\ \A s \in Candidates : low <= Money(s)
    BY <1>1, <1>2, <1>3, MinIsLeast
  <1>5. \A s \in Candidates : PriceAbove(s) = Rounded[Money(s) - low]
    BY <1>1, <1>3 DEF PriceAbove
  <1>6. MaxPrice \in Nat /\ \A s \in Candidates : Money(s) - low \in 0 .. MaxPrice
    BY <1>4, MoneyNat, RouterAssumption
  <1>7. /\ \A x \in 0 .. MaxPrice : Rounded[x] \in Nat
        /\ \A x, y \in 0 .. MaxPrice : x <= y => Rounded[x] <= Rounded[y]
    <2>1. /\ Rounded \in [0 .. MaxPrice -> 0 .. MaxPrice]
          /\ \A x, y \in 0 .. MaxPrice : x <= y => Rounded[x] <= Rounded[y]
      BY RouterAssumption
    <2> QED
      BY <1>6, <2>1
  <1>8. PICK f : f = [s \in Candidates |-> PriceAbove(s)]
    OBVIOUS
  <1>9. f \in [Candidates -> Nat]
    BY <1>5, <1>6, <1>7, <1>8
  <1>10. {1} \cup {PriceAbove(c) : c \in Candidates} = {1} \cup {f[c] : c \in Candidates}
    BY <1>8
  <1>11. PriceRange \in Nat /\ PriceRange >= 1
    BY <1>9, <1>10, Quantities, MaxIsGreatest DEF PriceRange
  <1>12. ASSUME NEW s \in Candidates, NEW c \in Candidates, Money(s) <= Money(c)
         PROVE  PriceAbove(s) <= PriceAbove(c)
    <2>1. PICK x, y : x = Money(s) - low /\ y = Money(c) - low
      OBVIOUS
    <2>2. x \in 0 .. MaxPrice /\ y \in 0 .. MaxPrice /\ x <= y
      BY <1>4, <1>6, <1>12, <2>1, MoneyNat
    <2> QED
      BY <1>5, <1>7, <2>1, <2>2
  <1>13. \A s \in Candidates : PriceAbove(s) \in Nat
    BY <1>8, <1>9
  <1> QED
    BY <1>11, <1>12, <1>13, MoneyNat

(* The same for latencies, where something is measured.                    *)
LEMMA LatencyFacts ==
    ASSUME RouterInv
    PROVE  /\ LatencyRange \in Nat /\ LatencyRange >= 1
           /\ \A s \in Measured : LatencyAbove(s) \in Nat /\ LatencyAbove(s) <= LatencyRange
           /\ \A s \in Measured : Latency(s) = P50(s)
           /\ Measured # {} =>
                /\ \A s \in Candidates : LatencyAbove(s) \in Int
                /\ \A s, c \in Candidates :
                     LatencyAbove(s) <= LatencyAbove(c) <=> Latency(s) <= Latency(c)
  <1>1. \A s \in Measured : Latency(s) = P50(s)
    BY DEF Latency
  <1>2. PICK low : low = Min({P50(c) : c \in Measured})
    OBVIOUS
  <1>3. Measured # {} => low \in Nat /\ \A s \in Measured : low <= P50(s)
    <2>1. PICK X : X = {P50(c) : c \in Measured}
      OBVIOUS
    <2>2. X \in SUBSET Nat /\ (Measured # {} => X # {}) /\ \A s \in Measured : P50(s) \in X
      BY <2>1, Quantities
    <2> QED
      BY <1>2, <2>1, <2>2, MinIsLeast
  <1>4. \A s \in Candidates : LatencyAbove(s) = Latency(s) - low
    BY <1>2 DEF LatencyAbove
  <1>5. \A s \in Measured : s \in Candidates /\ LatencyAbove(s) \in Nat
    <2>1. \A s \in Measured : s \in Candidates
      BY DEF Measured
    <2> QED
      BY <1>1, <1>3, <1>4, <2>1, Quantities
  <1>6. PICK f : f = [s \in Measured |-> LatencyAbove(s)]
    OBVIOUS
  <1>7. f \in [Measured -> Nat]
    BY <1>5, <1>6
  <1>8. {1} \cup {LatencyAbove(c) : c \in Measured} = {1} \cup {f[c] : c \in Measured}
    BY <1>6
  <1>9. IsFiniteSet(Measured)
    BY Quantities, FS_Subset DEF Measured
  <1>10. /\ LatencyRange \in Nat /\ LatencyRange >= 1
         /\ \A s \in Measured : f[s] <= LatencyRange
    BY <1>7, <1>8, <1>9, MaxIsGreatest DEF LatencyRange
  <1>11. ASSUME Measured # {}
         PROVE  /\ \A s \in Candidates : LatencyAbove(s) \in Int
                /\ \A s, c \in Candidates :
                     LatencyAbove(s) <= LatencyAbove(c) <=> Latency(s) <= Latency(c)
    BY <1>3, <1>4, <1>11, Quantities
  <1> QED
    BY <1>1, <1>5, <1>6, <1>10, <1>11

(* What is chosen ranks before everything else.                            *)
LEMMA ChosenIsFirst ==
    ASSUME RouterInv, NEW strategy, Scores(strategy) \in [Candidates -> Int]
    PROVE  /\ Chosen(strategy) \in Candidates
           /\ \A c \in Candidates \ {Chosen(strategy)} :
                RanksBefore(Scores(strategy), Chosen(strategy), c)
  <1>1. PICK score : score = Scores(strategy)
    OBVIOUS
  <1>2. PICK R : R = {p \in Candidates \X Candidates : RanksBefore(score, p[1], p[2])}
    OBVIOUS
  <1>3. \A a, b \in Candidates : <<a, b>> \in R <=> RanksBefore(score, a, b)
    BY <1>2
  <1>4. \A c \in Candidates : c \in Int /\ score[c] \in Int /\ Money(c) \in Nat
    BY <1>1, RouterAssumption, PriceFacts DEF Candidates
  <1>5. \A a \in Candidates : ~RanksBefore(score, a, a)
    BY <1>4 DEF RanksBefore
  <1>6. \A a, b, c \in Candidates :
          RanksBefore(score, a, b) /\ RanksBefore(score, b, c) => RanksBefore(score, a, c)
    BY <1>4 DEF RanksBefore
  <1>7. \A a, b \in Candidates : RanksBefore(score, a, b) \/ RanksBefore(score, b, a) \/ a = b
    BY <1>4 DEF RanksBefore
  <1>8. \E a \in Candidates : \A b \in Candidates : <<b, a>> \notin R
    <2>1. \A a \in Candidates : <<a, a>> \notin R
      BY <1>3, <1>5
    <2>2. \A a, b, c \in Candidates : <<a, b>> \in R /\ <<b, c>> \in R => <<a, c>> \in R
      BY <1>3, <1>6
    <2>3. IsFiniteSet(Candidates) /\ Candidates # {}
      BY Quantities
    <2> QED
      BY ONLY <2>1, <2>2, <2>3, FirstInOrder
  <1>9. \E a \in Candidates : \A c \in Candidates \ {a} : RanksBefore(score, a, c)
    BY <1>3, <1>7, <1>8
  <1> QED
    BY <1>1, <1>9 DEF Chosen

(* A weight keeps the order.                                               *)
LEMMA Weighing ==
    ASSUME NEW x \in Int, NEW y \in Int, NEW w \in Nat, w >= 1
    PROVE  x * w \in Int /\ (x <= y => x * w <= y * w) /\ (x < y => x * w < y * w)
  OBVIOUS

(* The parts of the balanced score, each with a positive weight.           *)
LEMMA BalancedScore ==
    ASSUME RouterInv
    PROVE  \E u, v, w \in Nat :
             /\ u >= 1 /\ v >= 1 /\ w >= 1
             /\ \A s \in Candidates :
                  Scores("balanced")[s] = 8 * (PriceAbove(s) * u) + 4 * (Slowness(s) * v)
                                            + 4 * ((RateUnit - SuccessRate(s)) * w)
  <1>1. PICK p, l, r : p = PriceRange /\ l = LatencyRange /\ r = RateUnit
    OBVIOUS
  <1>2. p \in Nat /\ p >= 1 /\ l \in Nat /\ l >= 1 /\ r \in Nat /\ r >= 1
    BY <1>1, PriceFacts, LatencyFacts, RouterAssumption
  <1>3. PICK u, v, w : u = l * r /\ v = p * r /\ w = p * l
    OBVIOUS
  <1>4. \A a, b \in Nat : a >= 1 /\ b >= 1 => a * b \in Nat /\ a * b >= 1
    OBVIOUS
  <1>5. u \in Nat /\ v \in Nat /\ w \in Nat /\ u >= 1 /\ v >= 1 /\ w >= 1
    BY <1>2, <1>3, <1>4
  <1>6. \A s \in Candidates :
          Scores("balanced")[s] = 8 * (PriceAbove(s) * u) + 4 * (Slowness(s) * v)
                                    + 4 * ((RateUnit - SuccessRate(s)) * w)
    BY <1>1, <1>3 DEF Scores
  <1> QED
    BY <1>5, <1>6

(* Without a measurement all count as equally slow.                        *)
LEMMA SlownessFacts ==
    ASSUME RouterInv
    PROVE  /\ \A s \in Candidates : Slowness(s) \in Int
           /\ \A s, c \in Candidates : Measured = {} => Slowness(s) = Slowness(c)
           /\ \A s, c \in Candidates :
                Measured # {} => (Slowness(s) <= Slowness(c) <=> Latency(s) <= Latency(c))
  BY LatencyFacts DEF Slowness

(* Scores are numbers.                                                     *)
LEMMA ScoresInt ==
    ASSUME RouterInv, NEW strategy \in {"cheapest", "fastest", "balanced"}
    PROVE  Scores(strategy) \in [Candidates -> Int]
  <1>1. DOMAIN Scores(strategy) = Candidates /\ Scores(strategy) = [s \in Candidates |-> Scores(strategy)[s]]
    BY DEF Scores
  <1>2. CASE strategy = "cheapest"
    BY <1>2, PriceFacts DEF Scores
  <1>3. CASE strategy = "fastest"
    BY <1>3, LatencyFacts DEF Scores, UnmeasuredLast
  <1>4. CASE strategy = "balanced"
    <2>1. PICK u, v, w \in Nat :
             /\ u >= 1 /\ v >= 1 /\ w >= 1
             /\ \A s \in Candidates :
                  Scores("balanced")[s] = 8 * (PriceAbove(s) * u) + 4 * (Slowness(s) * v)
                                            + 4 * ((RateUnit - SuccessRate(s)) * w)
      BY BalancedScore
    <2>2. ASSUME NEW s \in Candidates PROVE Scores("balanced")[s] \in Int
      <3>1. PICK x, y, z : x = PriceAbove(s) /\ y = Slowness(s) /\ z = RateUnit - SuccessRate(s)
        OBVIOUS
      <3>2. x \in Int /\ y \in Int /\ z \in Int
        BY <3>1, PriceFacts, SlownessFacts, Quantities, RouterAssumption
      <3>3. x * u \in Int /\ y * v \in Int /\ z * w \in Int
        BY <2>1, <3>2, Weighing
      <3>4. Scores("balanced")[s] = 8 * (x * u) + 4 * (y * v) + 4 * (z * w)
        BY <2>1, <3>1
      <3> QED
        BY <3>3, <3>4
    <2> QED
      BY <1>1, <1>4, <2>2
  <1> QED
    BY <1>2, <1>3, <1>4

-----------------------------------------------------------------------------
(* Nothing comes before the chosen one, under any of the strategies.       *)
LEMMA CheapestIsCheap ==
    ASSUME RouterInv, NEW c \in Candidates
    PROVE  Money(Chosen("cheapest")) <= Money(c)
  <1>1. PICK b, score : b = Chosen("cheapest") /\ score = Scores("cheapest")
    OBVIOUS
  <1>2. b \in Candidates /\ \A d \in Candidates \ {b} : RanksBefore(score, b, d)
    BY <1>1, ScoresInt, ChosenIsFirst
  <1>3. \A s \in Candidates : score[s] = PriceAbove(s) /\ score[s] \in Nat /\ Money(s) \in Nat
    BY <1>1, PriceFacts DEF Scores
  <1>4. c # b => score[b] < score[c] \/ Money(b) <= Money(c)
    BY <1>2, <1>3 DEF RanksBefore
  <1>5. score[b] < score[c] => Money(b) <= Money(c)
    <2>1. Money(c) <= Money(b) => PriceAbove(c) <= PriceAbove(b)
      BY <1>2, PriceFacts
    <2> QED
      BY <1>2, <1>3, <2>1
  <1>6. c = b => Money(b) <= Money(c)
    BY <1>3
  <1> QED
    BY <1>1, <1>4, <1>5, <1>6

(* A measured one comes before the unmeasured ones.                        *)
LEMMA FastestIsFast ==
    ASSUME RouterInv, NEW c \in Measured
    PROVE  LET fastest == Chosen("fastest")
           IN /\ fastest \in Measured /\ P50(fastest) <= P50(c)
              /\ P50(fastest) = P50(c) => Money(fastest) <= Money(c)
  <1>1. PICK b, score : b = Chosen("fastest") /\ score = Scores("fastest")
    OBVIOUS
  <1>2. b \in Candidates /\ \A d \in Candidates \ {b} : RanksBefore(score, b, d)
    BY <1>1, ScoresInt, ChosenIsFirst
  <1>3. c \in Candidates /\ Money(b) \in Nat /\ Money(c) \in Nat
    BY <1>2, PriceFacts DEF Measured
  <1>4. \A s \in Candidates :
          score[s] = IF s \in Measured THEN LatencyAbove(s) ELSE LatencyRange + 1
    BY <1>1 DEF Scores, UnmeasuredLast
  <1>5. /\ LatencyRange \in Nat
        /\ \A s \in Measured : LatencyAbove(s) \in Nat /\ LatencyAbove(s) <= LatencyRange
    BY LatencyFacts
  <1>6. b # c => score[b] < score[c] \/ (score[b] = score[c] /\ Money(b) <= Money(c))
    BY <1>2, <1>3 DEF RanksBefore
  <1>7. b \in Measured
    BY <1>2, <1>3, <1>4, <1>5, <1>6
  <1>8. /\ LatencyAbove(b) <= LatencyAbove(c) <=> P50(b) <= P50(c)
        /\ LatencyAbove(c) <= LatencyAbove(b) <=> P50(c) <= P50(b)
        /\ P50(b) \in Nat /\ P50(c) \in Nat
    BY <1>2, <1>3, <1>7, LatencyFacts, Quantities
  <1>9. P50(b) <= P50(c) /\ (P50(b) = P50(c) => Money(b) <= Money(c))
    BY <1>2, <1>3, <1>4, <1>5, <1>6, <1>7, <1>8
  <1> QED
    BY <1>1, <1>7, <1>9

(* What is better in one part and not worse in another scores less.        *)
LEMMA BalancedIsUndominated ==
    ASSUME RouterInv, NEW c \in Candidates, NEW b, b = Chosen("balanced"),
           Money(c) <= Money(b), SuccessRate(c) >= SuccessRate(b),
           Measured # {} => Latency(c) <= Latency(b)
    PROVE  /\ Money(c) = Money(b) /\ SuccessRate(c) = SuccessRate(b)
           /\ Measured # {} => Latency(c) = Latency(b)
  <1>1. PICK score : score = Scores("balanced")
    OBVIOUS
  <1>2. b \in Candidates /\ \A d \in Candidates \ {b} : RanksBefore(score, b, d)
    BY <1>1, ScoresInt, ChosenIsFirst
  <1>3. PICK u, v, w \in Nat :
          /\ u >= 1 /\ v >= 1 /\ w >= 1
          /\ \A s \in Candidates :
               score[s] = 8 * (PriceAbove(s) * u) + 4 * (Slowness(s) * v)
                            + 4 * ((RateUnit - SuccessRate(s)) * w)
    BY <1>1, BalancedScore
  <1>4. PICK xb, xc, yb, yc, zb, zc :
          /\ xb = PriceAbove(b) /\ xc = PriceAbove(c)
          /\ yb = Slowness(b) /\ yc = Slowness(c)
          /\ zb = RateUnit - SuccessRate(b) /\ zc = RateUnit - SuccessRate(c)
    OBVIOUS
  <1>5. /\ Money(b) \in Nat /\ Money(c) \in Nat
        /\ SuccessRate(b) \in Int /\ SuccessRate(c) \in Int /\ RateUnit \in Nat
        /\ Measured # {} => Latency(b) \in Nat /\ Latency(c) \in Nat
    BY <1>2, Quantities, PriceFacts, RouterAssumption
  <1>6. xb \in Int /\ xc \in Int /\ xc <= xb
    BY <1>2, <1>4, PriceFacts
  <1>7. /\ yb \in Int /\ yc \in Int /\ yc <= yb
        /\ Measured # {} => (yb <= yc <=> Latency(b) <= Latency(c))
    BY <1>2, <1>4, SlownessFacts
  <1>8. zb \in Int /\ zc \in Int /\ zc <= zb /\ (zb <= zc <=> SuccessRate(b) >= SuccessRate(c))
    BY <1>4, <1>5
  <1>9. PICK pb, pc, qb, qc, rb, rc :
          pb = xb * u /\ pc = xc * u /\ qb = yb * v /\ qc = yc * v /\ rb = zb * w /\ rc = zc * w
    OBVIOUS
  <1>10. pb \in Int /\ pc \in Int /\ pc <= pb /\ (xc < xb => pc < pb)
    BY <1>3, <1>6, <1>9, Weighing
  <1>11. qb \in Int /\ qc \in Int /\ qc <= qb /\ (yc < yb => qc < qb)
    BY <1>3, <1>7, <1>9, Weighing
  <1>12. rb \in Int /\ rc \in Int /\ rc <= rb /\ (zc < zb => rc < rb)
    BY <1>3, <1>8, <1>9, Weighing
  <1>13. score[b] = 8 * pb + 4 * qb + 4 * rb /\ score[c] = 8 * pc + 4 * qc + 4 * rc
    BY <1>2, <1>3, <1>4, <1>9
  <1>14. score[b] <= score[c]
    <2>1. score[b] \in Int /\ score[c] \in Int
      BY <1>10, <1>11, <1>12, <1>13
    <2> QED
      BY <1>2, <2>1 DEF RanksBefore
  <1>15. xb <= xc /\ yb <= yc /\ zb <= zc
    BY <1>6, <1>7, <1>8, <1>10, <1>11, <1>12, <1>13, <1>14
  <1>16. Money(b) <= Money(c)
    <2>1. score[b] = score[c]
      BY <1>10, <1>11, <1>12, <1>13, <1>14
    <2>2. score[b] \in Int
      BY <1>10, <1>11, <1>12, <1>13
    <2> QED
      BY <1>2, <1>5, <2>1, <2>2 DEF RanksBefore
  <1> QED
    BY <1>5, <1>6, <1>7, <1>8, <1>15, <1>16

-----------------------------------------------------------------------------
(* Calls are measured in numbers.                                          *)
LEMMA RouterNextInv ==
    ASSUME RouterInv, [RouterNext]_routerVars
    PROVE  RouterInv'
  <1>1. CASE UNCHANGED routerVars
    BY <1>1 DEF routerVars, RouterInv
  <1>2. CASE RouteCall
    BY <1>2 DEF RouteCall, RouterInv
  <1>3. ASSUME NEW s \in Candidates, NEW ms \in Latencies, Logs(s, ms)
        PROVE  samples' \in [Candidates -> Seq(Nat)]
    BY <1>3, RouterAssumption DEF Logs, RouterInv
  <1>4. ASSUME NEW s \in Candidates, RoutedReturns(s)
        PROVE  RouterInv'
    BY <1>3, <1>4 DEF RoutedReturns, RouterInv
  <1>5. ASSUME NEW s \in Candidates, DirectCall(s)
        PROVE  RouterInv'
    BY <1>3, <1>5 DEF DirectCall, RouterInv
  <1> QED
    BY <1>1, <1>2, <1>4, <1>5 DEF RouterNext

(* What the router chooses is undominated, for any services, prices and    *)
(* latencies, however prices are rounded (if it keeps their order), and    *)
(* whatever was called: the cheapest is the cheapest, the fastest the      *)
(* fastest that was measured, and the balanced one is beaten in nothing by *)
(* a comparable service that matches it in the rest.                       *)
THEOREM ChosenUndominatedHolds == RouterSpec => []ChosenUndominated
  <1>1. RouterInit => RouterInv
    BY RouterAssumption DEF RouterInit, RouterInv, Candidates
  <1>2. RouterInv => ChosenUndominated
    BY CheapestIsCheap, FastestIsFast, BalancedIsUndominated DEF ChosenUndominated
  <1> QED
    BY <1>1, <1>2, RouterNextInv, PTL DEF RouterSpec

-----------------------------------------------------------------------------
Rows == [Workflows -> Nat]
Load == [id : LoadIds, by : {"lookup", "list", "reload"}, asked : Rows, older : BOOLEAN,
         state : {"asked", "fetched", "failed"}, rows : Rows]

MirrorTypeOK ==
    /\ live \in Rows /\ tools \in Rows /\ reloaded \in Rows
    /\ cache \subseteq [rows : Rows, age : Nat]
    /\ loads \subseteq Load
    /\ blurred \in BOOLEAN

(* Revisions only grow: a load has fetched what there was when it was      *)
(* asked for, or more; and one asked for since the last good reload was    *)
(* done has what that published.                                           *)
LoadsGrow ==
    /\ AtLeast(live, reloaded)
    /\ \A l \in loads :
         /\ AtLeast(live, l.asked)
         /\ l.state = "fetched" => AtLeast(l.rows, l.asked)
         /\ ~l.older => AtLeast(l.asked, reloaded)

MirrorInv == MirrorTypeOK /\ LoadsGrow /\ PublishedIsFound

-----------------------------------------------------------------------------
(* Catalogs are ordered by their revisions.                                *)
LEMMA AtLeastTrans ==
    \A a, b, c \in Rows : AtLeast(a, b) /\ AtLeast(b, c) => AtLeast(a, c)
  <1> SUFFICES ASSUME NEW a \in Rows, NEW b \in Rows, NEW c \in Rows,
                      AtLeast(a, b), AtLeast(b, c), NEW w \in Workflows
               PROVE  a[w] >= c[w]
    BY DEF AtLeast
  <1>1. a[w] \in Nat /\ b[w] \in Nat /\ c[w] \in Nat
    BY DEF Rows
  <1>2. a[w] >= b[w] /\ b[w] >= c[w]
    BY DEF AtLeast
  <1> QED
    BY <1>1, <1>2

(* A catalog is no older than itself.                                      *)
LEMMA AtLeastSame == \A a \in Rows : AtLeast(a, a)
  BY DEF AtLeast, Rows

(* Nothing is published, and nothing is there, at the start.               *)
LEMMA MirrorInitInv == MirrorInit => MirrorInv
  <1> SUFFICES ASSUME MirrorInit PROVE MirrorInv
    OBVIOUS
  <1>1. Nothing \in Rows /\ \A w \in Workflows : Nothing[w] = 0
    BY DEF Nothing, Rows
  <1>2. MirrorTypeOK
    BY <1>1 DEF MirrorInit, MirrorTypeOK
  <1>3. LoadsGrow
    BY <1>1, AtLeastSame DEF MirrorInit, LoadsGrow
  <1>4. PublishedIsFound
    BY <1>1 DEF MirrorInit, PublishedIsFound
  <1> QED
    BY <1>2, <1>3, <1>4 DEF MirrorInv

(* An edit makes one revision newer.                                       *)
LEMMA EditKeeps ==
    ASSUME MirrorInv, EditLive
    PROVE  MirrorInv'
  <1>1. PICK w \in Workflows :
          live' = [live EXCEPT ![w] = @ + 1] /\ UNCHANGED <<cache, loads, tools, reloaded, blurred>>
    BY DEF EditLive
  <1>2. live' \in Rows /\ AtLeast(live', live)
    BY <1>1 DEF MirrorInv, MirrorTypeOK, Rows, AtLeast
  <1>3. MirrorTypeOK'
    BY <1>1, <1>2 DEF MirrorInv, MirrorTypeOK
  <1>4. AtLeast(live', reloaded) /\ \A l \in loads : AtLeast(live', l.asked)
    BY <1>2, AtLeastTrans DEF MirrorInv, MirrorTypeOK, LoadsGrow, Load
  <1>5. LoadsGrow'
    BY <1>1, <1>4 DEF MirrorInv, LoadsGrow
  <1>6. PublishedIsFound'
    BY <1>1 DEF MirrorInv, PublishedIsFound
  <1> QED
    BY <1>3, <1>5, <1>6 DEF MirrorInv

(* The cache ages, or is dropped.                                          *)
LEMMA CacheKeeps ==
    ASSUME MirrorInv, Tick \/ InvalidateCache
    PROVE  MirrorInv'
  <1>1. UNCHANGED <<live, loads, tools, reloaded, blurred>>
    BY DEF Tick, InvalidateCache
  <1>2. /\ cache' \subseteq [rows : Rows, age : Nat]
        /\ \A c \in cache' : \E d \in cache : c.rows = d.rows
    <2>1. CASE InvalidateCache
      BY <2>1 DEF InvalidateCache
    <2>2. CASE Tick
      <3>1. ASSUME NEW c \in cache'
            PROVE  c \in [rows : Rows, age : Nat] /\ \E d \in cache : c.rows = d.rows
        <4>1. PICK d \in cache : c = [d EXCEPT !.age = IF @ < Ttl THEN @ + 1 ELSE @]
          BY <2>2, <3>1 DEF Tick
        <4>2. d \in [rows : Rows, age : Nat]
          BY DEF MirrorInv, MirrorTypeOK
        <4> QED
          BY <4>1, <4>2
      <3> QED
        BY <3>1
    <2> QED
      BY <2>1, <2>2
  <1>3. MirrorTypeOK'
    BY <1>1, <1>2 DEF MirrorInv, MirrorTypeOK
  <1>4. LoadsGrow'
    BY <1>1 DEF MirrorInv, LoadsGrow
  <1>5. PublishedIsFound'
    BY <1>1, <1>2 DEF MirrorInv, PublishedIsFound
  <1> QED
    BY <1>3, <1>4, <1>5 DEF MirrorInv

(* A load is asked for: of a catalog no older than the last good reload's. *)
LEMMA BeginKeeps ==
    ASSUME MirrorInv, BeginLoad
    PROVE  MirrorInv'
  <1>1. PICK by \in {"lookup", "list", "reload"}, id \in LoadIds :
          /\ cache' = IF by = "reload" THEN {} ELSE cache
          /\ loads' = loads \cup {[id |-> id, by |-> by, asked |-> live, older |-> FALSE,
                                   state |-> "asked", rows |-> Nothing]}
          /\ UNCHANGED <<live, tools, reloaded, blurred>>
    BY DEF BeginLoad
  <1> DEFINE new == [id |-> id, by |-> by, asked |-> live, older |-> FALSE,
                     state |-> "asked", rows |-> Nothing]
  <1>2. Nothing \in Rows
    BY DEF Nothing, Rows
  <1>3. new \in Load
    BY <1>2 DEF Load, MirrorInv, MirrorTypeOK
  <1>4. cache' \subseteq cache
    BY <1>1
  <1>5. MirrorTypeOK'
    BY <1>1, <1>3, <1>4 DEF MirrorInv, MirrorTypeOK
  <1>6. AtLeast(live, new.asked) /\ new.state # "fetched" /\ AtLeast(new.asked, reloaded)
    BY AtLeastSame DEF MirrorInv, MirrorTypeOK, LoadsGrow
  <1>7. LoadsGrow'
    BY <1>1, <1>6 DEF MirrorInv, LoadsGrow
  <1>8. PublishedIsFound'
    BY <1>1, <1>4 DEF MirrorInv, PublishedIsFound
  <1> QED
    BY <1>5, <1>7, <1>8 DEF MirrorInv

(* It fetches what there is by now, or fails.                              *)
LEMMA FetchKeeps ==
    ASSUME MirrorInv, NEW l \in loads, Fetch(l)
    PROVE  MirrorInv'
  <1>1. PICK got \in {[l EXCEPT !.state = "fetched", !.rows = live], [l EXCEPT !.state = "failed"]} :
          loads' = (loads \ {l}) \cup {got} /\ UNCHANGED <<live, cache, tools, reloaded, blurred>>
    BY DEF Fetch
  <1>2. /\ l \in Load /\ live \in Rows /\ AtLeast(live, l.asked)
        /\ ~l.older => AtLeast(l.asked, reloaded)
    BY DEF MirrorInv, MirrorTypeOK, LoadsGrow
  <1>3. /\ got \in Load /\ got.asked = l.asked /\ got.older = l.older
        /\ got.state = "fetched" => got.rows = live
    BY <1>2 DEF Load
  <1>4. MirrorTypeOK'
    BY <1>1, <1>3 DEF MirrorInv, MirrorTypeOK
  <1>5. LoadsGrow'
    BY <1>1, <1>2, <1>3 DEF MirrorInv, LoadsGrow
  <1>6. PublishedIsFound'
    BY <1>1 DEF MirrorInv, PublishedIsFound
  <1> QED
    BY <1>4, <1>5, <1>6 DEF MirrorInv

(* It is stored.  A good reload starts anew: it has what it was asked for, *)
(* and every other load under way may be older.                            *)
LEMMA FinishKeeps ==
    ASSUME MirrorInv, NEW l \in loads, FinishLoad(l)
    PROVE  MirrorInv'
  <1> DEFINE good == l.by = "reload" /\ l.state = "fetched"
  <1>1. /\ l.state # "asked"
        /\ cache' = {[rows |-> l.rows, age |-> 0]}
        /\ tools' = IF l.by = "reload" THEN Registered(l.rows) ELSE tools
        /\ loads' = {[m EXCEPT !.older = @ \/ good] : m \in loads \ {l}}
        /\ reloaded' = IF good THEN l.asked ELSE reloaded
        /\ blurred' = (~good /\ (blurred \/ l.older \/ l.state = "failed"))
        /\ live' = live
    BY DEF FinishLoad, Stored
  <1>2. /\ l \in Load /\ AtLeast(live, l.asked)
        /\ l.state = "fetched" => AtLeast(l.rows, l.asked)
        /\ ~l.older => AtLeast(l.asked, reloaded)
    BY DEF MirrorInv, MirrorTypeOK, LoadsGrow
  <1>3. l.rows \in Rows /\ l.asked \in Rows /\ tools \in Rows /\ reloaded \in Rows
    BY <1>2 DEF Load, MirrorInv, MirrorTypeOK
  <1>4. /\ Registered(l.rows) \in Rows
        /\ \A w \in Workflows : /\ tools[w] > 0 => Registered(l.rows)[w] > 0
                                /\ l.rows[w] > 0 => Registered(l.rows)[w] > 0
    BY <1>3 DEF Registered, Rows
  <1>5. \A n \in loads' : \E m \in loads : /\ n = [m EXCEPT !.older = @ \/ good]
                                           /\ m \in Load
    BY <1>1 DEF MirrorInv, MirrorTypeOK
  <1>6. MirrorTypeOK'
    <2>1. loads' \subseteq Load
      BY <1>5 DEF Load
    <2>2. cache' \subseteq [rows : Rows, age : Nat]
      BY <1>1, <1>3
    <2>3. tools' \in Rows /\ reloaded' \in Rows /\ blurred' \in BOOLEAN
      BY <1>1, <1>3, <1>4
    <2> QED
      BY <1>1, <2>1, <2>2, <2>3 DEF MirrorInv, MirrorTypeOK
  <1>7. LoadsGrow'
    <2>1. AtLeast(live, reloaded')
      BY <1>1, <1>2 DEF MirrorInv, LoadsGrow
    <2>2. ASSUME NEW n \in loads'
          PROVE  /\ AtLeast(live, n.asked)
                 /\ n.state = "fetched" => AtLeast(n.rows, n.asked)
                 /\ ~n.older => AtLeast(n.asked, reloaded')
      <3>1. PICK m \in loads : n = [m EXCEPT !.older = @ \/ good] /\ m \in Load
        BY <1>5
      <3>2. /\ n.asked = m.asked /\ n.state = m.state /\ n.rows = m.rows
            /\ n.older <=> (m.older \/ good)
        BY <3>1 DEF Load
      <3>3. /\ AtLeast(live, m.asked)
            /\ m.state = "fetched" => AtLeast(m.rows, m.asked)
            /\ ~m.older => AtLeast(m.asked, reloaded)
        BY <3>1 DEF MirrorInv, LoadsGrow
      <3> QED
        BY <1>1, <3>2, <3>3
    <2> QED
      BY <1>1, <2>1, <2>2 DEF LoadsGrow
  <1>8. PublishedIsFound'
    <2>1. ASSUME NEW w \in Workflows, reloaded'[w] > 0
          PROVE  tools'[w] > 0
      <3>1. CASE good
        <4>1. l.asked[w] > 0 /\ l.rows[w] >= l.asked[w]
          BY <1>1, <1>2, <2>1, <3>1 DEF AtLeast
        <4>2. l.rows[w] \in Nat /\ l.asked[w] \in Nat
          BY <1>3 DEF Rows
        <4> QED
          BY <1>1, <1>4, <3>1, <4>1, <4>2
      <3>2. CASE ~good
        <4>1. tools[w] > 0
          BY <1>1, <2>1, <3>2 DEF MirrorInv, PublishedIsFound
        <4> QED
          BY <1>1, <1>4, <4>1
      <3> QED
        BY <3>1, <3>2
    <2>2. ASSUME ~blurred'
          PROVE  AtLeast(l.rows, reloaded')
      <3>1. CASE good
        BY <1>1, <1>2, <3>1
      <3>2. CASE ~good
        <4>1. ~l.older /\ l.state = "fetched" /\ reloaded' = reloaded
          BY <1>1, <1>2, <2>2, <3>2 DEF Load
        <4> QED
          BY <1>2, <1>3, <4>1, AtLeastTrans
      <3> QED
        BY <3>1, <3>2
    <2> QED
      BY <1>1, <2>1, <2>2 DEF PublishedIsFound
  <1> QED
    BY <1>6, <1>7, <1>8 DEF MirrorInv

(* After a reload that reached the gateway, whatever had been published    *)
(* when it was asked for has a tool and is found, unless an older load or  *)
(* a failed one was stored over it: the interleaving of invalidateCache    *)
(* with loads under way takes nothing else away.                           *)
THEOREM ReloadsAreFound == MirrorSpec => []PublishedIsFound
  <1>1. MirrorInv /\ [MirrorNext]_mirrorVars => MirrorInv'
    <2> SUFFICES ASSUME MirrorInv, [MirrorNext]_mirrorVars
                 PROVE  MirrorInv'
      OBVIOUS
    <2>1. CASE UNCHANGED mirrorVars
      BY <2>1 DEF mirrorVars, MirrorInv, MirrorTypeOK, LoadsGrow, PublishedIsFound
    <2> QED
      BY <2>1, EditKeeps, CacheKeeps, BeginKeeps, FetchKeeps, FinishKeeps DEF MirrorNext
  <1>2. MirrorInv => PublishedIsFound
    BY DEF MirrorInv
  <1> QED
    BY <1>1, <1>2, MirrorInitInv, PTL DEF MirrorSpec

-----------------------------------------------------------------------------
(* The shape of the state.                                                 *)
CatalogTypeOK ==
    /\ storeKind \in {"memory", "postgres"}
    /\ skill \in [Publishes -> Skills]
    /\ stage \in [Publishes -> {"unsent", "checking", "free", "created",
                                "refused", "failed", "lost"}]
    /\ overlapped \subseteq Publishes
    /\ \A u \in units : u.by \in Publishes /\ u = Unit(u.by)

(* Two publishes of one id that are open together know of each other; and  *)
(* if one of them found the id free and it is not any more, they were.     *)
Noticed ==
    /\ \A p, q \in Publishes :
         p # q /\ Open(p) /\ Open(q) /\ Id(p) = Id(q) => p \in overlapped
    /\ \A p \in Publishes, u \in units :
         stage[p] = "free" /\ UnitId(u) = Id(p) => {p, u.by} \subseteq overlapped

(* What PublishStands says of the units, before the latest is looked for.  *)
Kept ==
    /\ \A u, v \in units : UnitId(u) = UnitId(v) => u = v
    /\ \A p \in Publishes : stage[p] = "created" =>
         /\ \E u \in units : UnitId(u) = Id(p)
         /\ p \notin overlapped => Unit(p) \in units

CatalogInv == CatalogTypeOK /\ Noticed /\ Kept

USE DEF Taken, Answer

-----------------------------------------------------------------------------
(* Latest leaves nothing newer behind: a unit with the id of a publish is  *)
(* one that a later version must beat.                                     *)
LEMMA KeptStands == CatalogInv => PublishStands
  BY DEF CatalogInv, Kept, PublishStands, Latest, UnitId, Id

(* The invariant holds before anything is published.                       *)
LEMMA InitInv == CatalogInit => CatalogInv
  BY DEF CatalogInit, CatalogInv, CatalogTypeOK, Noticed, Kept, Open

(* Ids and units do not change while skill does not.                       *)
LEMMA UnitFacts ==
    ASSUME NEW p \in Publishes
    PROVE  /\ Unit(p).by = p /\ UnitId(Unit(p)) = Id(p)
           /\ UNCHANGED skill => Id(p)' = Id(p) /\ Unit(p)' = Unit(p)
  BY DEF Unit, UnitId, Id

(* A posted skill becomes the open one that all open ones of its id know.  *)
LEMMA PostInv ==
    ASSUME CatalogInv, NEW p \in Publishes, Post(p)
    PROVE  CatalogInv'
  <1>1. CatalogTypeOK'
    BY UnitFacts DEF CatalogInv, CatalogTypeOK, Post
  <1>2. /\ UNCHANGED <<units, skill>>
        /\ \A q \in Publishes : q # p => stage'[q] = stage[q]
        /\ stage'[p] \in {"checking", "refused"}
        /\ overlapped \subseteq overlapped'
    BY DEF CatalogInv, CatalogTypeOK, Post
  <1>3. \A q \in Publishes : Id(q)' = Id(q) /\ Unit(q)' = Unit(q)
    BY <1>2, UnitFacts
  <1>4. ASSUME NEW q \in Publishes, q # p, stage'[p] = "checking", Open(q), Id(q) = Id(p)
        PROVE  {p, q} \subseteq overlapped'
    BY <1>4 DEF CatalogInv, CatalogTypeOK, Post
  <1>5. Noticed'
    BY <1>2, <1>3, <1>4 DEF CatalogInv, Noticed, Open, UnitId
  <1>6. Kept'
    BY <1>2, <1>3 DEF CatalogInv, Kept, UnitId
  <1> QED
    BY <1>1, <1>5, <1>6 DEF CatalogInv

(* The look-up finds the id free only if no unit bears it.                 *)
LEMMA CheckIdInv ==
    ASSUME CatalogInv, NEW p \in Publishes, CheckId(p)
    PROVE  CatalogInv'
  <1>1. CatalogTypeOK'
    BY UnitFacts DEF CatalogInv, CatalogTypeOK, CheckId
  <1>2. /\ UNCHANGED <<units, skill, overlapped>>
        /\ \A q \in Publishes : q # p => stage'[q] = stage[q]
        /\ Open(p) /\ stage'[p] \in {"free", "refused"}
        /\ stage'[p] = "free" => \A u \in units : UnitId(u) # Id(p)
    BY DEF CatalogInv, CatalogTypeOK, CheckId, Open
  <1>3. \A q \in Publishes : Id(q)' = Id(q) /\ Unit(q)' = Unit(q)
    BY <1>2, UnitFacts
  <1>4. Noticed'
    BY <1>2, <1>3 DEF CatalogInv, Noticed, Open, UnitId
  <1>5. Kept'
    BY <1>2, <1>3 DEF CatalogInv, Kept, UnitId
  <1> QED
    BY <1>1, <1>4, <1>5 DEF CatalogInv

(* A put, answered or not: where it meets a unit of its id, both publishes *)
(* overlapped, so neither is promised to stand alone.                      *)
LEMMA StoreInv ==
    ASSUME CatalogInv, NEW p \in Publishes, stage[p] = "free",
           NEW how \in {"created", "failed"}, Answer(p, how),
           units' = WithUnit(p), UNCHANGED <<storeKind, skill, overlapped>>
    PROVE  CatalogInv'
  <1>1. \A q \in Publishes : /\ Id(q)' = Id(q) /\ Unit(q)' = Unit(q)
                             /\ Unit(q).by = q /\ UnitId(Unit(q)) = Id(q)
    BY UnitFacts
  <1>2. /\ \A q \in Publishes : q # p => stage'[q] = stage[q]
        /\ stage'[p] = how
    BY DEF CatalogInv, CatalogTypeOK
  <1>3. /\ units' \subseteq units \cup {Unit(p)}
        /\ \E u \in units' : UnitId(u) = Id(p)
        /\ \A u \in units' : \A v \in units' :
             UnitId(u) = Id(p) /\ UnitId(v) = Id(p) => u = v
        /\ \A u \in units : UnitId(u) # Id(p) => u \in units'
        /\ (\A u \in units : UnitId(u) # Id(p)) => Unit(p) \in units'
    BY <1>1 DEF CatalogInv, Kept, WithUnit
  <1>4. CatalogTypeOK'
    BY <1>1, <1>3 DEF CatalogInv, CatalogTypeOK
  <1>5. Noticed'
    <2>1. ASSUME NEW q \in Publishes, q # p, stage[q] = "free", Id(q) = Id(p)
          PROVE  {p, q} \subseteq overlapped
      BY <2>1 DEF CatalogInv, Noticed, Open
    <2> QED
      BY <1>1, <1>2, <1>3, <2>1 DEF CatalogInv, Noticed, Open, UnitId
  <1>6. Kept'
    <2>1. \A u, v \in units' : UnitId(u) = UnitId(v) => u = v
      BY <1>1, <1>3 DEF CatalogInv, Kept
    <2>2. ASSUME NEW q \in Publishes, stage'[q] = "created"
          PROVE  /\ \E u \in units' : UnitId(u) = Id(q)
                 /\ q \notin overlapped => Unit(q) \in units'
      <3>1. CASE q = p
        BY <1>1, <1>3, <3>1 DEF CatalogInv, Noticed
      <3>2. CASE q # p
        <4>1. stage[q] = "created"
          BY <1>2, <2>2, <3>2
        <4>2. CASE Id(q) = Id(p)
          BY <1>1, <1>3, <4>1, <4>2 DEF CatalogInv, Noticed, Kept
        <4>3. CASE Id(q) # Id(p)
          BY <1>1, <1>3, <4>1, <4>3 DEF CatalogInv, Kept
        <4> QED
          BY <4>2, <4>3
      <3> QED
        BY <3>1, <3>2
    <2> QED
      BY <1>1, <2>1, <2>2 DEF Kept, UnitId
  <1> QED
    BY <1>4, <1>5, <1>6 DEF CatalogInv

(* A call that fails before anything is stored is just over.               *)
LEMMA FailInv ==
    ASSUME CatalogInv, NEW p \in Publishes, Open(p), Answer(p, "failed"),
           UNCHANGED <<storeKind, units, skill, overlapped>>
    PROVE  CatalogInv'
  <1>1. \A q \in Publishes : Id(q)' = Id(q) /\ Unit(q)' = Unit(q)
    BY UnitFacts
  <1>2. /\ \A q \in Publishes : q # p => stage'[q] = stage[q]
        /\ stage'[p] = "failed"
    BY DEF CatalogInv, CatalogTypeOK
  <1>3. CatalogTypeOK'
    BY <1>1 DEF CatalogInv, CatalogTypeOK
  <1> QED
    BY <1>1, <1>2, <1>3 DEF CatalogInv, Noticed, Kept, Open, UnitId

(* A restart ends what was open, and takes back what was only in memory.   *)
LEMMA RestartInv ==
    ASSUME CatalogInv, RestartCatalog
    PROVE  CatalogInv'
  <1>1. \A q \in Publishes : Id(q)' = Id(q) /\ Unit(q)' = Unit(q)
    BY UnitFacts DEF RestartCatalog
  <1>2. \A q \in Publishes :
          /\ stage'[q] \notin {"checking", "free"}
          /\ stage'[q] = "created" => stage[q] = "created" /\ units' = units
    BY DEF CatalogInv, CatalogTypeOK, RestartCatalog, Open
  <1>3. units' \subseteq units
    BY DEF RestartCatalog
  <1>4. CatalogTypeOK'
    BY <1>1, <1>3 DEF CatalogInv, CatalogTypeOK, RestartCatalog
  <1>5. Noticed'
    BY <1>2 DEF Noticed, Open
  <1>6. Kept'
    BY <1>1, <1>2, <1>3 DEF CatalogInv, Kept, UnitId, RestartCatalog
  <1> QED
    BY <1>4, <1>5, <1>6 DEF CatalogInv

(* ... is kept when the catalog does nothing,                              *)
LEMMA StutterInv ==
    ASSUME CatalogInv, UNCHANGED catVars
    PROVE  CatalogInv'
  BY DEF CatalogInv, CatalogTypeOK, Noticed, Kept, catVars, Unit, UnitId, Id, Open

(* ... and by each of its steps.                                           *)
LEMMA NextInv == CatalogInv /\ [CatalogNext]_catVars => CatalogInv'
  <1> SUFFICES ASSUME CatalogInv, [CatalogNext]_catVars PROVE CatalogInv'
    OBVIOUS
  <1>1. CASE RestartCatalog
    BY <1>1, RestartInv
  <1>2. ASSUME NEW p \in Publishes, Post(p) PROVE CatalogInv'
    BY <1>2, PostInv
  <1>3. ASSUME NEW p \in Publishes, CheckId(p) PROVE CatalogInv'
    BY <1>3, CheckIdInv
  <1>4. ASSUME NEW p \in Publishes, PutUnit(p) PROVE CatalogInv'
    BY <1>4, StoreInv DEF PutUnit
  <1>5. ASSUME NEW p \in Publishes, DatabaseFails(p) PROVE CatalogInv'
    BY <1>5, StoreInv, FailInv DEF DatabaseFails
  <1>6. CASE UNCHANGED catVars
    BY <1>6, StutterInv
  <1> QED
    BY <1>1, <1>2, <1>3, <1>4, <1>5, <1>6 DEF CatalogNext

-----------------------------------------------------------------------------
(* A skill that was answered 201 stays published and is never outrun by an *)
(* older version, for any publishes that overlap in any way, in memory and *)
(* in Postgres, whatever the database loses.                               *)
THEOREM PublishStandsHolds == CatalogSpec => []PublishStands
  BY InitInv, NextInv, KeptStands, PTL DEF CatalogSpec
=============================================================================
