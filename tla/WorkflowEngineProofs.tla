------------------------ MODULE WorkflowEngineProofs ------------------------
(***************************************************************************)
(* Theorems about WorkflowEngine for every set of workflows.               *)
(*                                                                         *)
(* The argument.  What the scheduler recorded of a node (status) and what  *)
(* the node's own execution says (exec) agree: a node is in execution only *)
(* while its wave runs, a settled one keeps its outcome, a skipped one has *)
(* never started, and the edges that fired are those its outcome asks for  *)
(* (Agreement).  With that every turn of the loop is an Advance of the     *)
(* rule and every end of an attempt a Settle.  An operation carries the    *)
(* number of its attempt, and attempts are numbered upwards, so there is   *)
(* one operation per attempt (OneOpPerAttempt); without that the answer of *)
(* one operation could end the attempt another one is awaited for.         *)
(***************************************************************************)
EXTENDS WorkflowEngine, FiniteSetTheorems, TLAPS

USE DEF MayRetry, NextAttempt

ExecSteps == {"idle", "attempt", "backoff", "ok", "false", "error"}
Settled == {"ok", "false", "error"}

(* The shape of the run that the proof needs.                              *)
Shape ==
    /\ wf \in Workflows
    /\ phase \in {"scheduling", "running", "over"}
    /\ status \in [Nodes -> Settled \cup {"waiting", "skipped"}]
    /\ fired \subseteq wf.edges
    /\ ctx \subseteq Nodes
    /\ exec \in [Nodes -> [step : ExecSteps, attempt : Nat]]
    /\ executions \in Nat
    /\ failed \in BOOLEAN
    /\ halted \in BOOLEAN

NodesAgree ==
    \A n \in Nodes :
         /\ status[n] \in Settled => exec[n].step = status[n]
         /\ status[n] = "skipped" => exec[n].step = "idle"
         /\ phase # "running" /\ status[n] = "waiting" => exec[n].step = "idle"
         /\ exec[n].step \in {"attempt", "backoff"} => status[n] = "waiting"
         /\ exec[n].step = "false" => IsCondition(n)
         /\ exec[n].step = "idle" => exec[n].attempt = 0
         /\ exec[n].step = "backoff" => exec[n].attempt <= wf.retries[n]
         /\ exec[n].attempt <= wf.retries[n] + 1

EdgesAgree ==
    \A e \in wf.edges :
        e \in fired <=> status[e.from] \in Settled /\ Fires(e, status[e.from])

GuardAgrees ==
    /\ phase = "running" => ~failed
    /\ ~failed => /\ executions <= MaxExecutions
                  /\ \A n \in Nodes : status[n] # "error"
    /\ executions <= MaxExecutions + Cardinality(Nodes)

Agreement == NodesAgree /\ EdgesAgree /\ GuardAgrees

OneOpPerAttempt ==
    /\ \A o \in ops :
         /\ o = [node |-> o.node, attempt |-> o.attempt, item |-> o.item]
         /\ o.node \in Nodes
         /\ o.attempt \in Nat \ {0}
         /\ o.attempt <= exec[o.node].attempt
         /\ o.item \in 1 .. wf.items[o.node]
    /\ \A o, p \in ops : o.node = p.node /\ o.attempt = p.attempt => o = p

NothingLeftBehind == \A o \in ops : o.node \notin wf.timed => Awaited(o)

EngineInv == Shape /\ Agreement /\ OneOpPerAttempt /\ NothingLeftBehind

(* What the code knows of the graph it was given.                          *)
LEMMA GraphFacts ==
    ASSUME Shape
    PROVE  /\ IsFiniteSet(Nodes)
           /\ \A e \in wf.edges : e.from \in Nodes /\ e.to \in Nodes /\ e.branch \in Branches
           /\ \A n \in Nodes : /\ wf.kind[n] \in Kinds
                               /\ wf.items[n] \in Nat \ {0}
                               /\ wf.retries[n] \in Nat
           /\ Cardinality(Nodes) \in Nat
  <1>1. /\ IsFiniteSet(Nodes)
        /\ wf.edges \subseteq [from : Nodes, to : Nodes, branch : Branches]
        /\ wf.kind \in [Nodes -> Kinds]
        /\ wf.items \in [Nodes -> Nat \ {0}]
        /\ wf.retries \in [Nodes -> Nat]
    BY GraphAssumption DEF Shape, Nodes
  <1> QED
    BY <1>1, FS_CardinalityType

(* runGraph starts with every node waiting and nothing in flight.          *)
LEMMA InitInv == Init => EngineInv
  <1> SUFFICES ASSUME Init PROVE EngineInv
    OBVIOUS
  <1>1. Shape
    BY DEF Init, Shape, Settled, ExecSteps
  <1>2. Agreement
    BY <1>1, GraphFacts, EngineAssumption
    DEF Init, Agreement, NodesAgree, EdgesAgree, GuardAgrees, Settled
  <1>3. OneOpPerAttempt /\ NothingLeftBehind
    BY DEF Init, OneOpPerAttempt, NothingLeftBehind
  <1> QED
    BY <1>1, <1>2, <1>3 DEF EngineInv

(* An attempt begins with one of these steps; only one that launched an    *)
(* operation waits.                                                        *)
LEMMA BegunFacts ==
    ASSUME Shape, NEW n \in Nodes, NEW k \in Nat \ {0}, k <= wf.retries[n] + 1,
           NEW v \in Settled
    PROVE  /\ Begun(n, k, v) \in [step : ExecSteps \ {"idle"}, attempt : Nat]
           /\ Begun(n, k, v).attempt = k
           /\ Begun(n, k, v).step = "false" => IsCondition(n)
           /\ Begun(n, k, v).step = "backoff" => k <= wf.retries[n]
           /\ \A o \in Launched(n, k) : /\ o = [node |-> n, attempt |-> k, item |-> 1]
                                        /\ Begun(n, k, v).step = "attempt"
  <1>1. /\ wf.retries[n] \in Nat
        /\ Works(n) => ~IsCondition(n)
    BY GraphFacts DEF Works, IsCondition
  <1>2. CASE ~(wf.uses[n] \subseteq ctx) \/ (IsCondition(n) /\ v = "error")
    BY <1>1, <1>2 DEF Begun, AfterFailure, Launched, ExecSteps
  <1>3. CASE ~(~(wf.uses[n] \subseteq ctx) \/ (IsCondition(n) /\ v = "error"))
    BY <1>1, <1>3 DEF Begun, Launched, ExecSteps, Settled
  <1> QED
    BY <1>2, <1>3

-----------------------------------------------------------------------------
(* The scheduling loop.                                                    *)

(* Marking nodes as skipped disturbs nothing else: they were waiting, none *)
(* of them had started, and a skip fires no edge.                          *)
LEMMA SkipFacts ==
    ASSUME EngineInv, phase = "scheduling", MarkSkipped, UNCHANGED <<wf, fired>>
    PROVE  /\ status' \in [Nodes -> Settled \cup {"waiting", "skipped"}]
           /\ \A n \in Nodes :
                \/ status'[n] = status[n]
                \/ /\ n \in Ready \ ToRun
                   /\ status[n] = "waiting" /\ status'[n] = "skipped"
                   /\ exec[n].step = "idle"
           /\ \A n \in ToRun : status'[n] = "waiting" /\ exec[n].step = "idle"
           /\ EdgesAgree'
  <1>1. /\ status \in [Nodes -> Settled \cup {"waiting", "skipped"}]
        /\ \A n \in Nodes : status'[n] = IF n \in Ready \ ToRun THEN "skipped" ELSE status[n]
        /\ Ready \subseteq Nodes /\ ToRun \subseteq Ready
        /\ \A n \in Ready : status[n] = "waiting"
        /\ \A n \in Nodes : status[n] = "waiting" => exec[n].step = "idle"
    BY DEF EngineInv, Shape, Agreement, NodesAgree, MarkSkipped, Ready, ToRun
  <1>2. status' \in [Nodes -> Settled \cup {"waiting", "skipped"}]
    BY <1>1 DEF MarkSkipped
  <1>3. \A e \in wf.edges : /\ status'[e.from] \in Settled <=> status[e.from] \in Settled
                            /\ status'[e.from] \in Settled => status'[e.from] = status[e.from]
    BY <1>1, GraphFacts DEF Settled, EngineInv
  <1>4. EdgesAgree'
    BY <1>3 DEF EngineInv, Agreement, EdgesAgree, Fires, IsCondition
  <1> QED
    BY <1>1, <1>2, <1>4

(* A sweep that starts nothing.                                            *)
LEMMA SkipUntakenInv == ASSUME EngineInv, SkipUntaken PROVE EngineInv'
  <1>1. /\ phase = "scheduling" /\ phase' = phase
        /\ UNCHANGED <<wf, fired, ctx, exec, ops, executions, failed, halted>>
        /\ MarkSkipped /\ ~failed
    BY DEF SkipUntaken, Sweep, Continues
  <1>2. Shape'
    BY <1>1, SkipFacts DEF EngineInv, Shape, Nodes
  <1>3. Agreement'
    <2>1. NodesAgree'
      BY <1>1, SkipFacts DEF EngineInv, Agreement, NodesAgree, Nodes, Settled, IsCondition
    <2>2. EdgesAgree'
      BY <1>1, SkipFacts
    <2>3. GuardAgrees'
      BY <1>1, SkipFacts DEF EngineInv, Agreement, GuardAgrees, Nodes
    <2> QED
      BY <2>1, <2>2, <2>3 DEF Agreement
  <1>4. OneOpPerAttempt'
    BY <1>1 DEF EngineInv, OneOpPerAttempt, Nodes
  <1>5. NothingLeftBehind'
    BY <1>1 DEF EngineInv, NothingLeftBehind, Awaited, Trying, Wave
  <1> QED
    BY <1>2, <1>3, <1>4, <1>5 DEF EngineInv

(* How many nodes a wave may start.                                        *)
LEMMA ToRunFacts ==
    ASSUME Shape
    PROVE  Cardinality(ToRun) \in Nat /\ Cardinality(ToRun) <= Cardinality(Nodes)
  <1>1. ToRun \subseteq Nodes /\ IsFiniteSet(Nodes)
    BY GraphFacts DEF ToRun, Ready
  <1> QED
    BY <1>1, FS_Subset, FS_CardinalityType

(* The execution guard trips.                                              *)
LEMMA StopRunawayInv == ASSUME EngineInv, StopRunaway PROVE EngineInv'
  <1>1. /\ phase = "scheduling" /\ phase' = phase
        /\ UNCHANGED <<wf, fired, ctx, exec, ops, halted>>
        /\ MarkSkipped /\ ~failed /\ failed' = TRUE
        /\ executions' = executions + Cardinality(ToRun)
    BY DEF StopRunaway, Sweep, Continues
  <1>2. /\ executions' \in Nat
        /\ executions' <= MaxExecutions + Cardinality(Nodes)
    BY <1>1, ToRunFacts, GraphFacts, EngineAssumption
    DEF EngineInv, Shape, Agreement, GuardAgrees
  <1>3. Shape'
    BY <1>1, <1>2, SkipFacts DEF EngineInv, Shape, Nodes
  <1>4. Agreement'
    <2>1. NodesAgree'
      BY <1>1, SkipFacts DEF EngineInv, Agreement, NodesAgree, Nodes, Settled, IsCondition
    <2>2. EdgesAgree'
      BY <1>1, SkipFacts
    <2>3. GuardAgrees'
      BY <1>1, <1>2 DEF GuardAgrees, Nodes
    <2> QED
      BY <2>1, <2>2, <2>3 DEF Agreement
  <1>5. OneOpPerAttempt'
    BY <1>1 DEF EngineInv, OneOpPerAttempt, Nodes
  <1>6. NothingLeftBehind'
    BY <1>1 DEF EngineInv, NothingLeftBehind, Awaited, Trying, Wave
  <1> QED
    BY <1>3, <1>4, <1>5, <1>6 DEF EngineInv

(* A wave starts: its nodes were idle, so they had no operations, and each *)
(* of them begins its first attempt.                                       *)
LEMMA StartWaveInv == ASSUME EngineInv, StartWave PROVE EngineInv'
  <1> DEFINE conditions == {n \in ToRun : IsCondition(n)}
  <1>1. PICK v \in [conditions -> {"ok", "false", "error"}] :
          exec' = [n \in Nodes |->
                     IF n \in ToRun THEN Begun(n, 1, IF IsCondition(n) THEN v[n] ELSE "ok")
                                    ELSE exec[n]]
    BY DEF StartWave
  <1> DEFINE answer(n) == IF IsCondition(n) THEN v[n] ELSE "ok"
  <1>2. /\ phase = "scheduling" /\ phase' = "running"
        /\ UNCHANGED <<wf, fired, ctx, failed, halted>>
        /\ MarkSkipped /\ ~failed
        /\ executions' = executions + Cardinality(ToRun) /\ executions' <= MaxExecutions
        /\ ops' = ops \cup UNION {Launched(n, 1) : n \in ToRun}
        /\ ToRun \subseteq Nodes
    BY DEF StartWave, Sweep, Continues, ToRun, Ready
  <1>3. \A n \in ToRun : answer(n) \in Settled
    BY DEF Settled
  <1> HIDE DEF answer
  <1>4. /\ \A n \in Nodes : n \in ToRun => exec'[n] = Begun(n, 1, answer(n))
        /\ \A n \in Nodes : n \notin ToRun => exec'[n] = exec[n]
    BY <1>1 DEF answer
  <1>5. \A n \in ToRun :
          /\ exec'[n] \in [step : ExecSteps \ {"idle"}, attempt : Nat]
          /\ exec'[n].attempt = 1
          /\ exec'[n].step = "false" => IsCondition(n)
          /\ exec'[n].step = "backoff" => 1 <= wf.retries[n]
          /\ \A o \in Launched(n, 1) : /\ o = [node |-> n, attempt |-> 1, item |-> 1]
                                       /\ exec'[n].step = "attempt"
    BY <1>2, <1>3, <1>4, BegunFacts, GraphFacts DEF EngineInv
  <1>6. /\ \A n \in ToRun : status'[n] = "waiting" /\ exec[n].step = "idle"
        /\ status' \in [Nodes -> Settled \cup {"waiting", "skipped"}]
        /\ EdgesAgree'
        /\ \A n \in Nodes : \/ status'[n] = status[n]
                            \/ /\ status[n] = "waiting" /\ status'[n] = "skipped"
                               /\ exec[n].step = "idle" /\ n \notin ToRun
    BY <1>2, SkipFacts
  <1>7. Shape'
    <2>1. exec' \in [Nodes -> [step : ExecSteps, attempt : Nat]]
      BY <1>1, <1>4, <1>5 DEF EngineInv, Shape
    <2>2. executions' \in Nat
      BY <1>2, ToRunFacts DEF EngineInv, Shape
    <2> QED
      BY <1>2, <1>6, <2>1, <2>2 DEF EngineInv, Shape, Nodes
  <1>8. Agreement'
    <2>1. NodesAgree'
      <3> SUFFICES ASSUME NEW n \in Nodes PROVE NodesAgree!(n)'
        BY <1>2 DEF NodesAgree, Nodes
      <3>1. CASE n \in ToRun
        BY <1>2, <1>5, <1>6, <3>1, GraphFacts DEF EngineInv, Settled, IsCondition
      <3>2. CASE n \notin ToRun
        BY <1>2, <1>4, <1>6, <3>2
        DEF EngineInv, Agreement, NodesAgree, Settled, IsCondition
      <3> QED
        BY <3>1, <3>2
    <2>2. GuardAgrees'
      <3>1. \A n \in Nodes : status'[n] # "error"
        BY <1>2, <1>6 DEF EngineInv, Agreement, GuardAgrees
      <3>2. executions' <= MaxExecutions + Cardinality(Nodes)
        BY <1>2, ToRunFacts, GraphFacts, EngineAssumption DEF EngineInv, Shape
      <3> QED
        BY <1>2, <3>1, <3>2 DEF GuardAgrees, Nodes
    <2> QED
      BY <1>6, <2>1, <2>2 DEF Agreement
  <1>9. \A o \in ops : o.node \in Nodes /\ o.node \notin ToRun
    BY <1>6 DEF EngineInv, OneOpPerAttempt, Agreement, NodesAgree
  <1>10. \A o \in ops' : \/ o \in ops
                         \/ /\ o.node \in ToRun /\ o.attempt = 1 /\ o.item = 1
                            /\ o = [node |-> o.node, attempt |-> 1, item |-> 1]
                            /\ exec'[o.node].step = "attempt"
    BY <1>2, <1>5
  <1>11. OneOpPerAttempt'
    <2>1. ASSUME NEW o \in ops'
          PROVE  /\ o = [node |-> o.node, attempt |-> o.attempt, item |-> o.item]
                 /\ o.node \in Nodes /\ o.attempt \in Nat \ {0}
                 /\ o.attempt <= exec'[o.node].attempt
                 /\ o.item \in 1 .. wf.items[o.node]
      <3>1. CASE o \in ops
        BY <1>4, <1>9, <3>1 DEF EngineInv, OneOpPerAttempt
      <3>2. CASE o \notin ops
        BY <1>2, <1>5, <1>10, <3>2, GraphFacts DEF EngineInv
      <3> QED
        BY <3>1, <3>2
    <2>2. ASSUME NEW o \in ops', NEW p \in ops', o.node = p.node, o.attempt = p.attempt
          PROVE  o = p
      BY <1>9, <1>10, <2>2 DEF EngineInv, OneOpPerAttempt
    <2> QED
      BY <1>2, <2>1, <2>2 DEF OneOpPerAttempt, Nodes
  <1>12. NothingLeftBehind'
    <2> SUFFICES ASSUME NEW o \in ops', o.node \notin wf.timed PROVE Awaited(o)'
      BY <1>2 DEF NothingLeftBehind
    <2>1. o \notin ops
      BY <1>2 DEF EngineInv, NothingLeftBehind, Awaited, Trying
    <2>2. /\ o.node \in ToRun /\ o.attempt = 1 /\ exec'[o.node].step = "attempt"
          /\ o.node \in Nodes /\ status'[o.node] = "waiting" /\ exec'[o.node].attempt = 1
      BY <1>2, <1>5, <1>6, <1>10, <2>1
    <2> QED
      BY <1>2, <2>2 DEF Awaited, Trying, Wave, Nodes
  <1> QED
    BY <1>7, <1>8, <1>11, <1>12 DEF EngineInv

(* The wave is over: its nodes keep their outcomes, and fire the edges     *)
(* those ask for.  None of them is in an attempt, so nothing is awaited.   *)
LEMMA CollectInv == ASSUME EngineInv, Collect PROVE EngineInv'
  <1>1. /\ phase = "running" /\ phase' = "scheduling"
        /\ UNCHANGED <<wf, exec, ops, executions>>
        /\ \A n \in Wave : exec[n].step \in Settled
        /\ status' = [n \in Nodes |-> IF n \in Wave THEN exec[n].step ELSE status[n]]
        /\ fired' = fired \cup {e \in wf.edges : e.from \in Wave /\ Fires(e, exec[e.from].step)}
        /\ ctx' = ctx \cup {n \in Wave : exec[n].step = "ok" /\ ~IsCondition(n)}
        /\ failed' = \E n \in Wave : exec[n].step = "error"
        /\ halted' = (halted \/ \E n \in Wave : Halts(n))
        /\ Wave \subseteq Nodes
        /\ \A n \in Wave : status[n] = "waiting"
        /\ ~failed
    BY DEF Collect, AllSettled, Settled, Wave, EngineInv, Agreement, GuardAgrees
  <1>2. /\ status' \in [Nodes -> Settled \cup {"waiting", "skipped"}]
        /\ \A n \in Nodes : n \in Wave => status'[n] = exec[n].step
        /\ \A n \in Nodes : n \notin Wave => status'[n] = status[n]
    BY <1>1 DEF EngineInv, Shape
  <1>3. Shape'
    <2>1. failed' \in BOOLEAN /\ halted' \in BOOLEAN
      BY <1>1 DEF EngineInv, Shape
    <2>2. fired' \subseteq wf.edges /\ ctx' \subseteq Nodes
      BY <1>1 DEF EngineInv, Shape
    <2> QED
      BY <1>1, <1>2, <2>1, <2>2 DEF EngineInv, Shape, Nodes
  <1>4. Agreement'
    <2>1. NodesAgree'
      BY <1>1, <1>2 DEF EngineInv, Shape, Agreement, NodesAgree, Nodes, Settled, Wave, IsCondition
    <2>2. EdgesAgree'
      <3> SUFFICES ASSUME NEW e \in wf.edges
                   PROVE  e \in fired' <=> status'[e.from] \in Settled
                                             /\ Fires(e, status'[e.from])
        BY <1>1 DEF EdgesAgree, Fires, IsCondition
      <3>1. e.from \in Nodes
        BY GraphFacts DEF EngineInv
      <3>2. CASE e.from \in Wave
        <4>1. e \notin fired
          BY <1>1, <3>2 DEF EngineInv, Agreement, EdgesAgree, Settled
        <4> QED
          BY <1>1, <1>2, <3>1, <3>2, <4>1
      <3>3. CASE e.from \notin Wave
        BY <1>1, <1>2, <3>1, <3>3 DEF EngineInv, Agreement, EdgesAgree
      <3> QED
        BY <3>2, <3>3
    <2>3. GuardAgrees'
      BY <1>1, <1>2 DEF EngineInv, Agreement, GuardAgrees, Nodes
    <2> QED
      BY <2>1, <2>2, <2>3 DEF Agreement
  <1>5. OneOpPerAttempt'
    BY <1>1 DEF EngineInv, OneOpPerAttempt, Nodes
  <1>6. NothingLeftBehind'
    BY <1>1 DEF EngineInv, NothingLeftBehind, Awaited, Trying, Settled
  <1> QED
    BY <1>3, <1>4, <1>5, <1>6 DEF EngineInv

(* The run reports.                                                        *)
LEMMA FinishInv == ASSUME EngineInv, Finish PROVE EngineInv'
  <1>1. /\ phase = "scheduling" /\ phase' = "over"
        /\ UNCHANGED <<wf, status, fired, ctx, exec, ops, executions, failed, halted>>
    BY DEF Finish
  <1>2. Shape'
    BY <1>1 DEF EngineInv, Shape, Nodes
  <1>3. Agreement'
    BY <1>1 DEF EngineInv, Agreement, NodesAgree, EdgesAgree, GuardAgrees, Nodes, Fires,
                IsCondition
  <1>4. OneOpPerAttempt'
    BY <1>1 DEF EngineInv, OneOpPerAttempt, Nodes
  <1>5. NothingLeftBehind'
    BY <1>1 DEF EngineInv, NothingLeftBehind, Awaited, Trying
  <1> QED
    BY <1>2, <1>3, <1>4, <1>5 DEF EngineInv

-----------------------------------------------------------------------------
(* The attempts.                                                           *)

(* A node whose attempt ends, or whose next attempt begins, is in the      *)
(* running wave; the scheduler's record of it does not change.             *)
LEMMA AttemptStep ==
    ASSUME EngineInv, NEW n \in Nodes, exec[n].step \in {"attempt", "backoff"},
           NEW new \in [step : ExecSteps \ {"idle"}, attempt : Nat],
           exec' = [exec EXCEPT ![n] = new],
           UNCHANGED <<wf, phase, status, fired, ctx, executions, failed, halted>>,
           new.attempt <= wf.retries[n] + 1,
           new.step = "backoff" => new.attempt <= wf.retries[n],
           new.step = "false" => IsCondition(n)
    PROVE  /\ Shape' /\ Agreement'
           /\ exec'[n] = new
           /\ \A m \in Nodes : m # n => exec'[m] = exec[m]
           /\ phase = "running" /\ status[n] = "waiting"
  <1>1. /\ exec'[n] = new
        /\ \A m \in Nodes : m # n => exec'[m] = exec[m]
    BY DEF EngineInv, Shape
  <1>2. phase = "running" /\ status[n] = "waiting"
    BY DEF EngineInv, Agreement, NodesAgree
  <1>3. Shape'
    BY DEF EngineInv, Shape, Nodes
  <1>4. NodesAgree'
    <2> SUFFICES ASSUME NEW m \in Nodes PROVE NodesAgree!(m)'
      BY DEF NodesAgree, Nodes
    <2>1. CASE m = n
      BY <1>1, <1>2, <2>1 DEF Settled, IsCondition
    <2>2. CASE m # n
      BY <1>1, <2>2 DEF EngineInv, Agreement, NodesAgree, Settled, IsCondition
    <2> QED
      BY <2>1, <2>2
  <1>5. EdgesAgree' /\ GuardAgrees'
    BY DEF EngineInv, Agreement, EdgesAgree, GuardAgrees, Nodes, Fires, IsCondition
  <1> QED
    BY <1>1, <1>2, <1>3, <1>4, <1>5 DEF Agreement

(* What an attempt that failed becomes.                                    *)
LEMMA AfterFailureFacts ==
    ASSUME Shape, NEW n \in Nodes, NEW k \in Nat, k <= wf.retries[n] + 1
    PROVE  /\ AfterFailure(n, k) \in [step : ExecSteps \ {"idle"}, attempt : Nat]
           /\ AfterFailure(n, k).attempt = k
           /\ AfterFailure(n, k).step \in {"backoff", "error"}
           /\ AfterFailure(n, k).step = "backoff" => k <= wf.retries[n]
  BY DEF AfterFailure, ExecSteps

(* An operation ends, or goes on with its next item: the attempt that      *)
(* awaits it, if any, ends with it.  No other operation is awaited there.  *)
LEMMA OpStep ==
    ASSUME EngineInv, NEW o \in ops,
           ops' \subseteq ops \ {o},
           \/ UNCHANGED exec /\ ~Awaited(o)
           \/ /\ Awaited(o)
              /\ \E new \in [step : ExecSteps \ {"idle"}, attempt : Nat] :
                   /\ exec' = [exec EXCEPT ![o.node] = new]
                   /\ new.attempt = exec[o.node].attempt
                   /\ new.step = "backoff" => new.attempt <= wf.retries[o.node]
                   /\ new.step # "false",
           UNCHANGED <<wf, phase, status, fired, ctx, executions, failed, halted>>
    PROVE  EngineInv'
  <1>1. o.node \in Nodes
    BY DEF EngineInv, OneOpPerAttempt
  <1>2. CASE UNCHANGED exec /\ ~Awaited(o)
    <2>1. Shape' /\ Agreement'
      BY <1>2 DEF EngineInv, Shape, Agreement, NodesAgree, EdgesAgree, GuardAgrees, Nodes,
                  Fires, IsCondition
    <2>2. OneOpPerAttempt'
      BY <1>2 DEF EngineInv, OneOpPerAttempt, Nodes
    <2>3. NothingLeftBehind'
      BY <1>2 DEF EngineInv, NothingLeftBehind, Awaited, Trying, Wave, Nodes
    <2> QED
      BY <2>1, <2>2, <2>3 DEF EngineInv
  <1>3. CASE Awaited(o)
    <2>1. PICK new \in [step : ExecSteps \ {"idle"}, attempt : Nat] :
            /\ exec' = [exec EXCEPT ![o.node] = new]
            /\ new.attempt = exec[o.node].attempt
            /\ new.step = "backoff" => new.attempt <= wf.retries[o.node]
            /\ new.step # "false"
      BY <1>3
    <2>2. /\ exec[o.node].step = "attempt"
          /\ new.attempt <= wf.retries[o.node] + 1
      BY <1>1, <1>3, <2>1 DEF Awaited, Trying, EngineInv, Agreement, NodesAgree
    <2>3. /\ Shape' /\ Agreement'
          /\ exec'[o.node] = new
          /\ \A m \in Nodes : m # o.node => exec'[m] = exec[m]
      BY <1>1, <2>1, <2>2, AttemptStep
    <2>4. OneOpPerAttempt'
      BY <2>1, <2>3 DEF EngineInv, OneOpPerAttempt, Nodes
    <2>5. NothingLeftBehind'
      <3> SUFFICES ASSUME NEW p \in ops', p.node \notin wf.timed PROVE Awaited(p)'
        BY DEF NothingLeftBehind
      <3>1. p \in ops /\ p # o /\ Awaited(p) /\ p.node \in Nodes
        BY DEF EngineInv, NothingLeftBehind, OneOpPerAttempt
      <3>2. p.node # o.node
        BY <1>3, <3>1 DEF Awaited, EngineInv, OneOpPerAttempt
      <3> QED
        BY <2>3, <3>1, <3>2 DEF Awaited, Trying, Wave, Nodes
    <2> QED
      BY <2>3, <2>4, <2>5 DEF EngineInv
  <1> QED
    BY <1>2, <1>3

(* An operation answers.                                                   *)
LEMMA OpReturnsInv == ASSUME EngineInv, NEW o \in ops, OpReturns(o) PROVE EngineInv'
  <1>0. /\ o.node \in Nodes /\ o.item \in Nat /\ wf.items[o.node] \in Nat
        /\ exec[o.node] \in [step : ExecSteps, attempt : Nat]
        /\ UNCHANGED <<wf, phase, status, fired, ctx, executions, failed, halted>>
    BY GraphFacts DEF EngineInv, Shape, OneOpPerAttempt, OpReturns
  <1>1. CASE o.item < wf.items[o.node]
    <2> DEFINE next == [o EXCEPT !.item = @ + 1]
    <2>1. ops' = (ops \ {o}) \cup {next} /\ exec' = exec
      BY <1>1 DEF OpReturns
    <2>2. /\ next.node = o.node /\ next.attempt = o.attempt /\ next.item = o.item + 1
          /\ next = [node |-> next.node, attempt |-> next.attempt, item |-> next.item]
      <3>1. o = [node |-> o.node, attempt |-> o.attempt, item |-> o.item]
        BY DEF EngineInv, OneOpPerAttempt
      <3> QED
        BY <3>1
    <2> HIDE DEF next
    <2>3. Shape' /\ Agreement'
      BY <1>0, <2>1 DEF EngineInv, Shape, Agreement, NodesAgree, EdgesAgree, GuardAgrees,
                        Nodes, Fires, IsCondition
    <2>4. OneOpPerAttempt'
      BY <1>0, <1>1, <2>1, <2>2 DEF EngineInv, OneOpPerAttempt, Nodes
    <2>5. NothingLeftBehind'
      BY <1>0, <2>1, <2>2 DEF EngineInv, NothingLeftBehind, Awaited, Trying, Wave, Nodes
    <2> QED
      BY <2>3, <2>4, <2>5 DEF EngineInv
  <1>2. CASE ~(o.item < wf.items[o.node])
    <2> DEFINE new == [exec[o.node] EXCEPT !.step = "ok"]
    <2>1. /\ ops' = ops \ {o}
          /\ exec' = IF Awaited(o) THEN [exec EXCEPT ![o.node] = new] ELSE exec
      BY <1>2 DEF OpReturns
    <2>2. /\ new \in [step : ExecSteps \ {"idle"}, attempt : Nat]
          /\ new.attempt = exec[o.node].attempt /\ new.step = "ok"
      BY <1>0 DEF ExecSteps
    <2> HIDE DEF new
    <2> QED
      BY <1>0, <2>1, <2>2, OpStep
  <1> QED
    BY <1>1, <1>2

(* An operation fails.                                                     *)
LEMMA OpFailsInv == ASSUME EngineInv, NEW o \in ops, OpFails(o) PROVE EngineInv'
  <1> DEFINE new == AfterFailure(o.node, o.attempt)
  <1>1. /\ ops' = ops \ {o}
        /\ exec' = IF Awaited(o) THEN [exec EXCEPT ![o.node] = new] ELSE exec
        /\ UNCHANGED <<wf, phase, status, fired, ctx, executions, failed, halted>>
    BY DEF OpFails
  <1>2. CASE Awaited(o)
    <2>1. /\ o.node \in Nodes /\ o.attempt \in Nat
          /\ o.attempt = exec[o.node].attempt /\ o.attempt <= wf.retries[o.node] + 1
      BY <1>2 DEF Awaited, EngineInv, OneOpPerAttempt, Agreement, NodesAgree
    <2>2. /\ new \in [step : ExecSteps \ {"idle"}, attempt : Nat]
          /\ new.attempt = exec[o.node].attempt
          /\ new.step \in {"backoff", "error"}
          /\ new.step = "backoff" => new.attempt <= wf.retries[o.node]
      BY <2>1, AfterFailureFacts DEF EngineInv
    <2> HIDE DEF new
    <2> QED
      BY <1>1, <1>2, <2>2, OpStep
  <1>3. CASE ~Awaited(o)
    BY <1>1, <1>3, OpStep
  <1> QED
    BY <1>2, <1>3

(* A timer fires first: the attempt ends, its operation goes on.           *)
LEMMA TimesOutInv == ASSUME EngineInv, NEW n \in Nodes, TimesOut(n) PROVE EngineInv'
  <1> DEFINE new == AfterFailure(n, exec[n].attempt)
  <1>1. /\ n \in wf.timed /\ exec[n].step = "attempt"
        /\ exec' = [exec EXCEPT ![n] = new]
        /\ UNCHANGED <<wf, phase, status, fired, ctx, ops, executions, failed, halted>>
    BY DEF TimesOut, Trying
  <1>2. exec[n].attempt \in Nat /\ exec[n].attempt <= wf.retries[n] + 1
    BY DEF EngineInv, Shape, Agreement, NodesAgree
  <1>3. /\ new \in [step : ExecSteps \ {"idle"}, attempt : Nat]
        /\ new.attempt = exec[n].attempt
        /\ new.step \in {"backoff", "error"}
        /\ new.step = "backoff" => new.attempt <= wf.retries[n]
    BY <1>2, AfterFailureFacts DEF EngineInv
  <1> HIDE DEF new
  <1>4. /\ Shape' /\ Agreement'
        /\ exec'[n] = new
        /\ \A m \in Nodes : m # n => exec'[m] = exec[m]
    BY <1>1, <1>2, <1>3, AttemptStep
  <1>5. OneOpPerAttempt'
    BY <1>1, <1>3, <1>4 DEF EngineInv, OneOpPerAttempt, Nodes
  <1>6. NothingLeftBehind'
    BY <1>1, <1>4 DEF EngineInv, NothingLeftBehind, OneOpPerAttempt, Awaited, Trying, Wave, Nodes
  <1> QED
    BY <1>4, <1>5, <1>6 DEF EngineInv

(* The back-off is over: the next attempt begins, with an operation of its *)
(* own.                                                                    *)
LEMMA RetryInv == ASSUME EngineInv, NEW n \in Nodes, Retry(n) PROVE EngineInv'
  <1> DEFINE k == exec[n].attempt + 1
  <1>1. PICK v \in {"ok", "false", "error"} : exec' = [exec EXCEPT ![n] = Begun(n, k, v)]
    BY DEF Retry
  <1>2. /\ exec[n].step = "backoff"
        /\ ops' = ops \cup Launched(n, k)
        /\ UNCHANGED <<wf, phase, status, fired, ctx, executions, failed, halted>>
    BY DEF Retry
  <1>3. /\ exec[n].attempt \in Nat /\ k \in Nat \ {0} /\ k > exec[n].attempt
        /\ k <= wf.retries[n] + 1
    BY <1>2, GraphFacts DEF EngineInv, Shape, Agreement, NodesAgree
  <1>4. v \in Settled
    BY DEF Settled
  <1> DEFINE new == Begun(n, k, v)
  <1>5. /\ new \in [step : ExecSteps \ {"idle"}, attempt : Nat]
        /\ new.attempt = k
        /\ new.step = "false" => IsCondition(n)
        /\ new.step = "backoff" => k <= wf.retries[n]
        /\ \A o \in Launched(n, k) : /\ o = [node |-> n, attempt |-> k, item |-> 1]
                                     /\ new.step = "attempt"
    <2> HIDE DEF k
    <2> QED
      BY <1>3, <1>4, BegunFacts DEF EngineInv
  <1>6. exec' = [exec EXCEPT ![n] = new]
    BY <1>1
  <1> HIDE DEF new, k
  <1>7. /\ Shape' /\ Agreement'
        /\ exec'[n] = new
        /\ \A m \in Nodes : m # n => exec'[m] = exec[m]
        /\ phase = "running" /\ status[n] = "waiting"
    BY <1>2, <1>3, <1>5, <1>6, AttemptStep
  <1>8. wf.items[n] \in Nat \ {0}
    BY GraphFacts DEF EngineInv
  <1>9. \A o \in ops : o.node = n => o.attempt < k
    BY <1>3 DEF EngineInv, OneOpPerAttempt
  <1>10. OneOpPerAttempt'
    <2>1. ASSUME NEW o \in ops'
          PROVE  /\ o = [node |-> o.node, attempt |-> o.attempt, item |-> o.item]
                 /\ o.node \in Nodes /\ o.attempt \in Nat \ {0}
                 /\ o.attempt <= exec'[o.node].attempt
                 /\ o.item \in 1 .. wf.items[o.node]
      <3>1. CASE o \in ops
        BY <1>3, <1>5, <1>7, <1>9, <3>1 DEF EngineInv, OneOpPerAttempt
      <3>2. CASE o \notin ops
        BY <1>2, <1>3, <1>5, <1>7, <1>8, <3>2
      <3> QED
        BY <3>1, <3>2
    <2>2. ASSUME NEW o \in ops', NEW p \in ops', o.node = p.node, o.attempt = p.attempt
          PROVE  o = p
      BY <1>2, <1>3, <1>5, <1>9, <2>2 DEF EngineInv, OneOpPerAttempt
    <2> QED
      BY <1>2, <2>1, <2>2 DEF OneOpPerAttempt, Nodes
  <1>11. NothingLeftBehind'
    <2> SUFFICES ASSUME NEW o \in ops', o.node \notin wf.timed PROVE Awaited(o)'
      BY <1>2 DEF NothingLeftBehind
    <2>1. CASE o \in ops
      <3>1. Awaited(o) /\ o.node # n /\ o.node \in Nodes
        BY <1>2, <2>1 DEF EngineInv, NothingLeftBehind, OneOpPerAttempt, Awaited, Trying
      <3> QED
        BY <1>2, <1>7, <3>1 DEF Awaited, Trying, Wave, Nodes
    <2>2. CASE o \notin ops
      BY <1>2, <1>5, <1>7, <2>2 DEF Awaited, Trying, Wave, Nodes
    <2> QED
      BY <2>1, <2>2
  <1> QED
    BY <1>7, <1>10, <1>11 DEF EngineInv

-----------------------------------------------------------------------------
(* Every step of the engine, its timers and its operations keeps EngineInv.*)
LEMMA NextInv == EngineInv /\ [Next]_vars => EngineInv'
  <1> SUFFICES ASSUME EngineInv, [Next]_vars PROVE EngineInv'
    OBVIOUS
  <1>1. CASE Engine
    BY <1>1, SkipUntakenInv, StopRunawayInv, StartWaveInv, CollectInv, FinishInv DEF Engine
  <1>2. ASSUME NEW n \in Nodes, TimesOut(n) \/ Retry(n) PROVE EngineInv'
    BY <1>2, TimesOutInv, RetryInv
  <1>3. ASSUME NEW o \in ops, OpReturns(o) \/ OpFails(o) PROVE EngineInv'
    BY <1>3, OpReturnsInv, OpFailsInv
  <1>4. CASE UNCHANGED vars
    <2>1. Shape' /\ Agreement'
      BY <1>4 DEF vars, EngineInv, Shape, Agreement, NodesAgree, EdgesAgree, GuardAgrees,
                  Nodes, Fires, IsCondition
    <2>2. OneOpPerAttempt' /\ NothingLeftBehind'
      BY <1>4 DEF vars, EngineInv, OneOpPerAttempt, NothingLeftBehind, Awaited, Trying, Wave,
                  Nodes
    <2> QED
      BY <2>1, <2>2 DEF EngineInv
  <1> QED
    BY <1>1, <1>2, <1>3, <1>4 DEF Next

(* So every state of a run satisfies it.                                   *)
LEMMA EngineInvHolds == Spec => []EngineInv
  BY InitInv, NextInv, PTL DEF Spec

(* A run keeps its shape; in particular no node is attempted more often    *)
(* than its retries allow, and the guard overshoots by one wave at most.   *)
THEOREM WorkflowTypeCorrect == Spec => []WorkflowTypeOK
  <1>1. EngineInv => WorkflowTypeOK
    <2> SUFFICES ASSUME EngineInv PROVE WorkflowTypeOK
      OBVIOUS
    <2>1. \A n \in Nodes : /\ exec[n].step \in ExecSteps
                           /\ exec[n].attempt \in 0 .. wf.retries[n] + 1
      BY GraphFacts DEF EngineInv, Shape, Agreement, NodesAgree
    <2>2. executions \in 0 .. MaxExecutions + Cardinality(Nodes)
      BY GraphFacts, EngineAssumption DEF EngineInv, Shape, Agreement, GuardAgrees
    <2> QED
      BY <2>1, <2>2
      DEF EngineInv, Shape, OneOpPerAttempt, WorkflowTypeOK, ExecSteps, Settled
  <1> QED
    BY <1>1, EngineInvHolds, PTL

(* An attempt that waits has an operation in flight.                       *)
AttemptsHaveOps ==
    \A n \in Nodes : exec[n].step = "attempt" =>
        \E o \in ops : o.node = n /\ o.attempt = exec[n].attempt

(* It had one when it began,                                               *)
LEMMA LaunchedWithAttempt ==
    ASSUME NEW n, NEW k, NEW v \in Settled, Begun(n, k, v).step = "attempt"
    PROVE  [node |-> n, attempt |-> k, item |-> 1] \in Launched(n, k)
           /\ Begun(n, k, v).attempt = k
  BY DEF Begun, AfterFailure, Launched, Settled

(* and the answers of others take none from it; its own ends it, or is     *)
(* that of an item that is followed by the next.                           *)
LEMMA AnswersKeepOps ==
    ASSUME EngineInv, AttemptsHaveOps, NEW o \in ops, OpReturns(o) \/ OpFails(o)
    PROVE  AttemptsHaveOps'
  <1> SUFFICES ASSUME NEW n \in Nodes, exec'[n].step = "attempt"
               PROVE  \E p \in ops' : p.node = n /\ p.attempt = exec'[n].attempt
    BY DEF AttemptsHaveOps, OpReturns, OpFails, Nodes
  <1>1. /\ exec \in [Nodes -> [step : ExecSteps, attempt : Nat]] /\ o.node \in Nodes
        /\ o = [node |-> o.node, attempt |-> o.attempt, item |-> o.item]
    BY DEF EngineInv, Shape, OneOpPerAttempt
  <1>2. CASE OpReturns(o) /\ o.item < wf.items[o.node]
    <2>1. exec' = exec /\ ops' = (ops \ {o}) \cup {[o EXCEPT !.item = @ + 1]}
      BY <1>2 DEF OpReturns
    <2>2. PICK p \in ops : p.node = n /\ p.attempt = exec[n].attempt
      BY <2>1 DEF AttemptsHaveOps
    <2>3. [o EXCEPT !.item = @ + 1].node = o.node /\ [o EXCEPT !.item = @ + 1].attempt = o.attempt
      BY <1>1
    <2> QED
      BY <2>1, <2>2, <2>3
  <1>3. CASE ~(OpReturns(o) /\ o.item < wf.items[o.node])
    <2>1. /\ ops' = ops \ {o}
          /\ \/ ~Awaited(o) /\ exec' = exec
             \/ Awaited(o) /\ exec' = [exec EXCEPT ![o.node].step = "ok"]
             \/ Awaited(o) /\ exec' = [exec EXCEPT ![o.node] = AfterFailure(o.node, o.attempt)]
      BY <1>3 DEF OpReturns, OpFails
    <2>2. AfterFailure(o.node, o.attempt).step # "attempt"
      BY DEF AfterFailure
    <2>3. exec'[n] = exec[n] /\ (Awaited(o) => n # o.node)
      BY <1>1, <2>1, <2>2
    <2>4. PICK p \in ops : p.node = n /\ p.attempt = exec[n].attempt
      BY <2>3 DEF AttemptsHaveOps
    <2>5. p # o
      <3>1. CASE Awaited(o)
        BY <2>3, <2>4, <3>1
      <3>2. CASE ~Awaited(o)
        BY <2>3, <2>4, <3>2
        DEF EngineInv, Shape, Agreement, NodesAgree, Awaited, Trying, Wave
      <3> QED
        BY <3>1, <3>2
    <2> QED
      BY <2>1, <2>3, <2>4, <2>5
  <1> QED
    BY <1>2, <1>3

(* Nothing else ends an operation.                                         *)
LEMMA NextKeepsOps == EngineInv /\ AttemptsHaveOps /\ [Next]_vars => AttemptsHaveOps'
  <1> SUFFICES ASSUME EngineInv, AttemptsHaveOps, [Next]_vars PROVE AttemptsHaveOps'
    OBVIOUS
  <1>1. exec \in [Nodes -> [step : ExecSteps, attempt : Nat]]
    BY DEF EngineInv, Shape
  <1>2. CASE UNCHANGED <<wf, exec, ops>>
    BY <1>2 DEF AttemptsHaveOps, Nodes
  <1>3. CASE StartWave
    <2>1. PICK v \in [{n \in ToRun : IsCondition(n)} -> {"ok", "false", "error"}] :
            exec' = [n \in Nodes |->
                       IF n \in ToRun THEN Begun(n, 1, IF IsCondition(n) THEN v[n] ELSE "ok")
                                      ELSE exec[n]]
      BY <1>3 DEF StartWave
    <2>2. Nodes' = Nodes /\ ops' = ops \cup UNION {Launched(n, 1) : n \in ToRun}
      BY <1>3 DEF StartWave, Nodes
    <2>3. ASSUME NEW n \in Nodes, exec'[n].step = "attempt"
          PROVE  \E p \in ops' : p.node = n /\ p.attempt = exec'[n].attempt
      <3>1. CASE n \in ToRun
        <4>1. PICK w \in Settled : exec'[n] = Begun(n, 1, w)
          BY <2>1, <3>1 DEF Settled
        <4>2. /\ [node |-> n, attempt |-> 1, item |-> 1] \in Launched(n, 1)
              /\ exec'[n].attempt = 1
          BY <2>3, <4>1, LaunchedWithAttempt
        <4>3. [node |-> n, attempt |-> 1, item |-> 1] \in ops'
          BY <2>2, <3>1, <4>2
        <4> QED
          BY <4>2, <4>3
      <3>2. CASE n \notin ToRun
        BY <2>1, <2>2, <2>3, <3>2 DEF AttemptsHaveOps
      <3> QED
        BY <3>1, <3>2
    <2> QED
      BY <2>2, <2>3 DEF AttemptsHaveOps
  <1>4. ASSUME NEW n \in Nodes, TimesOut(n)
        PROVE  AttemptsHaveOps'
    <2>1. /\ exec' = [exec EXCEPT ![n] = AfterFailure(n, exec[n].attempt)]
          /\ ops' = ops /\ wf' = wf
      BY <1>4 DEF TimesOut
    <2>2. AfterFailure(n, exec[n].attempt).step # "attempt"
      BY DEF AfterFailure
    <2> QED
      BY <1>1, <2>1, <2>2 DEF AttemptsHaveOps, Nodes
  <1>5. ASSUME NEW n \in Nodes, Retry(n)
        PROVE  AttemptsHaveOps'
    <2>1. PICK v \in {"ok", "false", "error"} :
            exec' = [exec EXCEPT ![n] = Begun(n, exec[n].attempt + 1, v)]
      BY <1>5 DEF Retry
    <2>2. ops' = ops \cup Launched(n, exec[n].attempt + 1) /\ wf' = wf
      BY <1>5 DEF Retry
    <2>3. ASSUME NEW m \in Nodes, exec'[m].step = "attempt"
          PROVE  \E p \in ops' : p.node = m /\ p.attempt = exec'[m].attempt
      <3>1. CASE m = n
        <4> DEFINE k == exec[n].attempt + 1
        <4>1. exec'[m] = Begun(n, k, v) /\ v \in Settled
          BY <1>1, <2>1, <3>1 DEF Settled
        <4>2. [node |-> n, attempt |-> k, item |-> 1] \in Launched(n, k) /\ exec'[m].attempt = k
          BY <2>3, <4>1, LaunchedWithAttempt
        <4>3. [node |-> n, attempt |-> k, item |-> 1] \in ops'
          BY <2>2, <4>2
        <4> HIDE DEF k
        <4> QED
          BY <3>1, <4>2, <4>3
      <3>2. CASE m # n
        BY <1>1, <2>1, <2>2, <2>3, <3>2 DEF AttemptsHaveOps
      <3> QED
        BY <3>1, <3>2
    <2> QED
      BY <2>2, <2>3 DEF AttemptsHaveOps, Nodes
  <1>6. CASE SkipUntaken \/ StopRunaway \/ Collect \/ Finish
    BY <1>2, <1>6 DEF SkipUntaken, StopRunaway, Collect, Finish
  <1>7. CASE UNCHANGED vars
    BY <1>2, <1>7 DEF vars
  <1> QED
    BY <1>3, <1>4, <1>5, <1>6, <1>7, AnswersKeepOps DEF Next, Engine

(* Only a node with a timeout leaves an operation behind that nobody waits *)
(* for, and nothing is waited for that cannot answer any more, for any     *)
(* graph, retries and interleaving.                                        *)
THEOREM OpsAreAwaitedHolds == Spec => []OpsAreAwaited
  <1>1. Init => AttemptsHaveOps
    BY DEF Init, AttemptsHaveOps
  <1>2. EngineInv /\ AttemptsHaveOps => OpsAreAwaited
    BY DEF EngineInv, NothingLeftBehind, AttemptsHaveOps, OpsAreAwaited, Awaited, Trying
  <1> QED
    BY <1>1, <1>2, EngineInvHolds, NextKeepsOps, PTL DEF Spec

-----------------------------------------------------------------------------
(* Every round of the loop settles a node, and none is unsettled again, so *)
(* that a run has at most as many rounds as nodes, whatever its operations *)
(* do: the safe half of Terminates.                                        *)
Unsettled == {n \in Nodes : status[n] = "waiting"}

RoundsSettleNodes ==
    [][/\ Unsettled' \subseteq Unsettled
       /\ SkipUntaken \/ Collect => Unsettled' # Unsettled]_vars

(* A wave that runs has a node.                                            *)
WaveRuns == phase = "running" => Wave # {}

(* Attempts, answers and timers take none from it,                         *)
LEMMA StartedStays ==
    ASSUME EngineInv, WaveRuns, UNCHANGED <<wf, phase, status>>,
           \A n \in Nodes : exec[n].step # "idle" => exec'[n].step # "idle"
    PROVE  WaveRuns'
  BY DEF WaveRuns, Wave, Nodes

(* and it starts with one.                                                 *)
LEMMA NextWaveRuns == EngineInv /\ WaveRuns /\ [Next]_vars => WaveRuns'
  <1> SUFFICES ASSUME EngineInv, WaveRuns, [Next]_vars PROVE WaveRuns'
    OBVIOUS
  <1>1. exec \in [Nodes -> [step : ExecSteps, attempt : Nat]]
    BY DEF EngineInv, Shape
  <1>2. \A n, k : AfterFailure(n, k).step # "idle"
    BY DEF AfterFailure
  <1>3. \A n, k : \A v \in Settled : Begun(n, k, v).step # "idle"
    BY <1>2 DEF Begun, Settled
  <1>4. CASE StartWave
    <2>1. PICK v \in [{n \in ToRun : IsCondition(n)} -> {"ok", "false", "error"}] :
            exec' = [n \in Nodes |->
                       IF n \in ToRun THEN Begun(n, 1, IF IsCondition(n) THEN v[n] ELSE "ok")
                                      ELSE exec[n]]
      BY <1>4 DEF StartWave
    <2>2. PICK n \in ToRun : n \in Nodes /\ status[n] = "waiting"
      BY <1>4 DEF StartWave, ToRun, Ready
    <2>3. status'[n] = "waiting" /\ Nodes' = Nodes
      BY <1>4, <2>2 DEF StartWave, MarkSkipped, Nodes
    <2>4. PICK w \in Settled : exec'[n] = Begun(n, 1, w)
      BY <2>1, <2>2 DEF Settled
    <2>5. n \in Wave'
      BY <1>3, <2>2, <2>3, <2>4 DEF Wave
    <2> QED
      BY <2>5 DEF WaveRuns
  <1>5. ASSUME NEW n \in Nodes, TimesOut(n)
        PROVE  WaveRuns'
    BY <1>1, <1>2, <1>5, StartedStays DEF TimesOut
  <1>6. ASSUME NEW n \in Nodes, Retry(n)
        PROVE  WaveRuns'
    <2>1. PICK v \in Settled : exec' = [exec EXCEPT ![n] = Begun(n, exec[n].attempt + 1, v)]
      BY <1>6 DEF Retry, Settled
    <2>2. UNCHANGED <<wf, phase, status>>
      BY <1>6 DEF Retry
    <2> QED
      BY <1>1, <1>3, <2>1, <2>2, StartedStays
  <1>7. ASSUME NEW o \in ops, OpReturns(o) \/ OpFails(o)
        PROVE  WaveRuns'
    <2>1. /\ UNCHANGED <<wf, phase, status>>
          /\ \/ exec' = exec
             \/ exec' = [exec EXCEPT ![o.node].step = "ok"]
             \/ exec' = [exec EXCEPT ![o.node] = AfterFailure(o.node, o.attempt)]
      BY <1>7 DEF OpReturns, OpFails
    <2> QED
      BY <1>1, <1>2, <2>1, StartedStays
  <1>8. CASE SkipUntaken \/ StopRunaway \/ Collect \/ Finish
    BY <1>8 DEF SkipUntaken, StopRunaway, Collect, Finish, Sweep, WaveRuns
  <1>9. CASE UNCHANGED vars
    BY <1>9 DEF vars, WaveRuns, Wave, Nodes
  <1> QED
    BY <1>4, <1>5, <1>6, <1>7, <1>8, <1>9 DEF Next, Engine

(* Collecting settles the wave, skipping what has nothing to run.          *)
LEMMA RoundSettles ==
    ASSUME EngineInv, WaveRuns, [Next]_vars
    PROVE  /\ Unsettled' \subseteq Unsettled
           /\ SkipUntaken \/ Collect => Unsettled' # Unsettled
  <1>1. CASE Collect
    <2>1. /\ Nodes' = Nodes /\ Wave # {} /\ Wave \subseteq Unsettled
          /\ status' = [n \in Nodes |-> IF n \in Wave THEN exec[n].step ELSE status[n]]
          /\ \A n \in Wave : exec[n].step # "waiting"
      BY <1>1 DEF Collect, AllSettled, WaveRuns, Wave, Unsettled, Nodes
    <2> QED
      BY <2>1 DEF Unsettled
  <1>2. CASE SkipUntaken
    <2>1. Nodes' = Nodes /\ MarkSkipped /\ ToRun = {} /\ Ready # {}
      BY <1>2 DEF SkipUntaken, Sweep, Continues, Nodes
    <2> QED
      BY <2>1 DEF MarkSkipped, Ready, Unsettled
  <1>3. CASE StopRunaway \/ StartWave
    <2>1. Nodes' = Nodes /\ MarkSkipped /\ ~SkipUntaken /\ ~Collect
      BY <1>3 DEF StopRunaway, StartWave, Sweep, SkipUntaken, Collect, Nodes
    <2> QED
      BY <2>1 DEF MarkSkipped, Unsettled
  <1>4. CASE UNCHANGED <<wf, status>>
    BY <1>1, <1>2, <1>4 DEF Unsettled, Nodes
  <1> QED
    BY <1>1, <1>2, <1>3, <1>4
    DEF Next, Engine, Finish, TimesOut, Retry, OpReturns, OpFails, vars

(* Every round of a run makes progress, for any graph.                     *)
THEOREM RoundsSettleNodesHolds == Spec => RoundsSettleNodes
  <1>1. Init => WaveRuns
    BY DEF Init, WaveRuns
  <1> QED
    BY <1>1, EngineInvHolds, NextWaveRuns, RoundSettles, PTL DEF Spec, RoundsSettleNodes

-----------------------------------------------------------------------------
(* Paths.  A node leaves "waiting" only after all it waits for, and after a*)
(* failure no more; it ran if an edge to it fired, or none leads to it,    *)
(* and was skipped otherwise.                                              *)
NoFalseEdge(n) == \A e \in Outgoing(n) : e.branch # "false"

RunOrder ==
    /\ \A e \in wf.edges : status[e.to] # "waiting" \/ Started(e.to) => status[e.from] # "waiting"
    /\ \A e \in wf.edges : status[e.from] = "error" => status[e.to] = "waiting" /\ ~Started(e.to)
    /\ \A n \in Nodes : Started(n) => Reached(n)
    /\ \A n \in Nodes : status[n] = "skipped" => ~Reached(n)
    /\ phase = "over" => failed \/ Ready = {}
    /\ failed => \E n \in Nodes :
         \/ status[n] = "error"
         \/ ~Started(n) /\ status[n] = "waiting" /\ Reached(n)
    /\ halted <=> \E n \in Nodes : status[n] = "false" /\ NoFalseEdge(n)

(* A turn of the loop starts and skips nodes that are ready.               *)
LEMMA SchedulingOrder ==
    ASSUME EngineInv, RunOrder, phase = "scheduling", ~failed, MarkSkipped,
           UNCHANGED <<wf, fired, halted>>, phase' # "over",
           \A n \in Nodes : Started(n)' => Started(n) \/ n \in ToRun,
           failed' => ToRun # {} /\ exec' = exec
    PROVE  RunOrder'
  <1>1. /\ \A n \in Nodes :
             \/ status'[n] = status[n]
             \/ /\ n \in Ready \ ToRun
                /\ status[n] = "waiting" /\ status'[n] = "skipped"
        /\ \A n \in ToRun : status'[n] = "waiting" /\ exec[n].step = "idle"
    BY SkipFacts
  <1>2. /\ \A n \in Ready : \A e \in Incoming(n) : status[e.from] # "waiting"
        /\ ToRun \subseteq Ready /\ Ready \subseteq Nodes
        /\ \A n \in ToRun : Reached(n)
        /\ \A n \in Ready \ ToRun : ~Reached(n)
        /\ \A n \in Nodes : status[n] # "error"
    BY DEF Ready, ToRun, EngineInv, Agreement, GuardAgrees
  <1>3. \A e \in wf.edges :
          e.from \in Nodes /\ e.to \in Nodes /\ e \in Incoming(e.to) /\ e \in Outgoing(e.from)
    BY GraphFacts DEF EngineInv, Incoming, Outgoing
  <1>4. \A n : (Reached(n)' <=> Reached(n)) /\ (NoFalseEdge(n)' <=> NoFalseEdge(n))
    BY DEF Reached, Incoming, NoFalseEdge, Outgoing
  <1>5. Nodes' = Nodes
    BY DEF Nodes
  <1>6. \A e \in wf.edges :
          status'[e.to] # "waiting" \/ Started(e.to)' => status'[e.from] # "waiting"
    BY <1>1, <1>2, <1>3 DEF RunOrder
  <1>7. /\ \A e \in wf.edges : status'[e.from] # "error"
        /\ \A n \in Nodes : Started(n)' => Reached(n)'
        /\ \A n \in Nodes : status'[n] = "skipped" => ~Reached(n)'
    BY <1>1, <1>2, <1>3, <1>4 DEF RunOrder
  <1>8. failed' => \E n \in Nodes : ~Started(n)' /\ status'[n] = "waiting" /\ Reached(n)'
    BY <1>1, <1>2, <1>4 DEF Started
  <1>9. halted' <=> \E n \in Nodes : status'[n] = "false" /\ NoFalseEdge(n)'
    BY <1>1, <1>4 DEF RunOrder
  <1> QED
    BY <1>5, <1>6, <1>7, <1>8, <1>9 DEF RunOrder

(* A wave is collected: its nodes waited for none of each other.           *)
LEMMA CollectOrder ==
    ASSUME EngineInv, RunOrder, Collect
    PROVE  RunOrder'
  <1>1. /\ phase' = "scheduling" /\ wf' = wf /\ exec' = exec
        /\ \A n \in Wave : exec[n].step \in Settled
        /\ fired' = fired \cup {e \in wf.edges : e.from \in Wave /\ Fires(e, exec[e.from].step)}
        /\ failed' <=> \E n \in Wave : exec[n].step = "error"
        /\ halted' <=> halted \/ \E n \in Wave : Halts(n)
        /\ Wave \subseteq Nodes
        /\ \A n \in Nodes : n \in Wave <=> Started(n) /\ status[n] = "waiting"
        /\ \A n \in Nodes : status[n] # "error"
    BY DEF Collect, AllSettled, Settled, Wave, Started, EngineInv, Agreement, GuardAgrees
  <1>2. /\ \A n \in Nodes : n \in Wave => status'[n] = exec[n].step
        /\ \A n \in Nodes : n \notin Wave => status'[n] = status[n]
    BY DEF Collect
  <1>3. \A e \in wf.edges : e.from \in Nodes /\ e.to \in Nodes
    BY GraphFacts DEF EngineInv
  <1>4. \A n : (Started(n)' <=> Started(n)) /\ (NoFalseEdge(n)' <=> NoFalseEdge(n))
    BY <1>1 DEF Started, NoFalseEdge, Outgoing
  <1>5. \A n : Reached(n) => Reached(n)'
    BY <1>1 DEF Reached, Incoming
  <1>6. \A e \in wf.edges :
          status'[e.to] # "waiting" \/ Started(e.to)' => status'[e.from] # "waiting"
    BY <1>1, <1>2, <1>3, <1>4 DEF RunOrder, Settled
  <1>7. \A e \in wf.edges :
          status'[e.from] = "error" => status'[e.to] = "waiting" /\ ~Started(e.to)'
    BY <1>1, <1>2, <1>3, <1>4 DEF RunOrder
  <1>8. \A n \in Nodes : Started(n)' => Reached(n)'
    BY <1>4, <1>5 DEF RunOrder
  <1>9. ASSUME NEW n \in Nodes, status'[n] = "skipped"
        PROVE  ~Reached(n)'
    <2>1. n \notin Wave /\ status[n] = "skipped"
      BY <1>1, <1>2, <1>9 DEF Settled
    <2>2. \A e \in wf.edges : e.to = n => e.from \notin Wave
      BY <1>1, <1>3, <2>1 DEF RunOrder
    <2>3. ~Reached(n)
      BY <2>1 DEF RunOrder
    <2> QED
      BY <1>1, <2>2, <2>3 DEF Reached, Incoming
  <1>10. failed' => \E n \in Nodes : status'[n] = "error"
    BY <1>1, <1>2
  <1>11. halted' <=> \E n \in Nodes : status'[n] = "false" /\ NoFalseEdge(n)'
    <2>1. \A n \in Wave : Halts(n) <=> exec[n].step = "false" /\ NoFalseEdge(n)
      BY <1>1 DEF Halts, NoFalseEdge, EngineInv, Agreement, NodesAgree
    <2>2. \A n \in Wave : status[n] = "waiting"
      BY <1>1
    <2> QED
      BY <1>1, <1>2, <1>4, <2>1, <2>2 DEF RunOrder
  <1> QED
    BY <1>1, <1>6, <1>7, <1>8, <1>9, <1>10, <1>11 DEF RunOrder, Nodes

(* Attempts end and begin while the scheduler waits.                       *)
LEMMA AttemptOrder ==
    ASSUME EngineInv, RunOrder, UNCHANGED <<wf, phase, status, fired, failed, halted>>,
           \A n \in Nodes : Started(n)' <=> Started(n)
    PROVE  RunOrder'
  <1>1. \A e \in wf.edges : e.from \in Nodes /\ e.to \in Nodes
    BY GraphFacts DEF EngineInv
  <1>2. \A n : (Reached(n)' <=> Reached(n)) /\ (NoFalseEdge(n)' <=> NoFalseEdge(n))
    BY DEF Reached, Incoming, NoFalseEdge, Outgoing
  <1>3. Nodes' = Nodes /\ Ready' = Ready
    BY DEF Nodes, Ready, Incoming
  <1> QED
    BY <1>1, <1>2, <1>3 DEF RunOrder

(* Every step keeps the order.                                             *)
LEMMA RunOrderNext == EngineInv /\ RunOrder /\ [Next]_vars => RunOrder'
  <1> SUFFICES ASSUME EngineInv, RunOrder, [Next]_vars PROVE RunOrder'
    OBVIOUS
  <1>1. CASE SkipUntaken \/ StopRunaway
    <2>1. /\ phase = "scheduling" /\ phase' = phase /\ ~failed /\ MarkSkipped /\ exec' = exec
          /\ UNCHANGED <<wf, fired, halted>> /\ (failed' => ToRun # {})
      BY <1>1 DEF SkipUntaken, StopRunaway, Sweep, Continues
    <2> QED
      BY <2>1, SchedulingOrder DEF Started
  <1>2. CASE StartWave
    <2>1. /\ phase = "scheduling" /\ phase' = "running" /\ ~failed /\ ~failed' /\ MarkSkipped
          /\ UNCHANGED <<wf, fired, halted>>
          /\ \A n \in Nodes : n \notin ToRun => exec'[n] = exec[n]
      BY <1>2 DEF StartWave, Sweep, Continues
    <2> QED
      BY <2>1, SchedulingOrder DEF Started
  <1>3. CASE Collect
    BY <1>3, CollectOrder
  <1>4. CASE Finish
    <2>1. UNCHANGED <<wf, status, fired, exec, failed, halted>> /\ (failed \/ Ready = {})
      BY <1>4 DEF Finish, Continues
    <2> QED
      BY <2>1 DEF RunOrder, Nodes, Ready, Incoming, Reached, Started, NoFalseEdge, Outgoing
  <1>5. ASSUME NEW n \in Nodes, TimesOut(n) \/ Retry(n)
        PROVE  RunOrder'
    <2>1. exec \in [Nodes -> [step : ExecSteps, attempt : Nat]]
      BY DEF EngineInv, Shape
    <2>2. Started(n)
      BY <1>5 DEF TimesOut, Trying, Retry, Started
    <2>3. EngineInv'
      BY NextInv
    <2>4. /\ UNCHANGED <<wf, phase, status, fired, failed, halted>>
          /\ \A m \in Nodes : m # n => exec'[m] = exec[m]
      BY <1>5, <2>1 DEF TimesOut, Retry
    <2>5. Started(n)'
      <3>1. CASE TimesOut(n)
        BY <2>1, <3>1 DEF TimesOut, AfterFailure, Started
      <3>2. CASE Retry(n)
        <4>1. PICK v \in Settled : exec' = [exec EXCEPT ![n] = Begun(n, NextAttempt(n), v)]
          BY <3>2 DEF Retry, Settled
        <4>2. Begun(n, NextAttempt(n), v).step # "idle"
          <5>1. v # "idle"
            BY DEF Settled
          <5> QED
            BY <5>1 DEF Begun, AfterFailure
        <4> QED
          BY <2>1, <4>1, <4>2 DEF Started
      <3> QED
        BY <1>5, <3>1, <3>2
    <2> QED
      BY <2>2, <2>4, <2>5, AttemptOrder DEF Started
  <1>6. ASSUME NEW o \in ops, OpReturns(o) \/ OpFails(o)
        PROVE  RunOrder'
    <2>1. exec \in [Nodes -> [step : ExecSteps, attempt : Nat]]
      BY DEF EngineInv, Shape
    <2>2. UNCHANGED <<wf, phase, status, fired, failed, halted>>
      BY <1>6 DEF OpReturns, OpFails
    <2>3. CASE exec' = exec
      BY <2>2, <2>3, AttemptOrder DEF Started
    <2>4. CASE exec' # exec
      <3>1. Awaited(o) /\ Started(o.node) /\ o.node \in Nodes
        BY <1>6, <2>4 DEF OpReturns, OpFails, Awaited, Trying, Wave, Started
      <3>2. /\ \A m \in Nodes : m # o.node => exec'[m] = exec[m]
            /\ exec'[o.node].step # "idle"
        BY <1>6, <2>1, <2>4, <3>1 DEF OpReturns, OpFails, AfterFailure
      <3> QED
        BY <2>2, <3>1, <3>2, AttemptOrder DEF Started
    <2> QED
      BY <2>3, <2>4
  <1>7. CASE UNCHANGED vars
    BY <1>7, AttemptOrder DEF vars, Started
  <1> QED
    BY <1>1, <1>2, <1>3, <1>4, <1>5, <1>6, <1>7 DEF Next, Engine

(* So every run is ordered.                                                *)
LEMMA RunOrderHolds == Spec => [](EngineInv /\ RunOrder)
  <1>1. Init => RunOrder
    <2> SUFFICES ASSUME Init PROVE RunOrder
      OBVIOUS
    <2>1. \A e \in wf.edges : e.from \in Nodes /\ e.to \in Nodes
      BY InitInv, GraphFacts DEF EngineInv
    <2>2. \A n \in Nodes : status[n] = "waiting" /\ ~Started(n)
      BY DEF Init, Started
    <2>3. phase = "scheduling" /\ ~failed /\ ~halted
      BY DEF Init
    <2> QED
      BY <2>1, <2>2, <2>3 DEF RunOrder
  <1> QED
    BY <1>1, InitInv, NextInv, RunOrderNext, PTL DEF Spec

(* Behind a node that failed nobody starts: those behind it, but for       *)
(* itself, are among the nodes that wait and have not started.             *)
THEOREM FailureContainedHolds == Spec => []FailureContained
  <1>1. EngineInv /\ RunOrder => FailureContained
    <2> SUFFICES ASSUME EngineInv, RunOrder, NEW n \in Nodes, exec[n].step = "error",
                        NEW m \in Downstream(n) \ {n}
                 PROVE  ~Started(m)
      BY DEF FailureContained
    <2>1. PICK S : S = {n} \cup {x \in Nodes : status[x] = "waiting" /\ ~Started(x)}
      OBVIOUS
    <2>2. status[n] = "error" \/ status[n] = "waiting"
      BY DEF EngineInv, Shape, Agreement, NodesAgree, Settled
    <2>3. \A e \in wf.edges : e.from \in Nodes /\ e.to \in Nodes
      BY GraphFacts DEF EngineInv
    <2>4. Closed(wf.edges, S)
      BY <2>1, <2>2, <2>3 DEF Closed, RunOrder
    <2>5. S \in SUBSET Nodes /\ n \in S
      BY <2>1
    <2>6. m \in S
      BY <2>4, <2>5 DEF Downstream
    <2> QED
      BY <2>1, <2>6
  <1> QED
    BY <1>1, RunOrderHolds, PTL

(* The edges that fired are those a live path may take.                    *)
LEMMA LiveAreFired == EngineInv => LiveEdges = fired
  <1> SUFFICES ASSUME EngineInv PROVE LiveEdges = fired
    OBVIOUS
  <1>1. \A e \in wf.edges : e.from \in Nodes
    BY GraphFacts DEF EngineInv
  <1>2. \A e \in wf.edges : e \in LiveEdges <=> e \in fired
    BY <1>1 DEF LiveEdges, Started, EngineInv, Shape, Agreement, NodesAgree, EdgesAgree, Settled
  <1> QED
    BY <1>2 DEF LiveEdges, EngineInv, Shape

(* In a graph without cycles what started lies on a live path: of nodes    *)
(* that started outside a closed set, each would wait for another.         *)
LEMMA StartedOnPath ==
    ASSUME EngineInv, RunOrder, Acyclic, NEW n \in Nodes, Started(n)
    PROVE  OnLivePath(n)
  <1> SUFFICES ASSUME NEW S \in SUBSET Nodes, {m \in Nodes : Incoming(m) = {}} \subseteq S,
                      Closed(LiveEdges, S), n \notin S
               PROVE  FALSE
    BY DEF OnLivePath
  <1>1. PICK ring : ring = {m \in Nodes \ S : Started(m)}
    OBVIOUS
  <1>2. ring \in (SUBSET Nodes) \ {{}}
    BY <1>1
  <1>3. PICK m \in ring : \A e \in Incoming(m) : e.from \notin ring
    BY <1>2 DEF Acyclic
  <1>4. m \in Nodes /\ m \notin S /\ Started(m)
    BY <1>1, <1>3
  <1>5. PICK e \in Incoming(m) : e \in fired
    BY <1>4 DEF RunOrder, Reached
  <1>6. e \in LiveEdges /\ e.to = m /\ e.from \in Nodes /\ Started(e.from)
    BY <1>5, LiveAreFired, GraphFacts DEF Incoming, EngineInv, LiveEdges
  <1>7. e.from \notin S
    BY <1>4, <1>6 DEF Closed
  <1> QED
    BY <1>1, <1>3, <1>5, <1>6, <1>7

(* A run without a cycle that neither failed nor stopped half-way leaves   *)
(* nobody waiting, and what lies on a live path ran.                       *)
LEMMA NobodyWaits ==
    ASSUME EngineInv, RunOrder, Acyclic, phase = "over", ~failed
    PROVE  /\ \A n \in Nodes : status[n] # "waiting"
           /\ \A n \in Nodes : OnLivePath(n) => Started(n)
  <1>1. Ready = {}
    BY DEF RunOrder
  <1>2. ASSUME NEW n \in Nodes, status[n] = "waiting"
        PROVE  FALSE
    <2>1. PICK ring : ring = {m \in Nodes : status[m] = "waiting"}
      OBVIOUS
    <2>2. ring \in (SUBSET Nodes) \ {{}}
      BY <1>2, <2>1
    <2>3. PICK m \in ring : \A e \in Incoming(m) : e.from \notin ring
      BY <2>2 DEF Acyclic
    <2>4. \A e \in Incoming(m) : e.from \in Nodes
      BY GraphFacts DEF EngineInv, Incoming
    <2> QED
      BY <1>1, <2>1, <2>3, <2>4 DEF Ready
  <1>3. \A n \in Nodes : Started(n) \/ status[n] = "skipped"
    BY <1>2 DEF EngineInv, Shape, Agreement, NodesAgree, Settled, Started
  <1>4. PICK S : S = {n \in Nodes : Started(n)}
    OBVIOUS
  <1>5. {m \in Nodes : Incoming(m) = {}} \subseteq S
    BY <1>3, <1>4 DEF RunOrder, Reached
  <1>6. Closed(LiveEdges, S)
    <2> SUFFICES ASSUME NEW e \in LiveEdges PROVE e.to \in S
      BY DEF Closed
    <2>1. e \in fired /\ e \in Incoming(e.to) /\ e.to \in Nodes
      BY LiveAreFired, GraphFacts DEF EngineInv, Incoming, LiveEdges
    <2>2. Reached(e.to)
      BY <2>1 DEF Reached
    <2> QED
      BY <1>3, <1>4, <2>1, <2>2 DEF RunOrder
  <1>7. \A n \in Nodes : OnLivePath(n) => n \in S
    BY <1>4, <1>5, <1>6 DEF OnLivePath
  <1> QED
    BY <1>2, <1>4, <1>7

(* A run that did not fail ran exactly the nodes on a live path.           *)
THEOREM RanIffLivePathHolds == Spec => []RanIffLivePath
  <1>1. EngineInv /\ RunOrder => RanIffLivePath
    BY StartedOnPath, NobodyWaits DEF RanIffLivePath
  <1> QED
    BY <1>1, RunOrderHolds, PTL

(* A run is reported as completed exactly when nothing is missing: no      *)
(* node failed, none on a live path was left out by the guard, and no      *)
(* condition stopped the run.                                              *)
THEOREM CompletedMeansWholeHolds == Spec => []CompletedMeansWhole
  <1> DEFINE Whole == \A n \in Nodes :
                        /\ exec[n].step \in {"idle", "ok", "false"}
                        /\ OnLivePath(n) => Started(n)
                        /\ exec[n].step = "false" => \E e \in Outgoing(n) : e.branch = "false"
  <1>1. ASSUME EngineInv, RunOrder, Acyclic, phase = "over"
        PROVE  Completed <=> Whole
    <2>1. ASSUME Completed
          PROVE  Whole
      <3>1. \A n \in Nodes : OnLivePath(n) => Started(n)
        BY <1>1, <2>1, NobodyWaits DEF Completed
      <3>2. ASSUME NEW n \in Nodes
            PROVE  /\ exec[n].step \in {"idle", "ok", "false"}
                   /\ exec[n].step = "false" => \E e \in Outgoing(n) : e.branch = "false"
        <4>1. status[n] \in {"ok", "false", "skipped"}
          BY <1>1, <2>1 DEF Completed, EngineInv, Shape, Agreement, GuardAgrees, Settled
        <4>2. exec[n].step = IF status[n] = "skipped" THEN "idle" ELSE status[n]
          BY <1>1, <4>1 DEF EngineInv, Agreement, NodesAgree, Settled
        <4>3. status[n] = "false" => ~NoFalseEdge(n)
          BY <1>1, <2>1 DEF Completed, RunOrder
        <4> QED
          BY <4>1, <4>2, <4>3 DEF NoFalseEdge
      <3> QED
        BY <3>1, <3>2
    <2>2. ASSUME Whole
          PROVE  Completed
      <3>1. ~failed
        <4>1. SUFFICES ASSUME NEW n \in Nodes,
                              status[n] = "error" \/ (~Started(n) /\ Reached(n))
                       PROVE  FALSE
          BY <1>1 DEF RunOrder
        <4>2. CASE status[n] = "error"
          <5>1. exec[n].step = "error"
            BY <1>1, <4>2 DEF EngineInv, Agreement, NodesAgree, Settled
          <5> QED
            BY <2>2, <5>1
        <4>3. CASE ~Started(n) /\ Incoming(n) = {}
          BY <2>2, <4>3 DEF OnLivePath
        <4>4. CASE ~Started(n) /\ Incoming(n) \cap fired # {}
          <5>1. PICK e \in Incoming(n) : e \in LiveEdges
            BY <1>1, <4>4, LiveAreFired
          <5>2. e.from \in Nodes /\ Started(e.from) /\ e.to = n
            BY <1>1, <5>1, GraphFacts DEF EngineInv, Incoming, LiveEdges
          <5>3. OnLivePath(e.from)
            BY <1>1, <5>2, StartedOnPath
          <5>4. OnLivePath(n)
            BY <5>1, <5>2, <5>3 DEF OnLivePath, Closed
          <5> QED
            BY <2>2, <4>4, <5>4
        <4> QED
          BY <4>1, <4>2, <4>3, <4>4 DEF Reached
      <3>2. ~halted
        <4>1. SUFFICES ASSUME NEW n \in Nodes, status[n] = "false", NoFalseEdge(n)
                       PROVE  FALSE
          BY <1>1 DEF RunOrder
        <4>2. exec[n].step = "false"
          BY <1>1, <4>1 DEF EngineInv, Agreement, NodesAgree, Settled
        <4> QED
          BY <2>2, <4>1, <4>2 DEF NoFalseEdge
      <3>3. \A n \in Nodes : status[n] # "waiting"
        BY <1>1, <3>1, NobodyWaits
      <3> QED
        BY <3>1, <3>2, <3>3 DEF Completed
    <2> QED
      BY <2>1, <2>2
  <1>2. EngineInv /\ RunOrder => CompletedMeansWhole
    BY <1>1 DEF CompletedMeansWhole
  <1> QED
    BY <1>2, RunOrderHolds, PTL

-----------------------------------------------------------------------------
(* Refinement: the waves implement the rule.                               *)

(* The rule's view of a node.                                              *)
LEMMA RuleView ==
    ASSUME NEW n \in Nodes
    PROVE  /\ status[n] = "skipped" => RuleState[n] = "skipped"
           /\ status[n] # "skipped" =>
                /\ exec[n].step = "idle" => RuleState[n] = "waiting"
                /\ exec[n].step \in {"attempt", "backoff"} => RuleState[n] = "running"
                /\ exec[n].step \in Settled => RuleState[n] = exec[n].step
  BY DEF RuleState, AsRule, Settled

(* A step that leaves the scheduler's record of skips and the outcome of   *)
(* every node as they are is no step of the rule.                          *)
LEMMA RuleStutters ==
    ASSUME EngineInv, UNCHANGED <<wf, exec>>,
           \A n \in Nodes : status'[n] = "skipped" <=> status[n] = "skipped"
    PROVE  UNCHANGED <<RuleGraph, RuleState>>
  BY DEF RuleGraph, RuleState, Nodes

(* The attempt of a node ends or goes on.                                  *)
LEMMA RuleSettles ==
    ASSUME EngineInv, NEW n \in Nodes, exec[n].step \in {"attempt", "backoff"},
           NEW new, new.step \in ExecSteps \ {"idle"},
           exec' = [exec EXCEPT ![n] = new], UNCHANGED <<wf, status>>
    PROVE  Rule!RuleNext \/ UNCHANGED <<RuleGraph, RuleState>>
  <1>1. /\ exec'[n] = new /\ \A m \in Nodes : m # n => exec'[m] = exec[m]
        /\ status[n] # "skipped"
    BY DEF EngineInv, Shape, Agreement, NodesAgree
  <1>2. RuleState[n] = "running"
    BY <1>1, RuleView
  <1>3. /\ RuleState' = [RuleState EXCEPT ![n] = RuleState'[n]]
        /\ RuleState'[n] \in {"running"} \cup Settled
    <2>1. RuleState'[n] = AsRule[new.step]
      BY <1>1 DEF RuleState, Nodes
    <2>2. AsRule[new.step] \in {"running"} \cup Settled
      BY DEF AsRule, ExecSteps, Settled
    <2>3. \A m \in Nodes : m # n => RuleState'[m] = RuleState[m]
      BY <1>1 DEF RuleState, Nodes
    <2>4. /\ RuleState = [m \in Nodes |-> RuleState[m]]
          /\ RuleState' = [m \in Nodes |-> RuleState'[m]]
      BY DEF RuleState, Nodes
    <2> QED
      BY <2>1, <2>2, <2>3, <2>4
  <1>4. UNCHANGED RuleGraph
    BY DEF RuleGraph, Nodes
  <1>5. CASE RuleState'[n] = "running"
    BY <1>2, <1>3, <1>4, <1>5 DEF RuleState
  <1>6. CASE RuleState'[n] \in Settled
    <2>1. Rule!Settle(n)
      BY <1>2, <1>3, <1>4, <1>6 DEF Rule!Settle, Rule!Outcomes, Settled
    <2> QED
      BY <2>1 DEF Rule!RuleNext, RuleGraph
  <1> QED
    BY <1>3, <1>5, <1>6

(* A sweep of the scheduler starts nodes and skips nodes, all of which the *)
(* rule lets it start or skip.                                             *)
LEMMA RuleAdvances ==
    ASSUME EngineInv, phase = "scheduling", ~failed, MarkSkipped, UNCHANGED <<wf, fired>>,
           exec' \in [Nodes -> [step : ExecSteps, attempt : Nat]],
           \A n \in Nodes : \/ exec'[n] = exec[n]
                            \/ n \in ToRun /\ exec'[n].step # "idle"
    PROVE  Rule!RuleNext
  <1>1. \A n \in Nodes : status[n] # "error" /\ exec[n].step \in Settled => exec[n].step = status[n]
    BY DEF EngineInv, Shape, Agreement, NodesAgree, Settled
  <1>2. \A n \in Nodes : /\ status[n] = "waiting" => RuleState[n] = "waiting"
                         /\ status[n] # "waiting" => RuleState[n] = status[n]
    BY RuleView DEF EngineInv, Shape, Agreement, NodesAgree, Settled
  <1>3. \A n \in Nodes : RuleState[n] # "error"
    BY <1>2 DEF EngineInv, Agreement, GuardAgrees
  <1>4. \A e \in wf.edges : e \in fired <=> Rule!Fired(e)
    <2> SUFFICES ASSUME NEW e \in wf.edges PROVE e \in fired <=> Rule!Fired(e)
      OBVIOUS
    <2>1. e.from \in Nodes /\ RuleGraph.kind[e.from] = wf.kind[e.from]
      BY GraphFacts DEF EngineInv, RuleGraph
    <2>2. status[e.from] \in Settled \cup {"waiting", "skipped"}
          /\ (status[e.from] = "false" => IsCondition(e.from))
      BY <2>1 DEF EngineInv, Shape, Agreement, NodesAgree, Settled
    <2> QED
      BY <1>2, <2>1, <2>2
      DEF EngineInv, Agreement, EdgesAgree, Fires, IsCondition, Rule!Fired, Settled
  <1>5. \A n \in Nodes : Rule!Into(n) = Incoming(n)
    BY DEF Rule!Into, Incoming, RuleGraph
  <1>6. \A n \in Ready : Rule!Runnable(n)
    BY <1>2, <1>5, GraphFacts
    DEF Ready, Incoming, Rule!Runnable, Rule!Outcomes, EngineInv, Shape, Settled
  <1>7. \A n \in ToRun : Rule!MayStart(n)
    <2> SUFFICES ASSUME NEW n \in ToRun PROVE Rule!MayStart(n)
      OBVIOUS
    <2>1. n \in Ready /\ n \in Nodes /\ Reached(n)
      BY DEF ToRun, Ready
    <2>2. Rule!Runnable(n) /\ Rule!Into(n) = Incoming(n)
      BY <1>5, <1>6, <2>1
    <2>3. CASE Incoming(n) = {}
      BY <2>2, <2>3 DEF Rule!MayStart
    <2>4. CASE Incoming(n) \cap fired # {}
      <3>1. PICK e \in Incoming(n) : e \in fired
        BY <2>4
      <3>2. e \in wf.edges
        BY <3>1 DEF Incoming
      <3>3. Rule!Fired(e)
        BY <1>4, <3>1, <3>2
      <3> QED
        BY <2>2, <3>1, <3>3 DEF Rule!MayStart
    <2> QED
      BY <2>1, <2>3, <2>4 DEF Reached
  <1>8. \A n \in Ready \ ToRun : Rule!MaySkip(n)
    BY <1>4, <1>5, <1>6 DEF ToRun, Reached, Incoming, Rule!MayStart, Rule!MaySkip, Ready
  <1>9. \A n \in Nodes : \/ RuleState'[n] = RuleState[n]
                         \/ Rule!MayStart(n) /\ RuleState'[n] \in Settled \cup {"running"}
                         \/ Rule!MaySkip(n) /\ RuleState'[n] = "skipped"
    <2> SUFFICES ASSUME NEW n \in Nodes
                 PROVE  \/ RuleState'[n] = RuleState[n]
                        \/ Rule!MayStart(n) /\ RuleState'[n] \in Settled \cup {"running"}
                        \/ Rule!MaySkip(n) /\ RuleState'[n] = "skipped"
      OBVIOUS
    <2>1. RuleState'[n] = IF status'[n] = "skipped" THEN "skipped" ELSE AsRule[exec'[n].step]
      BY DEF RuleState, Nodes
    <2>2. RuleState[n] = IF status[n] = "skipped" THEN "skipped" ELSE AsRule[exec[n].step]
      BY DEF RuleState, Nodes
    <2>3. CASE n \in Ready \ ToRun
      BY <1>8, <2>1, <2>3 DEF MarkSkipped
    <2>4. CASE n \in ToRun /\ exec'[n].step # "idle"
      <3>1. status'[n] = "waiting"
        BY <2>4, SkipFacts
      <3>2. exec'[n].step \in ExecSteps \ {"idle"}
        BY <2>4
      <3>3. AsRule[exec'[n].step] \in Settled \cup {"running"}
        BY <3>2 DEF AsRule, ExecSteps, Settled
      <3> QED
        BY <1>7, <2>1, <2>4, <3>1, <3>3
    <2>5. CASE n \notin Ready \ ToRun /\ exec'[n] = exec[n]
      <3>1. status'[n] = status[n]
        BY <2>5 DEF MarkSkipped
      <3> QED
        BY <2>1, <2>2, <2>5, <3>1
    <2> QED
      BY <2>3, <2>4, <2>5
  <1>10. RuleState' \in [Nodes -> Settled \cup {"waiting", "running", "skipped"}]
    <2>1. \A n \in Nodes : AsRule[exec'[n].step] \in Settled \cup {"waiting", "running"}
      BY DEF AsRule, ExecSteps, Settled
    <2> QED
      BY <2>1 DEF RuleState, Nodes
  <1>11. UNCHANGED RuleGraph
    BY DEF RuleGraph, Nodes
  <1>12. Rule!Advance
    BY <1>3, <1>9, <1>10, <1>11 DEF Rule!Advance, Rule!Outcomes, RuleGraph, Settled
  <1> QED
    BY <1>12 DEF Rule!RuleNext

(* Every step of a run is a step of the rule, or none.                     *)
LEMMA RuleStep ==
    EngineInv /\ [Next]_vars => Rule!RuleNext \/ UNCHANGED <<RuleGraph, RuleState>>
  <1> SUFFICES ASSUME EngineInv, [Next]_vars
               PROVE  Rule!RuleNext \/ UNCHANGED <<RuleGraph, RuleState>>
    OBVIOUS
  <1>0. /\ exec \in [Nodes -> [step : ExecSteps, attempt : Nat]]
        /\ \A n \in Nodes : exec[n].attempt <= wf.retries[n] + 1
    BY DEF EngineInv, Shape, Agreement, NodesAgree
  <1>1. CASE SkipUntaken \/ StopRunaway
    BY <1>0, <1>1, RuleAdvances DEF SkipUntaken, StopRunaway, Sweep, Continues
  <1>2. CASE StartWave
    <2>1. /\ phase = "scheduling" /\ ~failed /\ MarkSkipped /\ UNCHANGED <<wf, fired>>
          /\ ToRun \subseteq Nodes
      BY <1>2 DEF StartWave, Sweep, Continues, ToRun, Ready
    <2>2. PICK v \in [{n \in ToRun : IsCondition(n)} -> {"ok", "false", "error"}] :
            exec' = [n \in Nodes |->
                       IF n \in ToRun THEN Begun(n, 1, IF IsCondition(n) THEN v[n] ELSE "ok")
                                      ELSE exec[n]]
      BY <1>2 DEF StartWave
    <2> DEFINE answer(n) == IF IsCondition(n) THEN v[n] ELSE "ok"
    <2>3. \A n \in ToRun : answer(n) \in Settled
      BY DEF Settled
    <2> HIDE DEF answer
    <2>4. ASSUME NEW n \in ToRun
          PROVE  Begun(n, 1, answer(n)) \in [step : ExecSteps \ {"idle"}, attempt : Nat]
      <3>1. Shape /\ n \in Nodes /\ 1 \in Nat \ {0} /\ answer(n) \in Settled
        BY <2>1, <2>3 DEF EngineInv
      <3>2. 1 <= wf.retries[n] + 1
        BY <3>1, GraphFacts
      <3> QED
        BY <3>1, <3>2, BegunFacts
    <2>5. \A n \in Nodes : exec'[n] = IF n \in ToRun THEN Begun(n, 1, answer(n)) ELSE exec[n]
      BY <2>2 DEF answer
    <2>6. exec' \in [Nodes -> [step : ExecSteps, attempt : Nat]]
      BY <1>0, <2>2, <2>4, <2>5
    <2>7. \A n \in Nodes : exec'[n] = exec[n] \/ (n \in ToRun /\ exec'[n].step # "idle")
      BY <2>4, <2>5
    <2> QED
      BY <2>1, <2>6, <2>7, RuleAdvances
  <1>3. CASE Collect
    <2>1. \A n \in Nodes : status'[n] = "skipped" <=> status[n] = "skipped"
      BY <1>3 DEF Collect, AllSettled, Wave
    <2> QED
      BY <1>3, <2>1, RuleStutters DEF Collect
  <1>4. CASE Finish
    BY <1>4, RuleStutters DEF Finish
  <1>5. ASSUME NEW n \in Nodes, TimesOut(n)
        PROVE  Rule!RuleNext \/ UNCHANGED <<RuleGraph, RuleState>>
    <2>1. AfterFailure(n, exec[n].attempt).step \in ExecSteps \ {"idle"}
      BY DEF AfterFailure, ExecSteps
    <2> QED
      BY <1>5, <2>1, RuleSettles DEF TimesOut, Trying
  <1>6. ASSUME NEW n \in Nodes, Retry(n)
        PROVE  Rule!RuleNext \/ UNCHANGED <<RuleGraph, RuleState>>
    <2>1. PICK v \in {"ok", "false", "error"} :
            exec' = [exec EXCEPT ![n] = Begun(n, exec[n].attempt + 1, v)]
      BY <1>6 DEF Retry
    <2>2. Begun(n, exec[n].attempt + 1, v).step \in ExecSteps \ {"idle"}
      BY DEF Begun, AfterFailure, ExecSteps
    <2> QED
      BY <1>6, <2>1, <2>2, RuleSettles DEF Retry
  <1>7. ASSUME NEW o \in ops, OpReturns(o) \/ OpFails(o)
        PROVE  Rule!RuleNext \/ UNCHANGED <<RuleGraph, RuleState>>
    <2>1. o.node \in Nodes /\ UNCHANGED <<wf, status>>
      BY <1>7 DEF EngineInv, OneOpPerAttempt, OpReturns, OpFails
    <2>2. CASE UNCHANGED exec
      BY <2>1, <2>2, RuleStutters
    <2>3. CASE exec' # exec
      <3>1. Awaited(o)
        BY <1>7, <2>3 DEF OpReturns, OpFails
      <3>2. PICK new : /\ exec' = [exec EXCEPT ![o.node] = new]
                       /\ new.step \in ExecSteps \ {"idle"}
        <4>1. /\ AfterFailure(o.node, o.attempt).step \in ExecSteps \ {"idle"}
              /\ [exec[o.node] EXCEPT !.step = "ok"].step = "ok"
          BY <1>0, <2>1 DEF AfterFailure, ExecSteps
        <4>2. \/ exec' = [exec EXCEPT ![o.node] = AfterFailure(o.node, o.attempt)]
              \/ exec' = [exec EXCEPT ![o.node] = [exec[o.node] EXCEPT !.step = "ok"]]
          BY <1>7, <2>3, <3>1 DEF OpReturns, OpFails
        <4> QED
          BY <4>1, <4>2 DEF ExecSteps
      <3> QED
        BY <2>1, <3>1, <3>2, RuleSettles DEF Awaited, Trying
    <2> QED
      BY <2>2, <2>3
  <1>8. CASE UNCHANGED vars
    BY <1>8, RuleStutters DEF vars
  <1> QED
    BY <1>1, <1>2, <1>3, <1>4, <1>5, <1>6, <1>7, <1>8 DEF Next, Engine

(* The engine implements the scheduling rule of the README, for every      *)
(* graph: no node starts before its predecessors have settled, none is     *)
(* started or skipped against the edges that fired, and none after a       *)
(* failure.                                                                *)
THEOREM EngineFollowsRule == Spec => FollowsRule
  <1>1. Init => Rule!RuleInit
    <2> SUFFICES ASSUME Init PROVE RuleState = [n \in RuleGraph.nodes |-> "waiting"]
      BY DEF Rule!RuleInit
    <2> QED
      BY DEF Init, RuleState, RuleGraph, AsRule
  <1>2. EngineInv /\ [Next]_vars => [Rule!RuleNext]_<<RuleGraph, RuleState>>
    BY RuleStep
  <1> QED
    BY <1>1, <1>2, EngineInvHolds, PTL DEF Spec, FollowsRule, Rule!RuleSpec
=============================================================================
