--------------------------- MODULE WorkflowEngine ---------------------------
(***************************************************************************)
(* One run of a workflow: runGraph and executeNode of packages/fabric-core/*)
(* src/engine.ts.                                                          *)
(*                                                                         *)
(* The engine works in waves: it starts every node whose predecessors have *)
(* settled, waits for ALL of them (Promise.all), then looks again.  Inside *)
(* a wave each node is a loop of attempts with back-off, and an attempt    *)
(* races an operation (an HTTP call, a transfer, a sleep, a loop of calls) *)
(* against a timer.  The timer does not cancel the operation: it goes on,  *)
(* and so do the remaining items of a loop.                                *)
(*                                                                         *)
(* What a template refers to is abstracted to the set of nodes whose       *)
(* outputs it names; what an operation returns, to success or failure.     *)
(***************************************************************************)
EXTENDS Naturals, FiniteSets

CONSTANTS
    Workflows,      \* the graphs a run may be asked to execute
    MaxExecutions   \* MAX_NODE_EXECUTIONS

Kinds == {"trigger", "http", "condition", "onchain", "delay", "transform", "loop"}
Branches == {"true", "false", "none"}

ASSUME EngineAssumption == MaxExecutions \in Nat

(* A stored graph has passed validateGraph: its edges join its own nodes.  *)
(* A loop over an empty list starts no operation and is a transform here.  *)
ASSUME GraphAssumption ==
    \A w \in Workflows :
        /\ IsFiniteSet(w.nodes)
        /\ w.edges \subseteq [from : w.nodes, to : w.nodes, branch : Branches]
        /\ w.kind \in [w.nodes -> Kinds]
        /\ w.items \in [w.nodes -> Nat \ {0}]
        /\ w.retries \in [w.nodes -> Nat]
        /\ w.timed \subseteq w.nodes

VARIABLES
    wf,           \* the graph: nodes, edges, kind, uses, items, retries, timed
    phase,        \* "scheduling", "running" a wave, or "over"
    status,       \* per node: "waiting" or what its settling recorded
    fired,        \* edges that fired
    ctx,          \* nodes whose output templates can see
    exec,         \* per node: where executeNode is, and in which attempt
    ops,          \* operations in flight
    executions,   \* nodes started
    failed, halted

vars == <<wf, phase, status, fired, ctx, exec, ops, executions, failed, halted>>

Nodes == wf.nodes
Incoming(n) == {e \in wf.edges : e.to = n}
Outgoing(n) == {e \in wf.edges : e.from = n}
IsCondition(n) == wf.kind[n] = "condition"
Works(n) == wf.kind[n] \in {"http", "onchain", "delay", "loop"}

Init ==
    /\ wf \in Workflows
    /\ phase = "scheduling"
    /\ status = [n \in Nodes |-> "waiting"]
    /\ fired = {}
    /\ ctx = {}
    /\ exec = [n \in Nodes |-> [step |-> "idle", attempt |-> 0]]
    /\ ops = {}
    /\ executions = 0
    /\ failed = FALSE
    /\ halted = FALSE

-----------------------------------------------------------------------------
(* Each of the following definitions is preceded by the faulty variant     *)
(* that a property is tried against.                                       *)

Ready == {n \in Nodes : /\ status[n] = "waiting"
                        /\ \A e \in Incoming(n) : status[e.from] # "waiting"}

ReachedByAll(n) == Incoming(n) \subseteq fired
Reached(n) == Incoming(n) = {} \/ Incoming(n) \cap fired # {}

(* The while loop goes on.                                                 *)
LoopsOn == Ready # {}
Continues == ~failed /\ Ready # {}

(* An attempt failed: back off and try again, or give up.                  *)
RetriesOnceMore(n, k) == k <= wf.retries[n] + 1
MayRetry(n, k) == k <= wf.retries[n]
AfterFailure(n, k) ==
    [step |-> IF MayRetry(n, k) THEN "backoff" ELSE "error", attempt |-> k]

SameAttempt(n) == exec[n].attempt
NextAttempt(n) == exec[n].attempt + 1

(* Attempt k of node n begins; a condition answers v.  Templates resolve   *)
(* against ctx, and an unknown output throws.                              *)
Begun(n, k, v) ==
    IF ~(wf.uses[n] \subseteq ctx) \/ (IsCondition(n) /\ v = "error")
      THEN AfterFailure(n, k)
      ELSE [step |-> IF Works(n) THEN "attempt" ELSE IF IsCondition(n) THEN v ELSE "ok",
            attempt |-> k]

Launched(n, k) ==
    IF Works(n) /\ wf.uses[n] \subseteq ctx
      THEN {[node |-> n, attempt |-> k, item |-> 1]} ELSE {}

(* The wave, and when it is over.                                          *)
Wave == {n \in Nodes : exec[n].step # "idle" /\ status[n] = "waiting"}
SomeSettled == \E n \in Wave : exec[n].step \in {"ok", "false", "error"}
AllSettled == \A n \in Wave : exec[n].step \in {"ok", "false", "error"}

(* Which edges a node that settled with s fires.                           *)
FiresAlways(e, s) == s # "error"
Fires(e, s) ==
    IF IsCondition(e.from) THEN s # "error" /\ ((e.branch # "false") <=> s = "ok")
                           ELSE s = "ok"

(* A false condition without a false edge halts the run.                   *)
NeverHalts(n) == FALSE
Halts(n) == /\ IsCondition(n) /\ exec[n].step = "false"
            /\ \A e \in Outgoing(n) : e.branch # "false"

-----------------------------------------------------------------------------
(* The scheduling loop.  One action is one turn of it up to its await.     *)

Sweep == phase = "scheduling" /\ Continues
ToRun == {n \in Ready : Reached(n)}
MarkSkipped ==
    status' = [n \in Nodes |-> IF n \in Ready \ ToRun THEN "skipped" ELSE status[n]]

SkipUntaken ==
    /\ Sweep
    /\ ToRun = {}
    /\ MarkSkipped
    /\ UNCHANGED <<wf, phase, fired, ctx, exec, ops, executions, failed, halted>>

StopRunaway ==
    /\ Sweep
    /\ ToRun # {}
    /\ MarkSkipped
    /\ executions' = executions + Cardinality(ToRun)
    /\ executions' > MaxExecutions
    /\ failed' = TRUE
    /\ UNCHANGED <<wf, phase, fired, ctx, exec, ops, halted>>

StartWave ==
    /\ Sweep
    /\ ToRun # {}
    /\ MarkSkipped
    /\ executions' = executions + Cardinality(ToRun)
    /\ executions' <= MaxExecutions
    /\ phase' = "running"
    /\ \E v \in [{n \in ToRun : IsCondition(n)} -> {"ok", "false", "error"}] :
         exec' = [n \in Nodes |->
                    IF n \in ToRun THEN Begun(n, 1, IF IsCondition(n) THEN v[n] ELSE "ok")
                                   ELSE exec[n]]
    /\ ops' = ops \cup UNION {Launched(n, 1) : n \in ToRun}
    /\ UNCHANGED <<wf, fired, ctx, failed, halted>>

Collect ==
    /\ phase = "running"
    /\ AllSettled
    /\ phase' = "scheduling"
    /\ status' = [n \in Nodes |-> IF n \in Wave THEN exec[n].step ELSE status[n]]
    /\ fired' = fired \cup {e \in wf.edges : e.from \in Wave /\ Fires(e, exec[e.from].step)}
    /\ ctx' = ctx \cup {n \in Wave : exec[n].step = "ok" /\ ~IsCondition(n)}
    /\ failed' = \E n \in Wave : exec[n].step = "error"
    /\ halted' = (halted \/ \E n \in Wave : Halts(n))
    /\ UNCHANGED <<wf, exec, ops, executions>>

Finish ==
    /\ phase = "scheduling"
    /\ ~Continues
    /\ phase' = "over"
    /\ UNCHANGED <<wf, status, fired, ctx, exec, ops, executions, failed, halted>>

-----------------------------------------------------------------------------
(* A node's attempts.                                                      *)

Trying(n) == phase = "running" /\ n \in Wave /\ exec[n].step = "attempt"

(* The answer of an operation counts only for the attempt that waits for   *)
(* it; an operation whose timer fired answers nobody.                      *)
Awaited(o) == Trying(o.node) /\ exec[o.node].attempt = o.attempt

OpReturns(o) ==
    /\ IF o.item < wf.items[o.node]
         THEN /\ ops' = (ops \ {o}) \cup {[o EXCEPT !.item = @ + 1]}
              /\ UNCHANGED exec
         ELSE /\ ops' = ops \ {o}
              /\ exec' = IF Awaited(o) THEN [exec EXCEPT ![o.node].step = "ok"] ELSE exec
    /\ UNCHANGED <<wf, phase, status, fired, ctx, executions, failed, halted>>

(* An error status, an exception, a failed item.  A sleep does not fail.   *)
OpFails(o) ==
    /\ wf.kind[o.node] # "delay"
    /\ ops' = ops \ {o}
    /\ exec' = IF Awaited(o) THEN [exec EXCEPT ![o.node] = AfterFailure(o.node, o.attempt)]
                             ELSE exec
    /\ UNCHANGED <<wf, phase, status, fired, ctx, executions, failed, halted>>

TimesOut(n) ==
    /\ n \in wf.timed
    /\ Trying(n)
    /\ exec' = [exec EXCEPT ![n] = AfterFailure(n, exec[n].attempt)]
    /\ UNCHANGED <<wf, phase, status, fired, ctx, ops, executions, failed, halted>>

Retry(n) ==
    /\ phase = "running"
    /\ exec[n].step = "backoff"
    /\ \E v \in {"ok", "false", "error"} :
         exec' = [exec EXCEPT ![n] = Begun(n, NextAttempt(n), v)]
    /\ ops' = ops \cup Launched(n, NextAttempt(n))
    /\ UNCHANGED <<wf, phase, status, fired, ctx, executions, failed, halted>>

-----------------------------------------------------------------------------
Engine == SkipUntaken \/ StopRunaway \/ StartWave \/ Collect \/ Finish

Next ==
    \/ Engine
    \/ \E n \in Nodes : TimesOut(n) \/ Retry(n)
    \/ \E o \in ops : OpReturns(o) \/ OpFails(o)

Spec == Init /\ [][Next]_vars

(* The event loop runs the engine on and fires its timers.  Nothing is     *)
(* assumed of the operations: a call need never come back.                 *)
FairSpec == /\ Spec
            /\ WF_vars(Engine)
            /\ WF_vars(\E n \in Nodes : TimesOut(n) \/ Retry(n))

-----------------------------------------------------------------------------
(* Type invariant of a run.                                                *)
WorkflowTypeOK ==
    /\ wf \in Workflows
    /\ phase \in {"scheduling", "running", "over"}
    /\ status \in [Nodes -> {"waiting", "ok", "false", "skipped", "error"}]
    /\ fired \subseteq wf.edges
    /\ ctx \subseteq Nodes
    /\ \A n \in Nodes :
         /\ exec[n].step \in {"idle", "attempt", "backoff", "ok", "false", "error"}
         /\ exec[n].attempt \in 0 .. wf.retries[n] + 1
    /\ \A o \in ops : o.node \in Nodes /\ o.item \in 1 .. wf.items[o.node]
    /\ executions \in 0 .. MaxExecutions + Cardinality(Nodes)
    /\ failed \in BOOLEAN
    /\ halted \in BOOLEAN

Completed == ~failed /\ ~halted /\ \A n \in Nodes : status[n] # "waiting"
Started(n) == exec[n].step # "idle"

(* Paths.  A set is closed under edges if none leads out of it; a node is  *)
(* behind others if it is in every closed set they are in.                 *)
Closed(edges, S) == \A e \in edges : e.from \in S => e.to \in S

Downstream(n) ==
    {m \in Nodes : \A S \in SUBSET Nodes : n \in S /\ Closed(wf.edges, S) => m \in S}

LiveEdges ==
    {e \in wf.edges : /\ status[e.from] # "waiting" /\ Started(e.from)
                      /\ Fires(e, exec[e.from].step)}
OnLivePath(n) ==
    \A S \in SUBSET Nodes :
        {m \in Nodes : Incoming(m) = {}} \subseteq S /\ Closed(LiveEdges, S) => n \in S

(* Among any nodes one waits for none of them.  validateGraph              *)
(* refuses all other graphs; a list of steps nobody validates may repeat   *)
(* an id and be a cycle (WorkflowForm).                                    *)
Acyclic ==
    \A ring \in (SUBSET Nodes) \ {{}} : \E n \in ring : \A e \in Incoming(n) : e.from \notin ring

(* A run that did not fail took exactly the paths its conditions left open:*)
(* a node ran if and only if a path of edges that match the answers leads  *)
(* to it from an entry node.                                               *)
RanIffLivePath ==
    Acyclic /\ phase = "over" /\ ~failed => \A n \in Nodes : Started(n) <=> OnLivePath(n)

(* "completed" is the whole truth: nothing failed, no condition stopped a  *)
(* branch without an alternative, and everything a live path leads to ran. *)
CompletedMeansWhole ==
    Acyclic /\ phase = "over" =>
        (Completed <=>
           \A n \in Nodes :
             /\ exec[n].step \in {"idle", "ok", "false"}
             /\ OnLivePath(n) => Started(n)
             /\ exec[n].step = "false" => \E e \in Outgoing(n) : e.branch = "false")

(* Downstream of a failure nothing is started, also where another branch   *)
(* leads there.                                                            *)
FailureContained ==
    \A n \in Nodes : exec[n].step = "error" => \A m \in Downstream(n) \ {n} : ~Started(m)

(* What the rule sees of the engine: the graph, and per node what its own  *)
(* execution answered, collected by the scheduler or not yet.              *)
RuleGraph == [nodes |-> Nodes, edges |-> wf.edges, kind |-> wf.kind]
AsRule == [idle |-> "waiting", attempt |-> "running", backoff |-> "running",
           ok |-> "ok", false |-> "false", error |-> "error"]
RuleState ==
    [n \in Nodes |-> IF status[n] = "skipped" THEN "skipped" ELSE AsRule[exec[n].step]]
Rule == INSTANCE WorkflowRule WITH graph <- RuleGraph, state <- RuleState

(* The waves implement the rule of README.md:189, one node at a time: every*)
(* start and every skip happens when the rule allows it, and none after a  *)
(* failure.                                                                *)
FollowsRule == Rule!RuleSpec

(* The engine waits for what it starts: an operation in flight belongs to  *)
(* the attempt its node is in, so when a run reports, nothing it started   *)
(* is still going on.  Only a node with a timeout can leave work behind.   *)
(* And it waits for nothing else: whatever answered or was abandoned, an   *)
(* attempt has an operation in flight that can still end it.               *)
OpsAreAwaited ==
    /\ \A o \in ops : o.node \notin wf.timed => Awaited(o)
    /\ \A n \in Nodes : Trying(n) => \E o \in ops : o.node = n /\ Awaited(o)

(* A run whose operations all have timeouts ends, even if no operation     *)
(* ever answers.                                                           *)
Terminates ==
    (\A n \in Nodes : Works(n) => n \in wf.timed) ~> phase = "over"

=============================================================================
