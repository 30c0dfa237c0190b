---------------------------- MODULE WorkflowForm ----------------------------
(***************************************************************************)
(* CreateWorkflowForm of apps/web/components/fabric/workflows-section.tsx, *)
(* and POST /fabric/workflows, which it submits to.                        *)
(*                                                                         *)
(* Of a workflow only its steps matter here, of a step only its id.  The   *)
(* form may be edited while its creation is under way.  A form that is     *)
(* left takes its state with it, but not the creation it submitted; when   *)
(* that is done, it closes whichever form is shown by then.                *)
(***************************************************************************)
EXTENDS WorkflowGraphs

CONSTANTS
    Names,       \* ids the operator may type into a step, NoId among them
    MaxSteps     \* bound for model checking: steps of a form

VARIABLES
    formShown,   \* the form is shown, not the list
    steps,       \* the ids of its steps
    posting,     \* its creation under way ("busy"): <<steps>>, or <<>>
    late,        \* the same, of a form that was left
    created      \* the steps of the workflow created last

formVars == <<formShown, steps, posting, late, created>>

FormInit ==
    /\ formShown = FALSE /\ steps = <<>>
    /\ posting = <<>> /\ late = <<>>
    /\ created = <<>>

OpenForm ==
    /\ ~formShown
    /\ formShown' = TRUE
    /\ UNCHANGED <<steps, posting, late, created>>

(* The form goes; what it has submitted does not.                          *)
CloseForm ==
    /\ formShown' = FALSE /\ steps' = <<>> /\ posting' = <<>>

(* Bound: one creation at a time outlives its form.                        *)
Cancel ==
    /\ formShown /\ (posting = <<>> \/ late = <<>>)
    /\ CloseForm
    /\ late' = late \o posting
    /\ UNCHANGED created

EditSteps(next) ==
    /\ formShown
    /\ steps' = next
    /\ UNCHANGED <<formShown, posting, late, created>>

(* newStep counts the steps that are there; any step can be removed.       *)
NewStep == StepId(Len(steps) + 1)

AddStep == Len(steps) < MaxSteps /\ EditSteps(Append(steps, NewStep))

RemoveStep ==
    \E i \in DOMAIN steps :
        EditSteps([j \in 1 .. Len(steps) - 1 |-> IF j < i THEN steps[j] ELSE steps[j + 1]])

PatchStep == \E i \in DOMAIN steps, id \in Names : EditSteps([steps EXCEPT ![i] = id])

ResetForm == EditSteps(<<>>)

Submit ==
    /\ formShown /\ posting = <<>>
    /\ posting' = <<steps>>
    /\ UNCHANGED <<formShown, steps, late, created>>

(* POST /fabric/workflows validates a graph only: a list of steps is       *)
(* stored as it comes.  onDone shows the list.                             *)
Posted ==
    /\ posting # <<>>
    /\ created' = posting[1]
    /\ CloseForm
    /\ UNCHANGED late

PostedLate ==
    /\ late # <<>>
    /\ created' = late[1]
    /\ late' = posting
    /\ CloseForm

PostFails ==
    \/ posting # <<>> /\ posting' = <<>> /\ UNCHANGED <<formShown, steps, late, created>>
    \/ late # <<>> /\ late' = <<>> /\ UNCHANGED <<formShown, steps, posting, created>>

FormNext ==
    \/ OpenForm \/ Cancel
    \/ AddStep \/ RemoveStep \/ PatchStep \/ ResetForm
    \/ Submit \/ Posted \/ PostedLate \/ PostFails

FormSpec == FormInit /\ [][FormNext]_formVars

-----------------------------------------------------------------------------
(* A workflow whose steps came from the form runs all of them, in their    *)
(* order: stepsToGraph is to reproduce the old runner, which walked the    *)
(* list, exactly.  It draws edges by id, though; newStep counts, so that a *)
(* step added after one was removed can get an id that is there already;   *)
(* and POST validates no steps.  The step is then its own predecessor.     *)
CreatedStepsRun == Runnable(StepsToGraph(created))
=============================================================================
