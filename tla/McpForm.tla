------------------------------- MODULE McpForm -------------------------------
(***************************************************************************)
(* The form that creates an MCP server                                     *)
(* (apps/web/components/fabric/mcp-section.tsx), its requests              *)
(* (apps/web/lib/api.ts), and POST /fabric/mcp-servers of                  *)
(* apps/gateway/src/fabric/routes.ts.                                      *)
(*                                                                         *)
(* The form keeps one list of tools and edits it through two pickers: the  *)
(* built-in tools, and those of the published APIs, which arrive later or  *)
(* never.  What a picker sets replaces its part of the list.  "Back" leaves*)
(* a form whose request is under way; its answer then closes the form that *)
(* is open by then.  The slug and the texts of a server are left out.      *)
(***************************************************************************)
EXTENDS Naturals

CONSTANTS
    BuiltinTools,  \* BUILTIN_TOOLS
    ApiTools,      \* the tools of the published APIs
    FormFlows,     \* the published workflows
    MaxToggles,    \* bounds: toggles in a form,
    MaxServers     \* and forms opened

(* An API's tool is named api__<slug>, no built-in one is; and workflows   *)
(* are a list of their own, told apart from tools here by what they are.   *)
ASSUME PickerAssumption ==
    /\ BuiltinTools \cap ApiTools = {}
    /\ (BuiltinTools \cup ApiTools) \cap FormFlows = {}

VARIABLES
    formNumber,   \* how many forms were opened,
    formOpen,     \* and whether the last one still is
    formTools,    \* its tools,
    formFlows,    \* its workflows,
    options,      \* and the API tools and workflows it offers
    pickedSoFar,  \* history: what is picked in it, toggle by toggle,
    toggles,      \* and how many those were
    creations,    \* requests under way
    servers       \* the servers created, with what was picked for them

mcpFormVars == <<formNumber, formOpen, formTools, formFlows, options, pickedSoFar,
                 toggles, creations, servers>>

NoOptions == [tools |-> {}, workflows |-> {}]

McpFormInit ==
    /\ formNumber = 0 /\ formOpen = FALSE
    /\ formTools = {} /\ formFlows = {} /\ options = NoOptions
    /\ pickedSoFar = {} /\ toggles = 0
    /\ creations = {} /\ servers = {}

(* Built-in tools are picked from the start.                               *)
OpenMcpForm ==
    /\ ~formOpen /\ formNumber < MaxServers
    /\ formOpen' = TRUE
    /\ formNumber' = formNumber + 1
    /\ formTools' = BuiltinTools /\ pickedSoFar' = BuiltinTools
    /\ formFlows' = {} /\ options' = NoOptions /\ toggles' = 0
    /\ UNCHANGED <<creations, servers>>

(* The two lists are fetched when the form opens.                          *)
OptionsArrive ==
    /\ formOpen
    /\ options' \in {[options EXCEPT !.tools = ApiTools], [options EXCEPT !.workflows = FormFlows]}
    /\ UNCHANGED <<formNumber, formOpen, formTools, formFlows, pickedSoFar, toggles, creations, servers>>

-----------------------------------------------------------------------------
(* A picker shows its part of the tools, and sets it.                      *)
Switch(set, x) == IF x \in set THEN set \ {x} ELSE set \cup {x}

\* a picker that forgets the other's part
SetBuiltinsAlone(v) == v
SetBuiltins(v) == v \cup (formTools \cap (options.tools \ BuiltinTools))
SetApiTools(v) == (formTools \cap BuiltinTools) \cup v

Pick(x, tools, flows) ==
    /\ formOpen /\ toggles < MaxToggles
    /\ formTools' = tools /\ formFlows' = flows
    /\ pickedSoFar' = Switch(pickedSoFar, x)
    /\ toggles' = toggles + 1
    /\ UNCHANGED <<formNumber, formOpen, options, creations, servers>>

PickTool(t) ==
    \/ /\ t \in BuiltinTools
       /\ Pick(t, SetBuiltins(Switch(formTools \cap BuiltinTools, t)), formFlows)
    \/ /\ t \in options.tools
       /\ Pick(t, SetApiTools(Switch(formTools \cap options.tools, t)), formFlows)

PickWorkflow(w) ==
    w \in options.workflows /\ Pick(w, formTools, Switch(formFlows, w))

-----------------------------------------------------------------------------
(* What is picked while the request is under way is not in it.             *)
SubmitServer ==
    /\ formOpen
    /\ ~\E q \in creations : q.form = formNumber
    /\ creations' = creations \cup {[form |-> formNumber, state |-> "sent", picked |-> pickedSoFar,
                                     tools |-> formTools, workflows |-> formFlows]}
    /\ UNCHANGED <<formNumber, formOpen, formTools, formFlows, options, pickedSoFar, toggles, servers>>

PostServer ==
    \E q \in creations :
        /\ q.state = "sent"
        /\ servers' = servers \cup {[tools |-> q.tools, workflows |-> q.workflows, picked |-> q.picked]}
        /\ creations' = (creations \ {q}) \cup {[q EXCEPT !.state = "answered"]}
        /\ UNCHANGED <<formNumber, formOpen, formTools, formFlows, options, pickedSoFar, toggles>>

CloseMcpForm ==
    /\ formOpen' = FALSE
    /\ formTools' = {} /\ formFlows' = {} /\ options' = NoOptions
    /\ pickedSoFar' = {} /\ toggles' = 0
    /\ UNCHANGED <<formNumber, servers>>

ServerCreated ==
    \E q \in creations : q.state = "answered" /\ creations' = creations \ {q} /\ CloseMcpForm

LeaveMcpForm == formOpen /\ CloseMcpForm /\ UNCHANGED creations

(* Or the answer is lost: the form says so, and may submit again.          *)
CreationFails ==
    /\ \E q \in creations : creations' = creations \ {q}
    /\ UNCHANGED <<formNumber, formOpen, formTools, formFlows, options, pickedSoFar, toggles, servers>>

McpFormNext ==
    \/ OpenMcpForm \/ OptionsArrive
    \/ \E t \in BuiltinTools \cup ApiTools : PickTool(t)
    \/ \E w \in FormFlows : PickWorkflow(w)
    \/ SubmitServer \/ PostServer \/ ServerCreated \/ LeaveMcpForm \/ CreationFails

McpFormSpec == McpFormInit /\ [][McpFormNext]_mcpFormVars

-----------------------------------------------------------------------------
(* A server exposes to agents what was picked for it: no toggle of one     *)
(* picker takes back one of another, whenever the options arrived, and     *)
(* none made after the press, or in another form, reaches it.              *)
PickedIsExposed == \A s \in servers : s.tools \cup s.workflows = s.picked
=============================================================================
