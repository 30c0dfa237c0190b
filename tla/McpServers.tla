----------------------------- MODULE McpServers -----------------------------
(***************************************************************************)
(* The detail of an MCP server in the web application                      *)
(* (apps/web/components/fabric/mcp-section.tsx), and the gateway it        *)
(* patches: PATCH /fabric/mcp-servers/:slug of                             *)
(* apps/gateway/src/fabric/routes.ts.                                      *)
(*                                                                         *)
(* Every toggle sends both lists, as they are after it, without waiting    *)
(* for the toggles before: requests may fail and arrive in any order, also *)
(* after the detail was left.  The list is fetched when the section is     *)
(* opened, not on the way back from a detail.                              *)
(***************************************************************************)
EXTENDS Naturals

CONSTANTS
    Tools, Flows,   \* the tools and the workflows there are to choose from
    MaxPatches      \* bound for model checking: toggles

ASSUME PatchAssumption == MaxPatches \in Nat

VARIABLES
    mcpOpen,     \* the detail is shown, not the list
    mcpListed,   \* the server in the list fetched last
    mcpStored,   \* the server at the gateway
    mcpShown,    \* the lists in the detail
    patches,     \* requests under way
    sent,        \* how many there were,
    lastSent,    \* history: the last one of this visit to the detail, or 0,
    lastApplied  \* history: the one applied last

mcpVars == <<mcpOpen, mcpListed, mcpStored, mcpShown, patches, sent, lastSent, lastApplied>>

Lists == [tools : SUBSET Tools, workflows : SUBSET Flows]
NoLists == [tools |-> {}, workflows |-> {}]

McpInit ==
    /\ mcpOpen = FALSE
    /\ mcpStored \in Lists /\ mcpListed = mcpStored
    /\ mcpShown = NoLists
    /\ patches = {} /\ sent = 0 /\ lastSent = 0 /\ lastApplied = 0

OpenServer ==
    /\ ~mcpOpen
    /\ mcpOpen' = TRUE
    /\ mcpShown' = mcpListed
    /\ lastSent' = 0
    /\ UNCHANGED <<mcpListed, mcpStored, patches, sent, lastApplied>>

LeaveServer ==
    /\ mcpOpen
    /\ mcpOpen' = FALSE
    /\ mcpShown' = NoLists /\ lastSent' = 0
    /\ UNCHANGED <<mcpListed, mcpStored, patches, sent, lastApplied>>

(* load: on mount, when the wallet changes, after a creation.              *)
LoadServers ==
    /\ mcpListed' = mcpStored
    /\ UNCHANGED <<mcpOpen, mcpStored, mcpShown, patches, sent, lastSent, lastApplied>>

-----------------------------------------------------------------------------
Flip(set, x) == IF x \in set THEN set \ {x} ELSE set \cup {x}

(* The body of the PATCH after a toggle left the lists like this.          *)
BodyAsListed(lists) == [lists EXCEPT !.tools = mcpListed.tools]
Body(lists) == lists

(* toggleTool, toggleWf: the list changes at once, persist sends it.       *)
Toggle(lists) ==
    /\ mcpOpen /\ sent < MaxPatches
    /\ mcpShown' = lists
    /\ sent' = sent + 1 /\ lastSent' = sent'
    /\ patches' = patches \cup {[number |-> sent', body |-> Body(lists)]}
    /\ UNCHANGED <<mcpOpen, mcpListed, mcpStored, lastApplied>>

ToggleTool(t) == Toggle([mcpShown EXCEPT !.tools = Flip(@, t)])
ToggleWorkflow(w) == Toggle([mcpShown EXCEPT !.workflows = Flip(@, w)])

(* patchMcpServer: both lists are in the body, both are replaced.          *)
ApplyPatch(p) ==
    /\ mcpStored' = p.body
    /\ lastApplied' = p.number
    /\ patches' = patches \ {p}
    /\ UNCHANGED <<mcpOpen, mcpListed, mcpShown, sent, lastSent>>

(* Nobody notices: persist has no catch, and "saving" just ends.           *)
PatchFails(p) ==
    /\ patches' = patches \ {p}
    /\ UNCHANGED <<mcpOpen, mcpListed, mcpStored, mcpShown, sent, lastSent, lastApplied>>

McpNext ==
    \/ OpenServer \/ LeaveServer \/ LoadServers
    \/ \E t \in Tools : ToggleTool(t)
    \/ \E w \in Flows : ToggleWorkflow(w)
    \/ \E p \in patches : ApplyPatch(p) \/ PatchFails(p)

McpSpec == McpInit /\ [][McpNext]_mcpVars

-----------------------------------------------------------------------------
(* The last toggle makes up for all before it, lost or late: if it was the *)
(* last to arrive, the gateway has exactly what the detail shows, also     *)
(* what was toggled in the other list meanwhile or shown from an old list. *)
SettledMeansShown == mcpOpen /\ lastSent # 0 /\ lastApplied = lastSent => mcpStored = mcpShown
=============================================================================
