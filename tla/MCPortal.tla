----------------------------- MODULE MCPortal -----------------------------
(***************************************************************************)
(* Small instances, for TLC, of the parts of the web application and of    *)
(* the catalogs behind it.  They share no state: a behaviour is one of a   *)
(* single part, the one "section" names, and the state spaces add up.  The *)
(* other parts stay in one of their initial states.                        *)
(***************************************************************************)
EXTENDS OwnerScripts, CapBoard, WorkflowEditor, GraphWalk,
        McpServers, CatalogMirror, SkillCatalog, SkillRouter, ApiPublisher, McpForm,
        SkillSandbox

CONSTANTS gateway, zero, s1, payee, vault, public, none

VARIABLE section   \* the part that runs

Sections ==
    {"vault", "caps", "editor", "graphs", "mcp", "mirror", "skills", "router",
     "apis", "mcpform", "sandbox", "scripts"}

(* The console: one of them, on a vault whose only account is the gateway's*)
(* and which settles once an epoch.  The scripts settle twice.             *)
OneAnEpoch == 1

(* The caps: an agent that has a tier, one that is added.                  *)
OneHasTier == {[a \in {"a1"} |-> "basic"]}

(* The editor: a workflow of two steps, whose graph has other nodes, and   *)
(* one that has no graph, and two steps of one name.                       *)
N(i) == <<"http", i, 0>>
Renamed == <<"http", 3, 1>>
TwoRows ==
    {[steps |-> <<StepId(1), StepId(2)>>,
      graph |-> [nodes |-> <<N(3), Renamed>>, edges |-> {<<N(3), Renamed>>}, config |-> 0]],
     [steps |-> <<StepId(2), StepId(2)>>, graph |-> EmptyGraph]}

(* Graphs: up to three nodes, the third perhaps named like the first, or   *)
(* one without a name; every set of edges between them, and edges from and *)
(* to a node that is not there.                                            *)
Samples ==
    LET lists == {<<>>, <<N(1)>>, <<N(1), N(2)>>, <<N(1), N(2), N(3)>>, <<N(1), N(2), N(1)>>,
                  <<N(1), NoId>>}
        ends(list) == {<<list[i], list[j]>> : i, j \in DOMAIN list}
                        \cup {<<N(1), N(4)>>, <<N(4), N(1)>>}
    IN UNION {{[nodes |-> list, edges |-> es, config |-> 0] : es \in SUBSET ends(list)} :
                list \in lists}

(* Skills: one slug in two spellings and two versions.                     *)
TwoNames == {<<"hello-weather", "hello-weather">>, <<"hello-weather", "Hello Weather!">>}
SomeSkills == [name : TwoNames, version : {<<0, 9, 0>>, <<0, 10, 0>>}, valid : BOOLEAN]

(* Services: an API that is free because its price is no number, a dear    *)
(* one, and a skill.  Doubles do not tell 5 from 4, nor scores two large   *)
(* differences.                                                            *)
SomePrices == {<<NotANumber, 6, 5>>}
FivesAreFours == [p \in 0 .. MaxPrice |-> IF p = 5 THEN 4 ELSE p]
LargeIsLarge == [d \in 0 .. MaxPrice |-> IF d > 3 THEN MaxPrice ELSE d]

(* APIs: a name and slugs that slugify does or does not leave alone.       *)
NamesGiven == {<<"rates", "Title">>, <<"rates", "signs">>}
SlugsTyped == {Blank, <<"rates", "slug">>, <<"rates", "Slug">>}

(* Units for the sandbox: with an endpoint whose host is fixed, is the     *)
(* caller's, or with none, and a domain, a host of it or a wildcard listed;*)
(* one that lists the first host of the weather handler only; a broken one.*)
(* Answers redirect to a host that is not listed.                          *)
Domain == <<"com", "open-meteo">>
Host == HelloWeather[2]
Endpoints ==
    {{}, {[host |-> Host, needs |-> {}, absolute |-> TRUE]},
     {[host |-> <<>>, needs |-> {"n"}, absolute |-> TRUE]}}
Documents ==
    [wellFormed : {TRUE}, endpoint : Endpoints, egress : {{Host}, {Domain}, {Append(Domain, "*")}}]
      \cup {[wellFormed |-> TRUE, endpoint |-> {}, egress |-> {HelloWeather[1]}],
            [wellFormed |-> FALSE, endpoint |-> {}, egress |-> {}]}
Elsewhere == {<<"org", "example">>}
CallerInputs == {[names |-> n, host |-> Host] : n \in SUBSET {"n"}}

-----------------------------------------------------------------------------
others == <<vars, conVars, boardVars, edVars, mcpVars, mirrorVars, catVars,
            routerVars, pubVars, mcpFormVars, boxVars, scriptVars, walkVars>>

OnlyIn(name, initial, choices) == section # name => initial = CHOOSE x \in choices : TRUE

PortalInit ==
    /\ section \in Sections
    /\ (section # "scripts" => OnlyIn("vault", safe, Safes))
    /\ OnlyIn("editor", stored, InitRows)
    /\ OnlyIn("mcp", mcpStored, Lists)
    /\ OnlyIn("skills", storeKind, {"memory"})
    /\ OnlyIn("skills", skill, {[p \in Publishes |-> CHOOSE s \in Skills : TRUE]})
    /\ OnlyIn("router", price, PriceLists)
    /\ OnlyIn("sandbox", wall, Walls)
    /\ OnlyIn("scripts", script, {"fund"})
    /\ OnlyIn("graphs", drawn, {EmptyGraph}) /\ WalkInit
    /\ ConsoleInit /\ BoardInit /\ EditorInit
    /\ McpInit /\ MirrorInit /\ CatalogInit /\ RouterInit
    /\ PublisherInit /\ McpFormInit /\ SandboxInit /\ ScriptsInit

PortalNext ==
    \/ /\ section = "vault" /\ ConsoleNext /\ epochCount' <= OneAnEpoch
       /\ UNCHANGED <<section, boardVars, edVars, mcpVars, mirrorVars,
                      catVars, routerVars, pubVars, mcpFormVars, boxVars, scriptVars,
                      walkVars>>
    \/ /\ section = "caps" /\ BoardNext
       /\ UNCHANGED <<section, vars, conVars, edVars, mcpVars, mirrorVars,
                      catVars, routerVars, pubVars, mcpFormVars, boxVars, scriptVars,
                      walkVars>>
    \/ /\ section = "editor" /\ EditorNext
       /\ UNCHANGED <<section, vars, conVars, boardVars, mcpVars, mirrorVars,
                      catVars, routerVars, pubVars, mcpFormVars, boxVars, scriptVars,
                      walkVars>>
    \/ /\ section = "mcp" /\ McpNext
       /\ UNCHANGED <<section, vars, conVars, boardVars, edVars, mirrorVars,
                      catVars, routerVars, pubVars, mcpFormVars, boxVars, scriptVars,
                      walkVars>>
    \/ /\ section = "mirror" /\ MirrorNext
       /\ UNCHANGED <<section, vars, conVars, boardVars, edVars, mcpVars,
                      catVars, routerVars, pubVars, mcpFormVars, boxVars, scriptVars,
                      walkVars>>
    \/ /\ section = "skills" /\ CatalogNext
       /\ UNCHANGED <<section, vars, conVars, boardVars, edVars, mcpVars,
                      mirrorVars, routerVars, pubVars, mcpFormVars, boxVars, scriptVars,
                      walkVars>>
    \/ /\ section = "router" /\ RouterNext
       /\ UNCHANGED <<section, vars, conVars, boardVars, edVars, mcpVars,
                      mirrorVars, catVars, pubVars, mcpFormVars, boxVars, scriptVars,
                      walkVars>>
    \/ /\ section = "apis" /\ PublisherNext
       /\ UNCHANGED <<section, vars, conVars, boardVars, edVars, mcpVars,
                      mirrorVars, catVars, routerVars, mcpFormVars, boxVars, scriptVars,
                      walkVars>>
    \/ /\ section = "mcpform" /\ McpFormNext
       /\ UNCHANGED <<section, vars, conVars, boardVars, edVars, mcpVars,
                      mirrorVars, catVars, routerVars, pubVars, boxVars, scriptVars,
                      walkVars>>
    \/ /\ section = "sandbox" /\ SandboxNext
       /\ UNCHANGED <<section, vars, conVars, boardVars, edVars, mcpVars,
                      mirrorVars, catVars, routerVars, pubVars, mcpFormVars, scriptVars,
                      walkVars>>
    \/ /\ section = "scripts" /\ ScriptsNext
       /\ UNCHANGED <<section, boardVars, edVars, mcpVars, mirrorVars,
                      catVars, routerVars, pubVars, mcpFormVars, boxVars, walkVars>>
    \/ /\ section = "graphs" /\ WalkNext
       /\ UNCHANGED <<section, vars, conVars, boardVars, edVars, mcpVars,
                      mirrorVars, catVars, routerVars, pubVars, mcpFormVars, boxVars,
                      scriptVars>>

PortalSpec == PortalInit /\ [][PortalNext]_<<section, others>>

=============================================================================
