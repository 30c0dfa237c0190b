--------------------------- MODULE CatalogMirror ---------------------------
(***************************************************************************)
(* What the MCP server knows of the gateway's catalog: the cache of        *)
(* packages/fabric-core/src/catalog.ts, the tools register.ts makes of it, *)
(* and the callers in apps/mcp-server/src/fabric-server.ts.                *)
(*                                                                         *)
(* The catalog gives a revision to every workflow, 0 if it has none (the   *)
(* skills are treated in the same way).  A load is asked for by a lookup,  *)
(* by list_skills, or by the start and POST /reload, which register tools  *)
(* too; it may fetch before an edit and be stored after it, and several    *)
(* may be under way.  A gateway that does not answer is an empty catalog.  *)
(***************************************************************************)
EXTENDS Naturals

CONSTANTS
    Workflows,
    Ttl,            \* ticks a cached catalog is used for
    MaxRevision,    \* bounds for model checking: edits of a workflow,
    LoadIds         \* loads at a time

ASSUME MirrorAssumption == Ttl \in Nat \ {0} /\ MaxRevision \in Nat

VARIABLES
    live,       \* the gateway's catalog
    cache,      \* the cached one, if any: [rows, age]
    loads,      \* loads under way
    tools,      \* the revision each wf__ tool was registered with, 0: none
    reloaded,   \* history: the catalog when the last good reload was asked for
    blurred     \* history: since then an older load, or none, was stored

mirrorVars == <<live, cache, loads, tools, reloaded, blurred>>

Nothing == [w \in Workflows |-> 0]
AtLeast(rows, floor) == \A w \in Workflows : rows[w] >= floor[w]

MirrorInit ==
    /\ live = Nothing /\ cache = {} /\ loads = {}
    /\ tools = Nothing
    /\ reloaded = Nothing /\ blurred = FALSE

(* A workflow is created at the gateway, or its graph edited.              *)
EditLive ==
    /\ \E w \in Workflows :
         live[w] < MaxRevision /\ live' = [live EXCEPT ![w] = @ + 1]
    /\ UNCHANGED <<cache, loads, tools, reloaded, blurred>>

Tick ==
    /\ cache' = {[c EXCEPT !.age = IF @ < Ttl THEN @ + 1 ELSE @] : c \in cache}
    /\ UNCHANGED <<live, loads, tools, reloaded, blurred>>

(* fabric_reload does this alone; POST /reload before it loads.            *)
InvalidateCache ==
    /\ cache' = {}
    /\ UNCHANGED <<live, loads, tools, reloaded, blurred>>

-----------------------------------------------------------------------------
(* loadCatalog: a lookup is content with a catalog young enough.           *)
LoadNeeded(by) == by = "lookup" => \A c \in cache : c.age = Ttl

BeginLoad ==
    /\ \E by \in {"lookup", "list", "reload"}, id \in LoadIds \ {l.id : l \in loads} :
         /\ LoadNeeded(by)
         /\ cache' = IF by = "reload" THEN {} ELSE cache
         /\ loads' = loads \cup {[id |-> id, by |-> by, asked |-> live, older |-> FALSE,
                                  state |-> "asked", rows |-> Nothing]}
    /\ UNCHANGED <<live, tools, reloaded, blurred>>

Fetch(l) ==
    /\ l.state = "asked"
    /\ \E got \in {[l EXCEPT !.state = "fetched", !.rows = live], [l EXCEPT !.state = "failed"]} :
         loads' = (loads \ {l}) \cup {got}
    /\ UNCHANGED <<live, cache, tools, reloaded, blurred>>

(* registerCatalog: a name that is taken is skipped, its tool stays.       *)
Registered(rows) == [w \in Workflows |-> IF tools[w] = 0 THEN rows[w] ELSE tools[w]]

StoredIfNone(l) == IF cache # {} THEN cache ELSE {[rows |-> l.rows, age |-> 0]}
Stored(l) == {[rows |-> l.rows, age |-> 0]}

FinishLoad(l) ==
    LET good == l.by = "reload" /\ l.state = "fetched"
    IN /\ l.state # "asked"
       /\ cache' = Stored(l)
       /\ tools' = IF l.by = "reload" THEN Registered(l.rows) ELSE tools
       /\ loads' = {[m EXCEPT !.older = @ \/ good] : m \in loads \ {l}}
       /\ reloaded' = IF good THEN l.asked ELSE reloaded
       /\ blurred' = (~good /\ (blurred \/ l.older \/ l.state = "failed"))
       /\ UNCHANGED live

MirrorNext ==
    \/ EditLive \/ Tick \/ InvalidateCache \/ BeginLoad
    \/ \E l \in loads : Fetch(l) \/ FinishLoad(l)

MirrorSpec == MirrorInit /\ [][MirrorNext]_mirrorVars

-----------------------------------------------------------------------------
(* After a reload that reached the gateway, whatever had been published    *)
(* when it was asked for has a tool and is found by lookups, in the        *)
(* revision of then or a later one; until a load that was under way before *)
(* the reload was done, or one that failed, is stored over it.             *)
PublishedIsFound ==
    /\ \A w \in Workflows : reloaded[w] > 0 => tools[w] > 0
    /\ blurred \/ \A c \in cache : AtLeast(c.rows, reloaded)
=============================================================================
