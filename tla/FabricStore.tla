----------------------------- MODULE FabricStore -----------------------------
(***************************************************************************)
(* The fabric store of the gateway and its snapshot on disk:               *)
(* apps/gateway/src/fabric/store.ts, persist.ts and the routes that change *)
(* the store.                                                              *)
(*                                                                         *)
(* Everything published lives in memory.  Each mutation arms a timer; when *)
(* it fires the whole store is written to a temporary file that is then    *)
(* renamed.  All of this is synchronous, so a handler runs entirely before *)
(* or after a write, but the process may die at any point.  A handler that *)
(* calls out (a proxied API, a skill, a workflow) is cut at its await, and *)
(* looks rows up again by key when it comes back.                          *)
(***************************************************************************)
EXTENDS Naturals, Sequences, FiniteSets, SequencesExt

CONSTANTS
    Keys,           \* slugs
    Marketplace,    \* the slugs that seeding the marketplace wants, per collection
    Builtin,        \* the slugs that seeding the workflows wants, per collection
    Calls,          \* requests that await something
    MaxLogs,        \* 500
    MaxRuns,        \* 200
    MaxRows,        \* bounds for model checking: rows ever published,
    MaxEdits,       \* edits of a row (and none while one has that many),
    MaxRestarts     \* restarts

Kinds == {"apis", "workflows", "servers"}

ASSUME FabricAssumption ==
    /\ MaxLogs \in Nat /\ MaxRuns \in Nat /\ MaxRows \in Nat
    /\ MaxEdits \in Nat /\ MaxRestarts \in Nat
    /\ Marketplace \in [Kinds -> SUBSET Keys]
    /\ Builtin \in [Kinds -> SUBSET Keys]
    /\ IsFiniteSet(Keys) /\ IsFiniteSet(Calls)

VARIABLES
    store,        \* the collections, the request logs and the workflow runs
    timer,        \* a save is scheduled
    pending,      \* and has something to write
    saving,       \* where writeNow is: "no", "writing" or "renaming"
    tmp, disk,    \* the temporary file and the state file
    calls,        \* per request: where it is and the key it was made with
    minted,       \* ids given out (crypto.randomUUID never repeats one)
    restarts,
    writeFailed   \* history: a write failed and nothing was scheduled since

vars == <<store, timer, pending, saving, tmp, disk, calls, minted, restarts, writeFailed>>

Empty == [apis |-> <<>>, workflows |-> <<>>, servers |-> <<>>, logs |-> <<>>, runs |-> <<>>]
NoFile == [file |-> "none"]
Torn == [file |-> "torn"]

-----------------------------------------------------------------------------
(* Each of the following definitions is preceded by the faulty variant     *)
(* that a property is tried against.                                       *)

NewRow(id, slug) ==
    [id |-> id, slug |-> slug, edits |-> 0, requests |-> 0, successes |-> 0]

(* Lookups find the newest row that has the key as its slug or its id.  A  *)
(* name is looked up like a slug and not modelled.  Found has at most one  *)
(* member.                                                                 *)
Named(rows, k) == {i \in DOMAIN rows : k = rows[i].id \/ k = rows[i].slug}
Found(rows, k) == {i \in Named(rows, k) : \A j \in Named(rows, k) : i <= j}

TrimmedLate(s, max) == IF Len(s) > max + 1 THEN SubSeq(s, 1, max + 1) ELSE s
Trimmed(s, max) == IF Len(s) > max THEN SubSeq(s, 1, max) ELSE s

(* bumpApiStats: the counters of the row found for the key.               *)
CountedIfOk(rows, k, ok) ==
    [i \in DOMAIN rows |->
       IF i \in Found(rows, k) /\ ok
       THEN [rows[i] EXCEPT !.requests = @ + 1, !.successes = @ + 1] ELSE rows[i]]
Counted(rows, k, ok) ==
    [i \in DOMAIN rows |->
       IF i \in Found(rows, k)
       THEN [rows[i] EXCEPT !.requests = @ + 1,
                            !.successes = @ + (IF ok THEN 1 ELSE 0)] ELSE rows[i]]

Logged(entry) == Trimmed(<<entry>> \o store.logs, MaxLogs)

(* scheduleSave: remember to write, and start the timer unless it runs.    *)
ScheduleSaveLate == timer' = TRUE /\ pending' = timer /\ writeFailed' = FALSE
ScheduleSave == timer' = TRUE /\ pending' = TRUE /\ writeFailed' = FALSE

(* What is written, and what hydrating the next process makes of a file.   *)
SnapshotWithoutWorkflows ==
    [file |-> "snapshot", store |-> [store EXCEPT !.workflows = <<>>]]
Snapshot == [file |-> "snapshot", store |-> store]

HydratedWithoutServers(f) ==
    IF f.file = "snapshot" THEN [f.store EXCEPT !.servers = <<>>] ELSE Empty
Hydrated(f) == IF f.file = "snapshot" THEN f.store ELSE Empty

NeverRenamed == disk
Renamed == tmp

-----------------------------------------------------------------------------
Init ==
    /\ store = Empty
    /\ timer = FALSE /\ pending = FALSE
    /\ saving = "no"
    /\ tmp = NoFile /\ disk = NoFile
    /\ calls = [c \in Calls |-> [step |-> "idle", key |-> 0]]
    /\ minted = 0
    /\ restarts = 0
    /\ writeFailed = FALSE

(* A handler runs, and changes the store: nothing else runs meanwhile.     *)
Mutates(new) ==
    /\ saving = "no"
    /\ store' = new
    /\ ScheduleSave
    /\ UNCHANGED <<saving, tmp, disk, restarts>>

(* POST /fabric/apis, /fabric/workflows, /fabric/mcp-servers.  A slug that *)
(* is taken is not refused: the newer row is found first.                  *)
Publish(kind, slug) ==
    /\ minted < MaxRows
    /\ minted' = minted + 1
    /\ Mutates([store EXCEPT ![kind] = <<NewRow(minted + 1, slug)>> \o @])
    /\ UNCHANGED calls

(* PUT /fabric/workflows/:slug/graph, PATCH /fabric/mcp-servers/:slug.  A  *)
(* patch may replace nothing, and is saved all the same.                   *)
Edit(kind, k) ==
    /\ \A l \in Kinds : \A i \in DOMAIN store[l] : store[l][i].edits < MaxEdits
    /\ \E i \in Found(store[kind], k), v \in {0, 1} :
         Mutates([store EXCEPT ![kind][i].edits = @ + v])
    /\ UNCHANGED <<calls, minted>>

(* POST /fabric/marketplace/seed, /fabric/workflows/seed: what a collection*)
(* lacks is created, slug by slug, in an order left open here.  Seeding    *)
(* that creates nothing schedules nothing.                                 *)
Missing(kind, wanted) ==
    {k \in wanted[kind] : \A i \in DOMAIN store[kind] : store[kind][i].slug # k}

Starters(slugs, from) == [i \in DOMAIN slugs |-> NewRow(from + i, slugs[i])]

Seed(wanted) ==
    /\ \E kind \in Kinds : Missing(kind, wanted) # {}
    /\ \E apis \in SetToSeqs(Missing("apis", wanted)),
          workflows \in SetToSeqs(Missing("workflows", wanted)),
          servers \in SetToSeqs(Missing("servers", wanted)) :
         /\ minted' = minted + Len(apis) + Len(workflows) + Len(servers)
         /\ minted' <= MaxRows
         /\ Mutates([store EXCEPT
              !.apis = Starters(apis, minted) \o @,
              !.workflows = Starters(workflows, minted + Len(apis)) \o @,
              !.servers = Starters(servers, minted + Len(apis) + Len(workflows)) \o @])
    /\ UNCHANGED calls

-----------------------------------------------------------------------------
(* Requests that call out.                                                 *)

Goto(c, step, key) == calls' = [calls EXCEPT ![c] = [step |-> step, key |-> key]]

Begins(c, step, key) ==
    /\ saving = "no"
    /\ calls[c].step = "idle"
    /\ Goto(c, step, key)
    /\ UNCHANGED <<store, timer, pending, saving, tmp, disk, minted, restarts, writeFailed>>

(* POST /fabric/run/api: a published API is fetched, any other slug is     *)
(* taken for a skill.  POST /route invokes the service it ranked first as  *)
(* a skill, API or not.  POST /fabric/run/workflow, and POST /fabric/run of*)
(* a workflow.                                                             *)
RunApi(c, k) == Begins(c, IF Named(store.apis, k) # {} THEN "proxying" ELSE "invoking", k)
Route(c, k) == Begins(c, "invoking", k)
RunWorkflow(c, k) ==
    \E i \in Found(store.workflows, k) : Begins(c, "running", store.workflows[i].slug)

(* A request log.  Proxied calls are those with a duration and unpaid; of  *)
(* the others only that they are logged is modelled.                       *)
Entry(k, ok) == [key |-> k, outcome |-> IF ok THEN "ok" ELSE "error"]
OtherEntry == [key |-> 0, outcome |-> "unproxied"]

(* The upstream answered.                                                  *)
ProxyReturns(c, ok) ==
    /\ calls[c].step = "proxying"
    /\ Mutates([store EXCEPT !.apis = Counted(@, calls[c].key, ok),
                             !.logs = Logged(Entry(calls[c].key, ok))])
    /\ Goto(c, "done", calls[c].key)
    /\ UNCHANGED minted

SkillReturns(c) ==
    /\ calls[c].step = "invoking"
    /\ Mutates([store EXCEPT !.logs = Logged(OtherEntry)])
    /\ Goto(c, "done", calls[c].key)
    /\ UNCHANGED minted

RunReturns(c) ==
    /\ calls[c].step = "running"
    /\ Mutates([store EXCEPT !.runs = Trimmed(<<calls[c].key>> \o @, MaxRuns)])
    /\ Goto(c, "done", calls[c].key)
    /\ UNCHANGED minted

(* It threw: the caller is told, nothing is counted or logged.             *)
CallFails(c) ==
    /\ saving = "no"
    /\ calls[c].step \in {"proxying", "invoking", "running"}
    /\ Goto(c, "done", calls[c].key)
    /\ UNCHANGED <<store, timer, pending, saving, tmp, disk, minted, restarts, writeFailed>>

(* POST /fabric/logs: a client's own account of a call.                    *)
ReportLog ==
    /\ Mutates([store EXCEPT !.logs = Logged(OtherEntry)])
    /\ UNCHANGED <<calls, minted>>

-----------------------------------------------------------------------------
(* Saving.  The timer's callback and writeNow; a failure is logged and     *)
(* forgotten.  What is left of a temporary file is never read.             *)

TimerFires ==
    /\ saving = "no"
    /\ timer
    /\ timer' = FALSE
    /\ pending' = FALSE
    /\ saving' = IF pending THEN "writing" ELSE "no"
    /\ tmp' = IF pending THEN Torn ELSE tmp
    /\ UNCHANGED <<store, disk, calls, minted, restarts, writeFailed>>

SaveWritten ==
    /\ saving = "writing"
    /\ saving' = "renaming"
    /\ tmp' = Snapshot
    /\ UNCHANGED <<store, timer, pending, disk, calls, minted, restarts, writeFailed>>

SaveRenamed ==
    /\ saving = "renaming"
    /\ saving' = "no"
    /\ disk' = Renamed
    /\ tmp' = NoFile
    /\ UNCHANGED <<store, timer, pending, calls, minted, restarts, writeFailed>>

SaveFails ==
    /\ saving # "no"
    /\ saving' = "no"
    /\ writeFailed' = TRUE
    /\ tmp' = NoFile
    /\ UNCHANGED <<store, timer, pending, disk, calls, minted, restarts>>

(* The process dies, at any point, and the next one hydrates its store     *)
(* from the state file.  Nothing is flushed on the way out.                *)
Restart ==
    /\ restarts < MaxRestarts
    /\ restarts' = restarts + 1
    /\ store' = Hydrated(disk)
    /\ timer' = FALSE /\ pending' = FALSE
    /\ saving' = "no"
    /\ calls' = [c \in Calls |-> IF calls[c].step = "idle" THEN calls[c]
                                 ELSE [calls[c] EXCEPT !.step = "done"]]
    /\ writeFailed' = FALSE
    /\ tmp' = NoFile
    /\ UNCHANGED <<disk, minted>>

-----------------------------------------------------------------------------
Handles ==
    \/ \E kind \in Kinds, slug \in Keys : Publish(kind, slug)
    \/ \E kind \in {"workflows", "servers"}, k \in Keys \cup 1 .. minted : Edit(kind, k)
    \/ Seed(Marketplace) \/ Seed(Builtin)
    \/ ReportLog

Serves(c) ==
    \/ \E k \in Keys : RunApi(c, k) \/ Route(c, k) \/ RunWorkflow(c, k)
    \/ \E ok \in BOOLEAN : ProxyReturns(c, ok)
    \/ SkillReturns(c) \/ RunReturns(c) \/ CallFails(c)

Saves == TimerFires \/ SaveWritten \/ SaveRenamed \/ SaveFails

Next == Handles \/ (\E c \in Calls : Serves(c)) \/ Saves \/ Restart

Spec == Init /\ [][Next]_vars

-----------------------------------------------------------------------------
Row == [id : 1 .. MaxRows, slug : Keys, edits : 0 .. MaxEdits,
        requests : Nat, successes : Nat]

(* Type invariant: histories are cut at their limits, the state file is    *)
(* never half written, and ids are not given out twice.                    *)
FabricTypeOK ==
    /\ \A kind \in Kinds : store[kind] \in Seq(Row)
    /\ \A kind \in Kinds : \A i, j \in DOMAIN store[kind] :
         /\ store[kind][i].id \in 1 .. minted
         /\ store[kind][i].id = store[kind][j].id => i = j
    /\ Len(store.logs) <= MaxLogs /\ Len(store.runs) <= MaxRuns
    /\ timer \in BOOLEAN /\ pending \in BOOLEAN /\ writeFailed \in BOOLEAN
    /\ saving \in {"no", "writing", "renaming"}
    /\ disk.file \in {"none", "snapshot"}
    /\ \A c \in Calls : calls[c].step \in
         {"idle", "proxying", "invoking", "running", "done"}
    /\ minted \in 0 .. MaxRows /\ restarts \in 0 .. MaxRestarts

Dirty == store # Hydrated(disk)

(* No mutation is forgotten: while the state file lags behind the store, a *)
(* save with something to write is scheduled or under way, or the last one *)
(* failed and nothing has been changed since.                              *)
UnsavedIsScheduled == Dirty => (timer /\ pending) \/ saving # "no" \/ writeFailed

(* The store implements the promise of DurableStore: entries disappear in  *)
(* a restart only, which returns to the whole of the last completed save,  *)
(* wherever in a write the process dies.                                   *)
Durable == INSTANCE DurableStore WITH now <- store, kept <- Hydrated(disk)
ImplementsDurable == Durable!DurableSpec

(* Histories refer to what is there: a recorded run belongs to a workflow, *)
(* and the log of a proxied call to an API, that the store holds, across   *)
(* restarts that lose rows and calls.                                      *)
HistoryRefersToRows ==
    /\ \A i \in DOMAIN store.runs : Named(store.workflows, store.runs[i]) # {}
    /\ \A i \in DOMAIN store.logs :
         store.logs[i].outcome # "unproxied" => Named(store.apis, store.logs[i].key) # {}

(* Counters and logs agree: the APIs' counters add up to the logged proxied*)
(* calls, to no less once logs have been cut, and never to fewer successes *)
(* than are logged.  Both live in one snapshot, so this survives restarts. *)
Requests(rows) == SumFunction([i \in DOMAIN rows |-> rows[i].requests])
Successes(rows) == SumFunction([i \in DOMAIN rows |-> rows[i].successes])
Concluded(logs, how) == {i \in DOMAIN logs : logs[i].outcome \in how}

CountersMatch(st) ==
    LET logged == Cardinality(Concluded(st.logs, {"ok", "error"}))
        succeeded == Cardinality(Concluded(st.logs, {"ok"}))
    IN /\ Requests(st.apis) >= logged /\ Successes(st.apis) >= succeeded
       /\ Successes(st.apis) <= Requests(st.apis)
       /\ Len(st.logs) < MaxLogs =>
            Requests(st.apis) = logged /\ Successes(st.apis) = succeeded

CountersMatchLogs == CountersMatch(store)

(* persist.ts:6, "so state survives restarts and redeploys": a restart     *)
(* restores what was acknowledged, unless it interrupts a write or follows *)
(* one that failed.                                                        *)
AcknowledgedSurvives ==
    [][restarts' # restarts /\ saving = "no" /\ ~writeFailed => store' = store]_vars
=============================================================================
