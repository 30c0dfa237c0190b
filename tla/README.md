# Kairos: specifications, model checking and proofs

TLA+ models of the parts of Kairos that hold money or decide who gets what: the
confidential vault contract, the gateway route that settles on it, the x402
payment gate and the clients that pay at it, the workflow engine, the store of
published entries with its snapshots, the catalogs and the skill sandbox, and the
sections of the web application that edit all of these. Each model is translated
from the code; `PROJECT.json` maps the definitions to their lines.

## 1. Inventory

| Part | Source | State it keeps | Operations | What must be true of it |
|---|---|---|---|---|
| Vault contract | `contracts/contracts/KairosAgentVault.sol` | encrypted budget and epoch total, epoch and count, closed totals and counts, agent sessions, last outcome per agent, handle permissions; the Safe it spends from | fund, registerAgent, revokeAgent, settle, flushEpoch, executeBatch, setSafe | never overdrawn; a debit and its flag agree; an epoch's total is its settlements' sum and is frozen when closed; secrets stay secret and handles usable |
| Vault client, `/nox` routes | `packages/nox-chain`, `apps/gateway/src/nox.ts` | one client per process, one relayer key; nothing else | settle (encrypt, send, wait, read flag, decrypt with retries), owner calls, reads | fail closed; never settle twice; the answer is about the caller's settlement; every request is answered |
| Vault console, owner's scripts | `nox-vault-section.tsx`, `scripts/nox-demo.ts`, `scripts/attach-safe.ts` | what was read last, one call at a time | run (one transaction, then a refresh), refresh, execute a batch; deploy and attach a Safe | a payout moves what a closed epoch released |
| x402 payments | `services/payments`, `apps/gateway/src/invoke.ts` | quotes, used proofs, usage records, all in memory | quote, verify proof, auto-pay, run, record usage | no priced run without its payment; a proof pays once; metering matches service |
| Clients of paid skills | `packages/sdk`, `apps/mcp-server/src/tools.ts`, `fabric-core/src/proxy-tool.ts`, `app/dashboard/apis/[slug]` | the quote of the last 402 | ask, pay by the gateway or by the agent, call again | a quote is paid once |
| Chain client | `packages/evm-chain`, `services/chain-worker` | demo transfers in memory | transfer, verifyPayment | a proof counts only if its transaction paid the quoted recipient the quoted amount |
| Skill execution, manifests | `services/execution`, `packages/manifest` | none | accept a manifest; run with an egress allow-list and a wall timeout | ends; nothing goes on after it; what its code may ask for itself (redirects are followed unchecked) |
| Workflow engine | `packages/fabric-core/src/engine.ts`, `graph.ts`, `steps.ts`, `resolver.ts` | one run: settled nodes, fired edges, outputs, attempts, operations in flight | schedule a wave, attempt, time out, back off, collect, finish | follows the scheduling rule; failure contained; "completed" is true; ends |
| Workflow list, editor, canvas and form | `workflows-section.tsx`, `workflow-graph-editor.tsx`, `workflow-canvas.tsx` | the graph being edited, "unsaved", saves under way; the steps of a form | draw, drag, delete, save, open, create | a stored graph can run (created steps should too, and may not); "saved" means stored |
| Cap policy board | `cap-policy-board.tsx` | the cards, on the board and in the browser's storage | add, remove, drop on a tier, reopen | no card claims a cap the vault never had |
| MCP servers: detail and form | `mcp-section.tsx` | the lists shown; the tools picked | toggle, create, leave | the gateway has what is shown; a server exposes what was picked |
| APIs: list, form, tests | `apis-section.tsx`, `fabric/store.ts` | the list, the form, the test under way | publish, list, test | a test reaches the API it names |
| Catalog cache, MCP tools | `packages/fabric-core/src/catalog.ts`, `register.ts`, `apps/mcp-server` | a cached catalog with a TTL | load, invalidate, register tools | what was published is found after a reload |
| Skill router | `packages/fabric-core/src/router.ts` | none (the logs) | rank candidates | an undominated choice |
| Fabric store and snapshots | `apps/gateway/src/fabric` | APIs, workflows, MCP servers, logs, runs; a snapshot file | create, patch, log, record, debounced save, hydrate | acknowledged changes survive a restart; statistics match logs |
| Skill catalog | `services/catalog` | published units | publish, get, list | one unit per slug and version, and it stands |
| Session keys | `packages/authz`, `fabric-core/src/auth.ts` | minted keys | mint, revoke, validate | a revoked agent has no live key |
| Gateway application, identity, infra, other scripts, pages that display | `apps`, `services/identity`, `infra`, `scripts` | none of their own | routing, deployment, display | - |

How they interact. The gateway owns one relayer key. `/nox/*` sends transactions
with it and reads the vault back through encrypted handles, which the Nox enclave
computes some time after the block. `/s/:slug` quotes, verifies on the chain and
runs a skill; the three awaits (transfer, verification, run) are where other calls
come in. Workflows run in the gateway or in the MCP server and call skills, URLs
and transfers. Nothing in the gateway is locked: everything between two awaits is
atomic, everything across an await is not. Quotes, used proofs and usage die with
the process; the chain does not; the fabric store is written after a debounce. The
sections of the web application each keep a copy of what they show, send requests
without waiting for one another, and are left while requests are under way: an
answer finds another screen, or an older list, than the one it was asked from.

The hard behaviours are therefore: overlapping requests on one key and on one
proof; answers of the enclave, the chain and the gateway that are late, lost or
wrong-way round; restarts between two steps; timeouts that abandon work without
cancelling it; wrap-around, empty-epoch and empty-string boundaries; permissions
on handles that every transaction must renew; what is shown being older than what
is stored. `PROJECT.json` lists each hazard at its line.

## 2. Modules

| Module | Models | Correspondence |
|---|---|---|
| `KairosVault` | the contract | one action per external function. A transaction is atomic; `require` is a conjunct. An encrypted integer is its plaintext plus the set of principals on its handle (`acl`); `Modulus` is 2^256. `funded`, `debited`, `debitedIn` are history variables |
| `TreasuryLedger` | abstract: credit, spend, seal | what the vault promises with encryption, sessions and handles forgotten; a balance wraps as an encrypted integer does |
| `KairosVaultLedger` | the refinement mapping | available = budget, open = epochTotal, sealed = what `readClosedEpoch` answers for each closed epoch |
| `RelayedSettlement` | `POST /nox/settle` over the vault | extends `KairosVault`. A request is cut at its awaits (encrypt and send, wait, read handle, each decryption). The n-th settlement's outcome handle is n. `Mine` performs the vault's `Settle` as the relayer |
| `VaultConsole` | the vault section over the vault, with the `/nox` reads it makes | extends `KairosVaultLedger`. A refresh is cut at each awaited read (status, Safe, count, total); consoles, scripts and others send transactions between any two |
| `OwnerScripts` | `nox-demo.ts`, `attach-safe.ts` | extends `VaultConsole`. A script is the call it is at and what it has read; any call may fail and end it |
| `X402Payments` | `/s/:slug` and `/s/:slug/auto-pay` | a call is cut at its awaits: transfer, verification, run. A header is a transaction and a spelling |
| `SkillClients` | the SDK, the MCP tools, an agent with its tool, the page of a skill | extends `X402Payments`: a client makes the gateway's calls, one at a time, and any answer may be lost on the way back |
| `WorkflowRule` | abstract: the scheduling rule | node by node, without waves, retries or timeouts |
| `WorkflowEngine` | `runGraph`, `executeNode` | one action is one turn of the scheduling loop up to its await, or one event of an attempt; `ops` are the operations in flight, including those a timeout abandoned |
| `WorkflowGraphs` | `stepsToGraph`, `workflowGraph`, `validateGraph` | operators on graphs whose nodes are ids; a cycle is a set of nodes each with a successor in it |
| `GraphWalk` | `findCycle`, `autoLayout` | the calls of the two recursive functions that are under way are a stack; an action is one turn of a loop or one return. The order of the edges is left open, and so is which nodes come with a position |
| `WorkflowEditor` | the list, the detail, the canvas, `PUT .../graph` | one action per pointer or key handler; a save is cut at its await and outlives the editor that sent it |
| `WorkflowForm` | the creation form, `POST /fabric/workflows` | a workflow is the ids of its steps |
| `CapBoard` | the cap policy board | a drop is cut at its two awaits and goes on with the roster it was rendered with |
| `McpServers`, `McpForm` | the detail and the creation form of an MCP server | toggles are requests that may be late or lost; a form's request may outlive it |
| `ApiPublisher` | the section of the APIs, `createApi`, `getApi`, `POST /fabric/run/api` | rows never change, so a list is a length; a string is a stem and a spelling, which is what `slugify`, `toLowerCase` and `??` tell apart |
| `CatalogMirror` | the cache and the registered tools of the MCP server | a load is cut at its fetch; the TTL counts ticks |
| `SkillCatalog` | `POST /skills`, `CatalogService`, both stores | a publish is cut between the look-up and the put |
| `SkillRouter` | `rankCandidates`, the routes that feed it | a price is read through a rounding that keeps the order (`Double`), and is 0 if it is no number; its part of a score is rounded once more (`Rounded`), which stands for every rounding of subtraction, division and sum. Latencies and counts, whose fractions doubles do tell apart, are exact: multiplied by what they are divided by. A median is the value with as many below it, not the middle of a sorted list. Prices with a sign or a fraction are left out |
| `SkillSandbox` | `ExecutionService.run` on an accepted manifest | time passes in units of ten seconds; a host is its labels; a request under way may be redirected to hosts nobody checks |
| `FabricStore` | `store.ts`, `persist.ts`, the routes that change the store | a handler that calls out is cut at its await; one that does not is one action. A snapshot is written in three (the timer, the temporary file, the rename) so that the process can die between them; no handler runs meanwhile, since the code writes synchronously. Rows keep an id, a slug and counters; an edit is a number |
| `DurableStore` | abstract: change, save, lapse | what the store promises of its entries: they are kept, except that a restart returns to the whole of the last save |
| `FiniteFacts` | nothing of the code | facts about finite sets and sums that the proofs share |
| `...Proofs` | theorems | see section 5; the parts of the web application, the catalogs, the router and the sandbox have theirs in `PortalProofs` |
| `MC...` | instances for TLC | constants, workflows and samples; the properties stand in the components' modules. `MCPortal` puts the parts of the web application and the catalogs side by side: a behaviour is one of a single part, so their state spaces add up and one run checks them all. `MCSkillClients` drives the payment gate by arbitrary requests or by two clients |

Nox (the library and its enclave), the Safe, the chain and the clients are not in
the repository; they are modelled from how the code uses them and marked external.
Where a definition could plausibly have been written wrongly, the wrong form stands
before it (`RemainingStale` before `Remaining`); no specification uses it, and
`PROJECT.json` lists which property fails when it takes the other's place.

## 3. Runs

Passing:

| Run | Shows | Bounds |
|---|---|---|
| `vault` | money, epochs, flags and handle permissions stay consistent under every order of transactions, and the contract implements `TreasuryLedger`, wrap-around included | 2 accounts (one is also the owner), integers 0..3 (a fund of 1 on 3 wraps), total funded at most 4, 3 epochs of up to 2 settlements. Two accounts suffice for interference between sessions, three epochs for a closed, a closing and an open one. With a Safe in play (`FewWithASafe`) one account, 1 funded and one settlement per epoch: payouts touch nothing but the closed epochs |
| `relay` | fail closed, one settlement per request, the answer is the request's own unless another overtook it, every confirmed request is answered | 2 requests that overlap, 2 attempts, 2 settlements in one epoch; any failed await, dropped transaction, restart and order of computation. Two requests are the smallest overlap |
| `x402` | paid before run, metering matches service, every verification and run answered, no program pays a quote twice | two ways of driving one gate. 3 overlapping arbitrary calls, or 2 clients (a program beside a program, an agent or a page) that make up to 4 calls between them; 2 quotes, 2 transactions, prices 0, 1, 2, one restart. Three calls are two that race and one that replays; two clients are one whose quote another might pay |
| `workflow` | the waves implement `WorkflowRule`; live paths, "completed", containment, awaited operations, termination | 10 workflows of 2 to 6 nodes: the README's picture, a receipt that names one branch, a fan-out with a timed loop and retries, nested conditions with and without a false edge, branches of uneven length, a node naming its neighbour's output, one with more nodes than the guard of 5, and three of them with a timeout on every node |
| `fabric` | histories refer to what is there, counters agree with logs, no change is forgotten by the timer, a restart returns to the whole of the last save | 2 slugs, 2 rows (so that one can shadow another), 2 overlapping calls, a log of 2 and a run history of 1 (both overflow), 1 edit, 1 restart at any point of a write |
| `portal` | the parts below, each by itself | see the next table |

The parts of `portal` and their properties:

| Part | Property | Bounds |
|---|---|---|
| vault console, scripts | `BatchesPaySealedTotals`: every payout moves what a closed epoch released, whatever a console showed when it was pressed or a script had read | 1 console with any number of refreshes in flight, 1 account, 2 epochs after the first, 1 payout; one settlement per epoch beside the console (`OneAnEpoch`: an empty and a non-empty epoch are what it tells apart), two beside the scripts (the demo settles twice) |
| cap board | `TierWasConfirmed`: no card bears a tier the vault never confirmed | 2 agents (one has a tier already), 2 tiers, 2 registrations asked for |
| editor | `StoredGraphsRunnable`, `CleanMeansStored` | up to 3 nodes, 2 edits, 2 saves under way; at first a graph, or two steps of one name and no graph |
| graphs | `WalksAnswerRight`: `findCycle` finds a node of a cycle exactly if there is one (an empty id, which it returns and its caller takes for none found, may hide it; `validateGraph` refuses such a graph anyway), `autoLayout` puts each node in the layer of its longest path and no two in one place | up to 3 nodes, the third perhaps named like the first, or one without a name; all edge sets among them and to and from a node that is not there, the edges in any order. Three nodes are a ring that is entered from outside and a node that two paths of different length lead to |
| MCP detail, form | `SettledMeansShown`, `PickedIsExposed` | 1 tool and 1 workflow of each sort, 3 toggles under way; 2 forms with 2 toggles each |
| catalog cache | `PublishedIsFound` | 1 workflow, 2 revisions, 2 loads at a time, a TTL of 1 |
| skill catalog | `PublishStands` | 3 publishes of one slug in 2 spellings and 2 versions, either store |
| router | `ChosenUndominated` | an API whose price is no number, one at 6 and a skill at 5; 5 is read as 4, and differences above 3 come out as one; 2 calls of each, fast or slow |
| APIs | `TestsReachNamesakes` | 2 rows, 2 names, slugs typed well, with a capital, or not at all, 2 forms |
| sandbox | `SandboxBounds` | 2 runs; endpoints with a fixed host, the caller's, or none; hosts, domains and wildcards listed; the default wall timeout and a shorter one; redirects to a host that is not listed |

Runs that show where the code departs from what the repository says of it:

| Run | Quoted text | What happens |
|---|---|---|
| `vault_one_movement` | `KairosAgentVault.sol:111` | a closed epoch is paid twice |
| `relay_overlap` | `packages/nox-chain/src/index.ts:117` | a refused settlement answers "authorised" on another's outcome |
| `x402_transfer` | `services/payments/src/service.ts:77` | one transfer admits two calls: they overlap, or spell it differently |
| `x402_autopay` | `apps/gateway/src/invoke.ts:71` | an expired quote is paid, then refused |
| `fabric_shutdown` | `apps/gateway/src/fabric/persist.ts:6`, `:75` | a change is answered and then lost in a restart within the debounce; nothing calls `flushSave` |
| `form_order` | `packages/fabric-core/src/graph.ts:7` | two steps are added in the form of a workflow, the first is removed, one is added again: both are `step_2`, the workflow is a cycle and starts neither (2 steps; no id is typed) |

Noted while modelling, visible in the models, and given no run of their own:

- Vault. `executeBatch` moves the amount its caller names, not the released total
  (`KairosAgentVault.sol:250`); registering an active agent again resets its
  cumulative spend (`:89`). `nox-demo` takes a failed opening read for a balance
  of zero (`nox-demo.ts:46`) and then prints a wrong expectation.
- Payments. A quote is looked up by nonce and never compared with the skill, so a
  cheap skill's quote pays for a dear one (`invoke.ts:106`); a paid call whose
  skill fails leaves no usage record (`invoke.ts:111`). The page of a skill keeps
  its quote after an error and may pay it again; `invokeWithProof` of the SDK
  sends no nonce, so a priced skill always refuses it. Auto-pay waits for its
  transfer without a limit (`packages/evm-chain/src/client.ts:185`).
- Workflows. No route validates steps: a list that repeats an id, by whoever sent
  it, becomes a cyclic graph (`graph.ts:22`). An emptied canvas is stored, and the
  steps run again, such a list too; `findCycle` returns an id, and an empty id counts
  as none found. The execution guard counts the nodes of a wave and not their
  retries (`engine.ts:274`, root `README.md:212`). A retry sees the context of the
  first attempt: outputs are written when the wave is collected (`:280`), although
  `:150` says that a retry sees outputs written since the last try.
- Store and routes. Publishing does not refuse a slug that is taken, so a newer API
  shadows an older one and is credited with its calls in flight (`store.ts:161`); a
  slug with capitals is stored as typed and never found; an optional slug left empty
  is sent as `""` and stored so, since `??` replaces a missing one only
  (`store.ts:136`), and the test of that API answers "slug required"; `POST /route` invokes
  whatever it ranked first as a skill, without a payment, and logs it as paid
  (`routes.ts:162`). Analytics over the logs see the newest 500.
- Router. A candidate without counted calls, which every skill is, enters the
  balanced score as always successful (`routes.ts:108`, `:127`), although
  `router.ts:10` says it is not "given a flattering default" and `:23` that the rate
  is meaningless then: it can win over one that answered all but one of its calls.
  `ChosenUndominated` therefore compares the rates of services that both have one, or
  neither. Prices beyond 2^53 wei that doubles do not tell apart count as equal. A routed
  call that failed adds to the latencies and not to the successes.
- Skills. A wildcard is accepted in an egress list and matches no host. The list is
  checked for the URL a run asks for only; redirects are followed by `fetch` without
  a check (`services/execution/src/service.ts:33`), so that the list does not bound
  where a run's requests end, as `docs/SANDBOX.md` has it.
- Web application. The `onDone` of a form that was left closes the form that is
  open by then; the toggles of a server without a slug are dropped silently; the
  lists of workflows and servers pass the wallet's address as the scope, so nothing
  is filtered by owner (`workflows-section.tsx:64`, `mcp-section.tsx:30`).

Deadlock is checked in the vault's and the relay's runs and switched off where
the system really stops: a finished workflow run, calls that have all been
answered, a script at its end, and a gateway with nothing left to publish, edit or
save within the bounds.

## 4. Fairness

`FairRelaySpec` assumes only that a handler which has its receipt goes on: the
event loop runs it, and each decryption returns or throws. That the enclave
computes, that a transaction is mined and that `tx.wait` returns are not assumed:
the code bounds its retries, not its waits. `FairSpec` of `X402Payments`, and
`DrivenSpec`, which adds the clients to it, assume that a started verification or
run returns or throws: the run has a wall timeout, and a verification is a few
requests of the RPC client, which the runtime's `fetch` gives up by itself. Of a
transfer nothing is assumed: it ends in `tx.wait()` without a timeout
(`packages/evm-chain/src/client.ts:185`), so an auto-pay may hang for ever, and
`CallsAreAnswered` speaks of the calls that got past it. That a client goes on is
not assumed. `FairSpec` of
`WorkflowEngine` assumes that the engine and its timers go on and nothing of the
operations; an operation without `timeoutMs` that never answers does hang the run,
and `Terminates` therefore speaks of workflows in which every operation has one.
The other runs check safety only and assume nothing: whoever sits at a screen may
stop, and most requests of the web application have no timeout.

## 5. Proofs

`KairosVaultProofs` proves, for every set of accounts, modulus and bound, from
`BoundsAssumption` (the bounds are naturals, the modulus positive) and
`NamesAssumption` (the amounts are encrypted integers; the vault, "anyone",
`address(0)` and the unset handle are nobody else), and for the sum over the
accounts from `AddressesAssumption` (addresses are finitely many):

- `TypeCorrect`: one lemma per function, `DebitFacts` for the two gates and
  `AddFacts` for wrapped addition.
- `NoOverdraftHolds`: inductive together with `TypeOK`. `fund` adds at most its
  amount to the budget and exactly it to `funded`; `settle` moves its debit.
- `SpendWithinDebitsHolds`: the sessions' cumulative spends add up to at most what
  left the budget, although each of them wraps and registering again resets it. A
  settlement adds at most its debit to one summand.
- `EpochLedgerHolds`: inductive with `TypeOK`; `settle` touches the open epoch,
  `flushEpoch` hands the open total to the closing one. The conjuncts about epochs
  that are not open yet are the strengthening: without them the new epoch of a
  flush might already have debits.
- `NothingSecretIsPublicHolds`, `HandlesStayUsableHolds`: inductive with `TypeOK`;
  the first keeps "public only if nothing was ever added", which is what lets
  `flushEpoch` release a total with settlements without reverting.
- `ClosedEpochsFrozenHolds`, `DebitMatchesFlagHolds`: action properties from
  `TypeOK`.
- `PayoutsOfClosedEpochsHolds`: epochs only grow.
- `VaultImplementsLedger`: the contract refines `TreasuryLedger`, whose balances
  wrap as encrypted integers do, so that no bound on what is funded is assumed.

`VaultPayoutsProofs`, from the same assumptions, `ConsolesPaySealedTotals` and
`ScriptsPaySealedTotals`: `BatchesPaySealedTotals` for any number of consoles,
refreshes and epochs, and for the scripts. The common part is what the vault does
to closed epochs meanwhile, namely nothing (`GoesOn`); the invariants say, for each
thing a console or a script holds between two calls, what of it is still true:
what is shown or sent is a closed epoch with its released total, a refresh between
the count and the total has the count of an epoch that is closed by now
(`ConsoleInv`, `ScriptInv`). That a refresh might pair an old epoch with a newer
status is allowed by them, and harmless. `ConsolesDriveTheVault` and
`ScriptsDriveTheVault`: consoles and scripts only decide which transactions happen and
when, so that every theorem about the vault holds under them. They pay totals, which
need not be among the `Amounts` of an instance; the two therefore assume that a
caller may name any encrypted integer, as the contract's callers may. For the scripts
there is `DemoAssumption`: what the demo encrypts are encrypted integers, one payment
within its cap and one over it.

`RelayedSettlementProofs`, from `RelayAssumption` (the relayer is an account, at
least one attempt) and the vault's assumptions, by `RelayInv`: a request goes
through its steps in one direction, and what can have happened to it is bounded by
how far it is (`Progress`). Without it a request that has its answer might be mined
once more.

- `FailClosedHolds`, `OneSettlementPerRequestHolds`, `OwnUnlessOvertakenHolds`,
  `RelayTypeCorrect` (which bounds the decryptions by the attempts).
- `RelayImplementsVault`: gateway, enclave, mempool and restarts together are a
  behaviour of the contract, so each theorem about the vault holds under the relay
  (`RelayNoOverdraft`).

`X402PaymentsProofs`, from `PaymentsAssumption` (prices are naturals, the
gateway's spelling is a spelling, "no nonce" is none) and `NoProofAssumption`, by
`PaymentsInv`: what a call owes and shows is fixed before verification (`Gate`),
and a gateway that has not restarted remembers of each admitted call exactly that
call (`Remembered`).

- `PaidBeforeRunHolds`, `UsageMatchesServiceHolds`, `PaymentsTypeCorrect`, and the
  action properties `ReplayRefusedHolds` and `ExpiredRefusedHolds`.
- The clients' steps are the gateway's by their definition, so the theorems above
  hold under them. `QuotesArePaidOnceHolds`, for any number of clients of any kind, from
  `ClientsAssumption` in addition, by `ClientsInv`: nobody holds the nonce of
  another's quote (`Exclusive`), although answers are lost and the gateway forgets
  its quotes; the call a client waits for is the one it sent (`CallInv`); and a
  program leaves its quote behind with its one attempt to pay (`ProgramInv`). A page
  keeps it, and is bound only once it was told the result.

`WorkflowEngineProofs`, from `EngineAssumption` and `GraphAssumption` (what
`validateGraph` grants a stored graph; a loop over an empty list starts no
operation and counts as a transform), by `EngineInv`: what the scheduler recorded
of a node and what its execution says agree (`Agreement`), and an attempt has one
operation (`OneOpPerAttempt`), without which one operation's answer could end the
attempt another is awaited for.

- `WorkflowTypeCorrect` (the guard overshoots by one wave at most),
  `OpsAreAwaitedHolds` (that an attempt always has an operation that can end it is
  `AttemptsHaveOps`, inductive by itself), `RoundsSettleNodesHolds`: every round of the
  loop settles a node and attempts are bounded, which is what `Terminates` rests on
  beside fairness.
- `FailureContainedHolds`, `RanIffLivePathHolds`, `CompletedMeansWholeHolds`, by
  `RunOrder`: an edge's target does not start before its source is settled, nor
  ever after a source that failed; a node ran if an edge to it fired and was skipped
  if none did; a loop that ended without a failure left nothing ready. A path is
  what every set closed under edges contains, so that "downstream of" and "on a live
  path" need no recursion. The last two speak of acyclic graphs: on a ring every
  node waits for another, none runs and the run ends. `validateGraph` refuses such a
  graph, and the proof takes from it that the waiting nodes have one that waits for
  none of them (`NobodyWaits`).
- `EngineFollowsRule`: every turn of the wave loop is an `Advance` of the rule and
  every end of an attempt a `Settle`, for every workflow, retries, timeouts and
  abandoned operations included.

`FabricStoreProofs`, from `FabricAssumption` (bounds are naturals; what seeding
wants are slugs; keys and calls are finite), by `StoreInv`: rows live on under
their id and slug, so what histories and calls in flight refer to stays, in the
store and in the file; what is about to be renamed is the store itself.

- `FabricTypeCorrect`, `UnsavedIsScheduledHolds`, `HistoryRefersToRowsHolds`.
- `CountersMatchLogsHolds`, of the store and, as the invariant needs for a restart,
  of what is being written and of the file. A logged call adds one entry and counts
  for one row, the one found under the slug when the answer is logged; an edit or a
  new row changes no sum; a log that overflows only loses entries.
- `FabricImplementsDurable`: the store refines `DurableStore`.

`PortalProofs` has a section for each part of the portal's run, and proves their
properties for any values of the constants:

- `StoredGraphsRunnableHolds`, `CleanMeansStoredHolds` (editor, from
  `EditorAssumption`: at first there is a graph that `PUT` accepts or none, and any
  steps, as `POST` takes them). `SavesInOrder`:
  the editor that is shown has one save of its own at most, is "unsaved" until its
  answer is noted, and what that save carries is what is shown. What can run is
  taken from what `ValidateGraph` refuses: a finite graph without a ring can be
  ordered.
- `WalkFindsCyclesHolds` (`findCycle`, from `DrawingsAssumption`: a graph is a list
  of nodes and a set of pairs), by `SearchInv`. The calls under way are the grey
  nodes, each with an edge to the next (`Trail`), so a grey node that is met again
  closes a ring. Black nodes lead to black ones only, what a loop has taken is black
  unless it is being called, and there is no ring of black nodes (`Explored`): the
  node that turns black leads to none that is not black already. When every node is
  black there is thus no ring. An empty id that is met breaks `Explored`, but then
  there is a ring to be missed (`Missed`).
- `LayersAreDepthsHolds` (`depthOf`), by `DepthInv`: what has a depth is beyond all of
  its parents and next to one of them (`Depths`); what a loop has counted so far is
  the deepest of the parents it has taken, without the one being called (`Frames`). A
  parent that is being called already would close a ring (`SeenIsCyclic`), so the 0
  that the code answers then never counts.
- `PlacesApartHolds`, by `RowsInv`: in each layer the rows below its counter are taken.
  `WalksAnswerRightHolds` is these three together.
- `TierWasConfirmedHolds` (cap board). `HistoryHolds`: no card, in storage, on the
  board or in a drop under way, bears a tier the vault did not confirm at some time.
  `CurrentHolds`: for an agent nobody else registered and nobody dropped twice at
  once, the card agrees with the chain as soon as no drop of it is under way.
- `SettledMeansShownHolds` (MCP detail). `ServerInv`: the request numbered last in
  this visit carries what is shown; an older one, or one of
  an earlier visit, has another number.
- `PickedIsExposedHolds` (MCP form, from `PickerAssumption`: built-in tools, API
  tools and workflows have different names). `PickersInv`: the two lists are what was
  picked, each of its sort, and a form that was left is not the one it was sent from.
- `TestsReachNamesakesHolds` (APIs). `PagesInv`: rows are only appended, so what
  a page has opened or tests is still the row it was, and the row a test is answered
  by bears the slug and is not older than the one that was meant.
- `SandboxBoundsHolds` (sandbox). `BoxInv`: every URL that was asked for was allowed by
  the manifest the run is on, and a run is as old as its requests, two at most of a unit
  each, so that the default wall timeout never cuts one off and nothing goes on
  after a run's end; a redirect goes on under the timeout of its request. A shorter wall
  does, and the request goes on.
- `ChosenUndominatedHolds` (router, from `RouterAssumption`: finitely many
  candidates; prices that are naturals or no number, and roundings that keep their
  order; natural latencies). Its content is arithmetic: an at least equal price, speed
  and success rate give an at least equal score, a better speed or rate a better one,
  and a better price that rounding made the same is found by the second key of the
  sort, under whatever range the candidates span;
  the first of a finite order is chosen (`ChosenIsFirst`).
- `ReloadsAreFound` (catalog cache). `MirrorInv`: a load has fetched at least what
  there was when it was asked for, and one asked for since the last good reload was
  done has what that one published (`LoadsGrow`), for any number of workflows and of
  loads under way.
- `PublishStandsHolds` (skill catalog, from `SkillsAssumption`, either store).
  `CatalogInv`: two publishes of one id that are open together know of each other,
  and one that has found its id free finds it taken later only by one it overlapped
  (`Noticed`). Without it a put in memory could replace the unit of a publish that
  had long been answered.

`FiniteFacts` holds what these proofs share: that a set of subsets of a finite set
has a smallest member (`SmallestMember`), which takes the place of induction, since
the library's induction theorems need an operator the provers cannot instantiate; a
first element of a finite order; that the union of an acyclic relation is ordered;
and sums over a finite set (one more summand, one that changes, a bound for each),
for the recursive function the community module `Functions` defines them by.

Proved and not in a run: the type invariants of the vault, the relay, the payments
and the fabric store, and `ReplayRefused`, `ExpiredRefused` and
`PayoutsOfClosedEpochs`, which the runs would only repeat, and
`RoundsSettleNodes`.

Model-checked only: liveness (`ConfirmedIsAnswered`, `CallsAreAnswered`,
`Terminates`), which rests on fairness. Every invariant and every action property
of a passing run is proved.

## 6. Plan

Modelled, in this order: the vault, the relay, the payment gate, the engine and the
fabric store, each with its proofs; then the parts around them, namely the clients
that pay, the consoles and scripts that drive the vault, the sections of the web
application that edit, the catalogs, the router and the sandbox.

Worth doing next:

1. `SessionKeys` (mint, revoke, validate) once some call is checked against a key:
   at this commit none is, and there is nothing a wrong key could open.
2. The budget and cap reads of `/nox`, with the enclave's permissions on them.
3. Sections that display, if they come to act on what they show.

## 7. Not modelled

- Session keys: records that are minted, listed and revoked; no call of a skill, a
  workflow or the vault is checked against one. The identity service is a stub.
- Sections of the web application that only display (analytics, dashboard,
  marketplace, the marketing pages), the wallet's connection, and of the modelled
  sections everything that is layout: what they show is the state that is modelled.
- Deployment, migration and provisioning scripts, compose files and containers: they
  run once and keep no state. Other reads of the vault that are only printed.
- HTTP routing, wording and formatting.
- Of the chain client its configuration; the demo chain's in-memory transfers are
  treated as a chain that survives restarts.
- Of the fabric store latency and earnings columns and listings. Analytics add up
  the logs that are left of it.
- Of the engine what a native node computes; templates are reduced to the outputs
  they name, and skills to returning or failing.
