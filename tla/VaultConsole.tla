---------------------------- MODULE VaultConsole ----------------------------
(***************************************************************************)
(* The owner's console of the vault                                        *)
(* (apps/web/components/fabric/nox-vault-section.tsx), the gateway routes  *)
(* it calls (apps/gateway/src/nox.ts) and the reads behind them            *)
(* (packages/nox-chain/src/index.ts), over the vault contract itself.      *)
(*                                                                         *)
(* Every read is a call of its own: between two of them the vault goes on, *)
(* driven by other consoles, by agents, and by the owners of the Safe.     *)
(* Any call may fail.  A console refreshes when it is opened and after     *)
(* each of its requests, and the two refreshes may overlap; one that is    *)
(* closed stops taking steps.  Of what it shows only what "Execute" sends  *)
(* matters here: the Safe, and the closed epoch with its total.  Payouts   *)
(* are made by consoles alone.                                             *)
(***************************************************************************)
EXTENDS KairosVaultLedger

CONSTANT Consoles

VARIABLES
    shownSafe,    \* per console: it shows a Safe with the module enabled,
    shownClosed,  \* the closed epoch it shows, if any,
    request,      \* the request its busy button waits for, if any,
    refreshes     \* and the refreshes under way

conVars == <<shownSafe, shownClosed, request, refreshes>>

Aggregate(e, total) == [epoch |-> e, total |-> total]
Refresh(why) == [why |-> why, at |-> "status", epoch |-> 0, count |-> 0]

ConsoleInit ==
    /\ Init
    /\ shownSafe = [c \in Consoles |-> FALSE]
    /\ shownClosed = [c \in Consoles |-> {}]
    /\ request = [c \in Consoles |-> {}]
    /\ refreshes = [c \in Consoles |-> {Refresh("mount")}]

Busy(c) == request[c] # {} \/ \E r \in refreshes[c] : r.why = "run"

-----------------------------------------------------------------------------
(* run: "busy" until the request and the refresh after it are done.        *)
Press(c, pressed) ==
    /\ ~Busy(c)
    /\ request' = [request EXCEPT ![c] = {pressed}]
    /\ UNCHANGED <<vars, shownSafe, shownClosed, refreshes>>

(* Fund, Register, Flush epoch, Settle, Attach: here one request.          *)
PressOther(c) == Press(c, [act |-> "other", of |-> Aggregate(0, 0)])

(* Execute sends the epoch and the total on the screen, "0" included.      *)
PressExecute(c) ==
    /\ shownSafe[c]
    /\ \E agg \in shownClosed[c] : Press(c, [act |-> "batch", of |-> agg])

(* What a vault transaction other than a payout may do.                    *)
OtherTransaction == Next /\ batches' = batches

(* The gateway sends the transaction.  If it is not mined, or mined and    *)
(* the answer is lost, the console shows an error and does not refresh.    *)
Serve(c) ==
    \E q \in request[c], heard \in BOOLEAN :
        /\ \/ q.act = "batch" /\ \E to \in Payees \cup {ZeroAddress} :
                ExecuteBatch(Owner, q.of.epoch, to, q.of.total)
           \/ q.act = "other" /\ OtherTransaction
        /\ request' = [request EXCEPT ![c] = {}]
        /\ refreshes' = [refreshes EXCEPT ![c] =
                           @ \cup (IF heard THEN {Refresh("run")} ELSE {})]
        /\ UNCHANGED <<shownSafe, shownClosed>>

RequestFails(c) ==
    /\ request[c] # {}
    /\ request' = [request EXCEPT ![c] = {}]
    /\ UNCHANGED <<vars, shownSafe, shownClosed, refreshes>>

Others == OtherTransaction /\ UNCHANGED conVars

-----------------------------------------------------------------------------
(* refresh, one awaited read at a time.                                    *)
Continue(c, r, next) ==
    /\ refreshes' = [refreshes EXCEPT ![c] = (@ \ {r}) \cup next]
    /\ UNCHANGED <<vars, request>>

(* GET /nox/status.  If it fails, the refresh ends.                        *)
ReadStatus(c, r) ==
    /\ r.at = "status"
    /\ \E next \in {{}, {[r EXCEPT !.at = "safe", !.epoch = epoch]}} : Continue(c, r, next)
    /\ UNCHANGED <<shownSafe, shownClosed>>

(* GET /nox/safe: whether the vault has a Safe, and that enabled it.  All  *)
(* the console makes of it is whether "Execute" may be pressed.  The route *)
(* reads the vault twice, and its second call, which asks afresh which     *)
(* Safe that is, decides: the one step of ReadSafe is that call.  A first  *)
(* call that finds no Safe answers FALSE whatever comes then: so may       *)
(* ReadSafeFails.                                                          *)
ShowSafe(c, r, enabled) ==
    /\ shownSafe' = [shownSafe EXCEPT ![c] = enabled]
    /\ Continue(c, r, {[r EXCEPT !.at = "closed"]})
    /\ UNCHANGED shownClosed

ReadSafe(c, r) == r.at = "safe" /\ ShowSafe(c, r, safe \in moduleEnabled)
ReadSafeFails(c, r) == r.at = "safe" /\ ShowSafe(c, r, FALSE)

(* GET /nox/epoch/:epoch for the epoch before the one the status told:     *)
(* readClosedEpoch reads the count first, and the total unless it is 0.    *)
ShowClosed(c, r, what) ==
    /\ shownClosed' = [shownClosed EXCEPT ![c] = what]
    /\ Continue(c, r, {})
    /\ UNCHANGED shownSafe

ReadCount(c, r) ==
    /\ r.at = "closed" /\ r.epoch > 0 /\ Closed(r.epoch - 1)
    /\ Continue(c, r, {[r EXCEPT !.at = "total", !.count = closedEpochCount[r.epoch - 1]]})
    /\ UNCHANGED <<shownSafe, shownClosed>>

TotalOfOpenEpoch(e) == epochTotal
TotalOfEpoch(e) == closedEpochTotal[e]

ReadTotal(c, r) ==
    /\ r.at = "total"
    /\ ShowClosed(c, r, {Aggregate(r.epoch - 1,
                                   IF r.count = 0 THEN 0 ELSE TotalOfEpoch(r.epoch - 1))})

(* No epoch is closed yet, or a read fails.                                *)
NothingClosed(c, r) == r.at \in {"closed", "total"} /\ ShowClosed(c, r, {})

RefreshStep(c) ==
    \E r \in refreshes[c] :
        \/ ReadStatus(c, r)
        \/ ReadSafe(c, r) \/ ReadSafeFails(c, r)
        \/ ReadCount(c, r) \/ ReadTotal(c, r) \/ NothingClosed(c, r)

ConsoleNext ==
    \/ Others
    \/ \E c \in Consoles :
         PressOther(c) \/ PressExecute(c) \/ Serve(c) \/ RequestFails(c) \/ RefreshStep(c)

ConsoleSpec == ConsoleInit /\ [][ConsoleNext]_<<vars, conVars>>

-----------------------------------------------------------------------------
(* Whatever a console shows is old by the time it is acted on: the epoch   *)
(* went on, another refresh overtook this one, a read failed.  Still each  *)
(* payout moves exactly what some closed epoch released, 0 if that had no  *)
(* settlements, and never a total that settlements were still adding to.   *)
BatchesPaySealedTotals ==
    \A i \in DOMAIN batches :
        /\ batches[i].epoch < epoch
        /\ batches[i].amount = ReadClosedEpoch(batches[i].epoch)
=============================================================================
