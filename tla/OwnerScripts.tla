---------------------------- MODULE OwnerScripts ----------------------------
(***************************************************************************)
(* The owner's scripts: scripts/attach-safe.ts, which deploys a Safe and   *)
(* installs the vault on it, and scripts/nox-demo.ts, which funds, settles,*)
(* flushes and pays the batch it has just closed.                          *)
(*                                                                         *)
(* A script is a line of awaited calls, each of which may fail and end it, *)
(* also after its transaction was mined.  The vault is shared: others send *)
(* transactions between any two of them.  Reads that are only printed are  *)
(* left out, payouts are the demo's alone.                                 *)
(***************************************************************************)
EXTENDS VaultConsole

CONSTANTS
    DemoBudget, DemoCap,   \* what the demo encrypts: the budget, the cap,
    DemoWithin, DemoOver   \* a payment within the cap, and one over it

ASSUME DemoAssumption ==
    /\ {DemoBudget, DemoCap, DemoWithin, DemoOver} \subseteq Values
    /\ DemoWithin <= DemoCap /\ DemoCap < DemoOver

VARIABLES
    script,  \* the call the script is at
    noted    \* what it has read or made that it uses later

scriptVars == <<script, noted>>

ScriptsInit ==
    /\ script \in {"fund", "deploy"}
    /\ noted = [epoch |-> 0, count |-> 0, total |-> 0, safe |-> ZeroAddress]

Goes(from, to) == script = from /\ script' = to
Reads(from, to) == Goes(from, to) /\ UNCHANGED vars
Keeps == UNCHANGED noted

-----------------------------------------------------------------------------
(* nox-demo.ts.  The owner is the agent, too.                              *)
DemoSettles ==
    /\ \/ Goes("fund", "register") /\ Fund(Owner, DemoBudget)
       \/ Goes("register", "within") /\ RegisterAgent(Owner, Owner, DemoCap)
       \/ \E to \in Payees :
            \/ Goes("within", "over") /\ Settle(Owner, to, DemoWithin)
            \/ Goes("over", "flush") /\ Settle(Owner, to, DemoOver)
    /\ Keeps

(* The closed epoch is told from the open one, which is read after the     *)
(* flush.                                                                  *)
DemoFlushes ==
    \/ Goes("flush", "after") /\ FlushEpoch(Owner) /\ Keeps
    \/ Reads("after", "count") /\ noted' = [noted EXCEPT !.epoch = epoch - 1]
    \/ Reads("count", "total") /\ noted' = [noted EXCEPT !.count = closedEpochCount[noted.epoch]]
    \/ /\ Reads("total", "safe")
       /\ noted' = [noted EXCEPT !.total = IF noted.count = 0 THEN 0
                                                               ELSE TotalOfEpoch(noted.epoch)]

(* One payout, if a Safe is attached that reports the module, of a total   *)
(* that is not zero.                                                       *)
DemoPays ==
    /\ \/ Reads("safe", "installed") /\ safe # ZeroAddress
       \/ Reads("installed", "batch") /\ safe \in moduleEnabled /\ noted.total > 0
       \/ \E to \in Payees :
            Goes("batch", "done") /\ ExecuteBatch(Owner, noted.epoch, to, noted.total)
    /\ Keeps

-----------------------------------------------------------------------------
(* attach-safe.ts.  The Safe is new; it stops unless the Safe reports the  *)
(* module after enableModule.                                              *)
DeploySafe ==
    /\ Reads("deploy", "enable")
    /\ \E s \in Safes \ (moduleEnabled \cup {safe}) : noted' = [noted EXCEPT !.safe = s]

AttachSafe ==
    /\ \/ /\ Goes("enable", "check")
          /\ noted.safe \notin moduleEnabled /\ SafeTogglesModule(noted.safe)
       \/ Reads("check", "attach") /\ noted.safe \in moduleEnabled
       \/ Goes("attach", "done") /\ SetSafe(Owner, noted.safe)
    /\ Keeps

(* A call throws, or a check does not hold.                                *)
ScriptEnds == script # "done" /\ Reads(script, "done") /\ Keeps

ScriptsNext ==
    /\ \/ DemoSettles \/ DemoFlushes \/ DemoPays
       \/ DeploySafe \/ AttachSafe \/ ScriptEnds
       \/ OtherTransaction /\ UNCHANGED scriptVars
    /\ UNCHANGED conVars

ScriptsSpec == Init /\ ScriptsInit /\ [][ScriptsNext]_<<vars, scriptVars>>
=============================================================================
